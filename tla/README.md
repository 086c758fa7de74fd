# hjkl: a TLA+ development of its stateful core

hjkl is a vim-modal editor written as a workspace of about sixty Rust crates
and one terminal application. This directory models the parts of it whose
correctness depends on a sequence of steps, on several actors or on what
survives a failure, checks the models with TLC on small instances, and proves
the most important invariants with TLAPS for instances of every size.

Paths below are relative to the repository (`src/` here); line numbers are in
`PROJECT.json`, whose `map` ties every definition to the code it models.

## 1. Inventory

| Component | State it keeps | Operations | What makes it hard |
|---|---|---|---|
| Undo tree, `hjkl-buffer/src/undo.rs` | arena of nodes with parent, children, `last_child`, `on_path`, `seq`; base text of the root, a delta per node, two LRUs of cached texts | push, undo, redo, `g-`/`g+`, pop, cap, clear, save and reload | long legal call sequences; redundant state (flags, caches, index) that must agree; pruning under the user's feet |
| Undo groups and the commands that use the tree, `hjkl-buffer/src/content.rs`, `hjkl-engine/src/editor.rs`, `hjkl-engine/src/substitute.rs`, `hjkl-vim`, `hjkl-ex/src/global.rs` | group depth, armed flag, `dirty_gen` at the opening, the command under way | enter, exit, `push_undo`, mutate, `:s`, insert sessions, `<C-o>`, macros | commands compose; each assumes the boundary it asked for exists |
| Buffer, edits and folds, `hjkl-buffer` | rope, cursors of several views, fold ranges, marks | edits, fold commands, shifting of positions | every position kept elsewhere must be shifted by every edit |
| Install pool, `hjkl-anvil/src/job.rs` | job queue, map of jobs in flight, channel per caller | install, worker loop, broadcast, finish | threads, bounded channels, a lock held while sending |
| Grammar loader, `hjkl-bonsai/src/runtime/async_loader.rs` | same shape with a panic guard | load, worker loop, broadcast | threads, dedup of concurrent requests |
| File locks, `hjkl-fs/src/lock.rs` | the claim of a path in a process with its depth, a condition variable, the OS lock on a sidecar | lock shared or exclusive, nest, drop | threads and processes; a lock of two layers; errors and crashes half-way |
| Atomic writes and the file-state index, `hjkl-fs/src/atomic.rs`, `hjkl-app/src/filestate.rs` | temp files, the index with its cap | load, update, replace | every instance rewrites one file; crash or power loss between two system calls |
| Swap files, `hjkl-app/src/swap.rs` and its callers in `apps/hjkl/src/app/ex_dispatch.rs` | header (path, pid, mtime), text and undo tree of an unsaved buffer; per slot a swap path and the `dirty_gen` last written; the recovery prompt | idle write, arm on open, check, prompt, recover, adopt orphans, remove | crash recovery, two instances, a scan that is stale when it is used |
| Syntax worker, `hjkl-syntax` | pending parse, cache of rendered spans | submit, parse, take result | stale results of an older text |
| File watcher, `hjkl-fs-watch`, and `apps/hjkl/src/app/fs_watch.rs` | raw queue, pending events per path, event queue, overflow flag; watch set and filter; per slot a disk baseline and state | debounce, flush, rescan; `checktime`, reload | two bounded queues that drop, a thread beside the event loop, stat and read that are two calls |
| Language server client, `hjkl-lsp`, `apps/hjkl/src/app/lsp_glue.rs` | application: attached ids, `last_lsp_dirty_gen`, pending requests, server states; runtime: servers, attachments with versions; per process a pending map | attach, detach, change, save, request, timeout, restart; spawn, handshake, exit, shutdown | two threads and a process that report to each other through queues; late answers; a server that dies at any time |
| Explorer, `apps/hjkl/src/app/explorer.rs`, `explorer_reconcile.rs`, `hjkl-app/src/trash.rs` | tree with expanded directories, baseline of ids, trash registry, undo and redo journals | reconcile an edited listing with the disk, apply, revert, reapply | a batch of moves in which each can fail; names that are swapped; undo over other transactions |
| Clipboard, `hjkl-clipboard` | selection ownership, a request thread | set, get, serve | two threads and a display server |
| Windows, tabs, quickfix, picker, prompt, keymap | trees, lists and cursors | split, close, cycle, match | focus must stay on something that exists |
| Modal state machine, `hjkl-vim`, and ex commands, `hjkl-ex` | mode, pending key prefix, counts, registers | one handler per key or command | very wide; mostly text transformations |

`PROJECT.json` lists every component with its status and, under `hazards`,
what is hard to test in it.

## 2. Modules

| Module | Models | Composed of |
|---|---|---|
| `UndoArena` | the links of the undo tree: parent, children, redo target, `on_path`, `seq`, and the loop of `cap` | |
| `UndoTree` | abstract: every node simply holds its text | `UndoArena` |
| `UndoStore` | how the texts are stored: a base, deltas, two LRUs of cached texts | `UndoArena`; implements `UndoTree` |
| `EditorUndo` | the commands that use the tree: groups, changes, `:s`, insert sessions, history commands | `UndoStore` |
| `InstallPool` | the install pool, its two bounded channels and the event loop that calls and polls it | |
| `GrammarLoading` | loader, language directory, syntax layer and application, from a filetype to an attached grammar | |
| `PathLock` | abstract: one readers-writer lock on a path | |
| `FileLock` | `hjkl-fs::lock`: the wait set in a process and the OS lock between processes | implements `PathLock` |
| `StateFile` | the file-state index, rewritten under the lock by an atomic replacement | `FileLock` |
| `SwapFiles` | swap files of several editors, recovery and crashes | |
| `LspClient` | application, runtime thread and server processes of the language server client | |
| `FileWatch` | other programs, the watcher's thread and queues, and the editor's `checktime` | |
| `Explorer` | the editable listing and the file operations it stands for | |
| `UndoProofs` | theorems about `UndoArena`, `UndoStore` and `EditorUndo` | `EditorUndo` |
| `StateFileProofs` | theorems about `FileLock` and `StateFile` | `StateFile` |
| `SwapFilesProofs`, `InstallPoolProofs`, `GrammarLoadingProofs`, `LspClientProofs`, `FileWatchProofs` | theorems | the module they name |
| `SequenceLemmas` | lemmas about queues and lists that several proofs share | |
| `MC...` | instances for TLC | |

A definition whose comment begins "Mutant:" is a deliberately wrong variant of
the one that follows it. No specification uses one; each shows that a property
can fail.

### UndoArena

The slab's live slots are the common domain of the five per-node functions, so
a read of a freed slot would be a TLC error. A children vector only gets the
node with the highest `seq` appended, so it is a set here. Actions: `Push`
(`push_committed`, on the way into `cap`), `StepUp` and `StepDown` (`u`,
`<C-r>`), `SeqEarlier` and `SeqLater` (`g-`, `g+`, with `retarget_current` and its early
stop at the first flagged node), `Pop` (`pop_committed`), `DropLeaf`, `PruneRoot` and
`CapDone` (one iteration of `cap`, either kind, and its end with the `clear_redo` that
`push_undo_at` runs after it), `ClearAll`, `Reload`
(`to_serializable` followed by `from_serializable`) and `SetLevels`. `pc` says that
`cap` is running; nothing else is enabled meanwhile, as the code is
single-threaded. The walk along parents is the least closed set (`Anc`), which
both TLC and the prover can use; it is not a recursive operator.

### UndoStore and UndoTree

`UndoTree` is what a user is promised: leaving a node stashes the live text in
it, landing on one restores what was stashed. `UndoStore` does what the code
does: only the root has a full base text, every other node the delta from its
parent, and cached texts live in a keyframe LRU and a warm LRU. A delta is the
pair of texts it connects and yields `Garbage` on any other text: that is the
property of a byte-level diff that matters, and the byte-level encoding itself
is left out. `ImplementsTree` is the refinement; its mapping sends a node to what
replaying deltas from the root gives.

### EditorUndo

`UndoTree` and `UndoStore` assume a protocol: the text changes only after a
boundary was taken. `EditorUndo` does not assume it. Its commands are a step that
asks for a boundary (`Begin`), steps that change the text (`Change`, `Substitute`,
`SubstituteNothing`, `Type`, `BreakInsert`, `EndInsert`), history commands, `<C-o>u`
(`InsertUndo`) and the opening and closing of groups, with `push_undo`'s suppression
inside an armed group. Three combinations break the protocol: a `:s` inside a
group, a history command inside a group (a macro), and `<C-o>u` inside an insert
session. All are actions of the specification; the history variable `strayed`
records that one has happened, and the instance of `editor_undo` follows a
behaviour up to that point (constraint `Followed`). The theorems about the links
hold for all behaviours.

### InstallPool

The mutex of `in_flight` is a variable, because a worker holds it over several
blocking sends. `install` is split where it can block: taking the mutex (`Subscribe`
or `Register`) and sending the job into the bounded queue (`Enqueue`). The event
loop alternates an input (`CallInstall`, `OtherInput`) and `Poll`. The worker takes a
job, reports progress or a terminal status one sender at a time (`SendStatus`), and
`Finish` broadcasts the terminal status and removes the registry entry in one
critical section.

### GrammarLoading

Mutex sections that cannot block are one step. `SetLanguage` chooses between no
grammar, the cache, a synchronous load of an installed grammar and a new
asynchronous load; `PollEntry` is one iteration of `poll_pending_loads` with its
`swap_remove`; `Dispatch` is the application's re-attachment of buffers reported
ready; `SetFiletype` and `Forget` are a `:set filetype` and a close in between; the worker
takes a job, loads it (with success, error or a caught panic), drains the
subscribers and answers them. `LoadByName` is the directory's blocking load used by
other callers of the cache.

### FileLock, PathLock and StateFile

One path is modelled; paths do not interact inside this code. `ClaimFree`, `Wait` and
`ClaimAgain` are the three arms of the match in `acquire_in_process`; a woken thread
goes round the loop again and may lose to another. `OpenLockFile` and `OsLock` may
fail at each point (`AcquireFails`). `release_in_process` drops the mutex before it
notifies, so `Release` and `Notify` are two steps; the OS lock is given back after
both (`Unlock`). `Crash` frees what the kernel frees. `PathLock` has one variable, the
mode each thread holds, and the mapping takes a thread's outermost guard.

`StateFile` puts `update` of the index inside that lock: load, put the entry in,
`cap_lru`, and `write_atomic` step by step. A file is whole or torn. `pending` is the
set of contents the name may show after a power loss: it grows with a rename and
shrinks to one with a directory sync. Every call may fail, a process may die at
any step and leave its temp file, and a successor may have the same pid
(`OldTemps`).

### SwapFiles

A process has one named buffer and the unnamed ones it recovered. A swap is the
record of its header and text; its name is the file's, or pid and slot. Opening
goes through `CheckExists`, `ReadSwap` (under the lock), and one of `OpenReadOnly`,
`DropStale` and `Prompt`, the arms of `check_recovery_locked`; then `Arm`
(`arm_swap_on_open`). `AnswerYes`, `AnswerNo` and `AnswerAbort` are the keys at the
prompt, `ForceRecover` is `:recover`, `Disable` is `-n`. At start `Scan` lists orphans and
`RecoverOrphan` or `SkipOrphan` decides each anew under its lock. `IdleWrite` is the
idle tick, `Save` and `SaveDone` the two halves of `:w` around which a process can
die. A dead process keeps its swaps; its pid can be given to a later one. A text
is the number of the edit that made it, so "older" is a comparison. The history
`shared` marks a file that two buffers write, and one whose swap a buffer kept after it
was saved under another name and may still write. hjkl lets the user do either (the
first after a warning), and then `SyncedWorkIsFindable` and `RecoveryNeverGoesBack` promise
nothing about that file. The run follows no state with a shared file; the theorems do,
and the other two properties hold there too.

### LspClient

The application's thread, the `hjkl-lsp` thread and the processes, with the two
unbounded channels between the threads. Each `LspCommand` is an action of the
dispatcher (`AttachRunning`, `AttachSpawn`, `AttachIgnored`, `Detach`, `Change`, ...); it
awaits the handshake and the end of a server inside a command, which `rt` records.
`Drain` is `drain_lsp_events` with the sweep of timed-out requests.

A text is a number that every change counts up. The log of content edits leads from text
`logFrom` to the buffer's; an incremental didChange carries the edits between two
texts, and a server that holds any other text than the first ends up with a `Garbled`
one. A change is one of two kinds. Those that end in `sync_after_engine_mutation` or
its like drain the log into a notification (`Notified`): keys, `:s`, completions, the `r`
of the disk-change prompt and a format result for the active buffer (`Edit`), undo
and redo (`TimeTravel`), edits a server asked for (`WorkspaceEdit`). The others send
nothing (`NotNotified`) and leave in the log what they leave: the autoreload of
`checktime_slot`, `:e!`, `git_revert_hunk` and a format result for a buffer that is not
active (`Replace`), the answer to a formatting request (`Formatted`), a confirmed
`:s///c` (`ConfirmSubstitute`), ex commands such as `:d` or `:put` (`ExEdit`), `:undo` and
`:earlier` (`ExTimeTravel`), a save that fails after its hooks (`SaveFails`). A save that
succeeds sends the whole text.

`DocumentsInSync` says when the server's text and `logFrom` agree. The history `gap` of a
buffer marks what `lsp_notify_change_for_slot` does not notice (section 5 lists it), until the
next notification with the whole text. The history `left` has the buffers given up
with `q` at the recovery prompt while others are open, which stay attached.

### FileWatch

`Change` and `Rename` are other programs; `Callback` is notify's closure with its
`try_send` and the overflow flag; `Recv`, `Tick`, `Offer`/`Flush`, `SendRescan` and
`ClearOverflow` are the worker; `SyncFilter` and `SyncWatch` are two steps because the
filter is set before the directory is watched; `Drain` takes events and starts a check,
whose stat and read are two steps (`StatSlot`, `ReadSlot`). `QuietMeansSeen` excuses two
histories. `missed`: a change before the directory is watched, one whose path the
filter dropped because its `try_lock` met the event loop, one dropped between
the send of a rescan and the reset of the overflow flag, and the far end of a
rename overwritten by a later event. `blind`: a slot whose baseline is not the stat of
its text, because read and stat are separate, or whose stat'ed version came back
by a rename. These are real gaps of the code; everything else must be noticed.

### Explorer

The disk maps paths to contents and the trash is one more directory. A command
leaves its lines in `buf`, and the only step possible then is `Tick`
(`maybe_reconcile_explorer`): parse the buffer, `Reconcile`, `ApplyOps`, push the
journal, reveal, rebuild. `Move` is the only way anything is moved and the
constant `Faults` says which move of a transaction fails. Undo and redo run
`RevertOps` and `ApplyApplied`. Ids are rows of the last rebuild, as in the code, so a
register that outlives a rebuild holds stale ids. `Exchange` and `Shift` are one command
that swaps two names or moves three of them round, the edits that need parked
renames. `NothingLost` excepts a transaction in which an operation fails while one
entry takes the name of another that waits for a third (`Chained`): there the code
overwrites, see `MCHopBack.cfg` in section 5. Neither does it cover an edit that
names a path twice or creates an entry where another stays, for the code
overwrites then (see `explorer_clobber`), nor a failing move in an edit that creates an
entry where another was to leave; a new entry in the place of one that is moved or
trashed by the same edit is covered. The histories: `rash`, an edit of one of these kinds, after
which no property speaks; `tangled`, an entry moved into a directory that the same edit
creates; `failed`, an operation reported an error, after which undo and redo may
overwrite, since `revert_ops` does not look at what is in the way.

## 3. Runs

Deadlock is checked where it may not happen. It is switched off in `file_lock`
and `state_file`, whose bounded threads stop when their calls are used up, in
`swap_recovery`, whose processes end, in `lsp_client`, where the application leaves, and
in `explorer`, whose transactions are bounded.

| Run | Bounds | States | What it shows |
|---|---|---|---|
| `undo_arena` | 5 slots, `seq` up to 6, undolevels 0, 1, 2; symmetry in slots | | links and flags agree after every sequence of operations; `cap` frees what it may and reaches its budget; an edit after `u` drops no branch when undo is unlimited |
| `undo_store` | 4 slots, 2 texts, LRU caps of 1, a keyframe at every second depth, undolevels 2 | | the store implements the abstract tree through eviction, replay, root promotion and reload; a cached text equals the replayed one; no cached text escapes its LRU |
| `editor_undo` | 4 slots, `seq` up to 7, groups nested twice, undolevels 0 to 3, up to the first command that strays | 164,393 | a group is one undo step, an idle group costs no state, only tips change |
| `install_pool` | 2 tools, 2 workers, 3 channels of 3 statuses, job queue of 1 | | one job per tool, no handle loses its terminal status, every handle is resolved |
| `grammar_loading` | 2 languages, 2 workers, 1 buffer, 2 handles | | one job per language, no request lost, every request resolved, the last filetype wins |
| `file_lock` | 2 processes of 2 threads, one thread acquires twice, 1 crash | | the two layers are one readers-writer lock; nests are covered, no wake-up is lost, every acquisition ends |
| `state_file` | 3 threads of 2 processes, 3 files, cap 2, 2 temp names, 1 crash or power loss | | no acknowledged update is lost, the index is whole at every instant |
| `swap_recovery` | 3 pids, 2 starts, 1 file, 2 buffers each, 3 texts, 2 instants; a dead process's swaps at the start; symmetry in pids | 1,013,486 | written work stays findable, an orphan is adopted once, the swap of a live process is not taken, recovery never offers an older text |
| `lsp_client` | 2 buffers, 2 files, 2 processes, 2 changes each, 1 request, 4 commands; the first buffer has the first file | 2,485,332 | documents in sync but for known gaps, both threads agree when quiet, no process leaks, a legal document protocol, every request ends |
| `file_watch` | 2 files (one auto-reloading), queues of 2 and 1, 3 versions | 3,435,396 | when everything is quiet each open buffer shows the disk or says that it does not |
| `explorer` | 2 files, a directory with a file, 2 edits and any number of `u` and `<C-r>`, 3 typed names (one nested), two names swapped or three shifted at once, first or second move failing | 352,020 | no content destroyed, undo and redo inverse, the disk follows the buffer |
| `explorer_clobber` | the same, no constraint | | finding, see section 5 |

Type invariants (`TypeOK`, `StoreTypeOK`, `LockTypeOK`, `PoolTypeOK`, `GrammarTypeOK`,
`SwapTypeOK`, `LspTypeOK`, `WatchTypeOK`) are stated in the modules and are theorems; they
are part of no run.

Why the bounds are enough for the cases to happen: five slots hold a branch, a
fork on it and an abandoned sibling, with a slot left to push into while `cap`
runs; three depths and caps of one force the eviction of a keyframe and of a warm node,
and undolevels 2 forces a root promotion. A job queue of one and three handles
let the queue fill and two callers share a job. A third concurrent party of each
kind (a second thread, a second process) is there for the lock. In `install_pool`
channels of three never block a sender, because an installation reports at most
one progress status, its end, and the outcome of `finish_job`; `MCInstallHang.cfg` is the
case where they do. Two starts beside a dead process let two editors compete for
one orphan and for one file, and a third one's pid stay unused; two instants tell
a swap older than the file from one of the same age. Two processes let a server
die and be replaced while messages about the first are under way. A raw queue of
two overflows on a rename and a write, an event queue of one on the second event,
and a rescan on either. The files of `lsp_client` play the same part, and the
action constraint `FirstFile` gives the first buffer a fixed one instead of a symmetry set, which
TLC cannot combine with liveness. Two transactions let the second act on what the first
left in the trash, the registry and the journals, and a nested directory lets
renames of a parent and its child meet.

`MaxSeq`, `MaxProgress`, `MaxNest`, `MaxCalls`, `MaxCrashes`, `MaxDepth`, `MaxClock`,
`MaxSlots`, `MaxStarts`, `MaxText`, `MaxBuffers`, `MaxSpawn`, `MaxEdit`, `MaxReq`, `MaxKeys`,
`MaxTxns` and the sizes of `Node`, `Handle`, `Key`, `Pid` and `File` are bounds of the
model. `WarmCap`, `KeyCap`, `KeyInterval`, `ChanCap`, `JobCap`, `Cap`, `TempRetries`, `RawCap`
and `EventCap` are constants of the code made small.

## 4. Fairness

- `InstallPool`: weak fairness of each step of the event loop and of each worker,
  since the operating system schedules both and the loop wakes at least once per
  poll interval; strong fairness of the steps that take the registry's mutex,
  because a thread that finds it free again and again gets it. Nothing forces
  the user to install anything, nor an installation to report progress.
- `GrammarLoading`: weak fairness of the event loop and of each worker; a load ends.
- `FileLock`: weak fairness, per thread, of going on with what it has begun: looking
  at the map when woken, opening, locking, ending the body, unwinding. No error,
  call or crash is forced. The OS lock is taken under weak fairness only, which
  suffices because calls are bounded; with an endless supply of readers a writer
  could starve, which neither the code nor `flock` excludes.
- `LspClient`: weak fairness of the event loop's drain, by which a stamped request
  gets old (the loop turns at least once per poll interval), of the dispatcher,
  of the end of the handshake (its timeout) and of the wait task's kill. Nothing is
  assumed of a server: it need never answer or exit.

## 5. Findings

One run expects a violation.

- `explorer_clobber`: a line without a known id is a creation, and a creation opens
  its path with `File::create` whatever is there (`explorer_reconcile.rs:631`). `o` with
  the name of an existing file, or `yyp` on a file, empties that file, and `u` trashes
  the emptied one, while the change log promises "Deletions go to a recoverable
  trash; `u`/`<C-r>` reverse the filesystem operations".

Further configurations refute a sentence of the repository but belong to no run;
each is a TLC instance of the module named, checked with
`tlc -config <file> <MC module>`:

- `MCMacroUndo.cfg` (`MCEditorUndo`, `CacheIsPure`): a macro with a `u` after its first
  change moves `current` off the group's boundary; the group stays armed, the next
  change takes no boundary and alters a state that has successors, whose deltas
  then start from another text. `undo.rs` says that dropping caches "changes only
  speed, never content".
- `MCInstallHang.cfg` (`MCInstallPool`, `InstallReturns`): `broadcast` and `finish_job` block
  in `tx.send` while holding the registry's mutex. If a handle's 128-slot channel is
  full when the event loop enters `install`, the two wait for each other for good.
  `job.rs` says the caller is blocked "briefly".
- `MCForgottenBuffer.cfg` (`MCGrammarLoading`, `ForgottenStaysForgotten`): a load that
  completes after its buffer was closed creates the buffer's client again, against
  "Drop all state for a buffer. Call on close."
- `MCSwapPrompt.cfg` (`MCSwapFiles`, `PromptKeepsSwap`): `arm_swap_on_open` skips a buffer with
  a prompt, not to "clobber the swap the user is deciding on"; the idle tick does not,
  and writes the text of the file over the swap while the prompt is open.
- `MCLspRestart.cfg` (`MCLspClient`, `ExitRemovesTheDead`): on `:LspRestart` the exit of the
  old process is echoed to the runtime by key after the new one was started, and
  removes the new one ("so dead server state is removed").
- `MCLspReload.cfg` (`MCLspClient`, `EditsFit`): `lsp_glue.rs:592-600` says that the whole text
  is sent when the buffer "was wholesale-replaced (`:e!` / formatter)". The function looks at
  the log of edits only: after a replacement that sent nothing the next key's edits go to
  a server that still has the old text. `DocumentsInSync` holds of everything else.
  What it excuses, until the whole text is sent, is: the autoreload of a changed file
  (`ex_dispatch.rs:2577`), `:e!` and `:e` (2418) and the revert of a hunk (`git_hunks.rs:244`); a
  format result for a buffer that is not active (`mod.rs:2222-2238`); the answer to a
  formatting request (`lsp_glue.rs:2508-2546`), which edits past the log, as a workspace
  edit does (excused when the log holds something); a confirmed `:s///c`; a save that trims
  or formats and then fails; several steps of history at once (`3g-`, `:earlier 3`), of
  which the log keeps the last; a step of history after `:d` or `:put`, which clears their
  edits; `:LspRestart` and `:set ft` with edits in the log, which are in the text of the
  didOpen and are sent again. The prompt's own `r` reloads the same way but calls
  `sync_after_engine_mutation` next (2135), with an empty log, so that it sends
  the whole text.
- `MCHopBack.cfg` (`MCExplorer`, `NeverClobbers`): the names of three entries are moved
  round in one edit and the move of the first fails, so that it stays in place. The
  other two are parked; the second is finished at the third name, the third
  finds the first name taken and is moved back to its own, over the second.
  `explorer_reconcile.rs` says of this step "never clobber, never leave a temp behind",
  but `move_entry` renames without looking.

Seen while modelling, without an instance:

- Undo. A `:s` that replaces nothing inside a group takes back the boundary of the
  whole group (`substitute.rs`, `pop_last_undo` after a suppressed `push_undo`), so one `u`
  no longer reverts the `:g`. `<C-o>u` in an insert session breaks `CacheIsPure` as
  a macro does. With a limit on undolevels a group that does nothing runs `cap_undo`
  before its boundary is taken back and can cost the oldest state.
- Locks. The comment on `FileLock::drop` ("A waiter woken by the release must not find
  the OS lock still held") does not describe the order of the code, which notifies
  before it unlocks; the woken thread waits in `file.lock()`, and exclusion holds.
- Swap. Two processes can both pass the existence check before either arms. `-n`, and
  leaving at the prompt with Ctrl-C, remove the swap that is being asked about. An
  orphan is removed before the buffer recovered from it has a swap of its own. A
  save under a new name, and the reset of a slot to scratch, keep the old swap path.
  A live process with a reused pid hides an orphan.
- Language servers. `q` at the recovery prompt
  with several slots leaves the buffer attached, so that opening the file again is a
  second didOpen. `shutdown` waits 2 s for the thread, whose own grace for a server is
  3 s. `lsp_server_info_for_slot` matches by language only.
- Watcher. The comment on `FsEvent::Rescan`, "always eventually delivered", fails for
  events dropped between the send of a rescan and the reset of the flag.
- Explorer. `dd` and `P` across a rebuild renames the entry that now has the id. `dd` on
  the header line trashes the first entry. Swapping the names of an open directory
  and a file leaves the directory under its temporary name. Moving an entry into a
  directory made by the same edit cannot be undone: `u` trashes the directory with the
  entry inside. Parents made by `create_dir_all` are not journalled. A new directory
  with the name of a trashed file restores the file. After a failed operation `u` can
  overwrite. "Slots are never reused" (`trash.rs`) fails after a restore.

## 6. Theorems

All proofs are for every value of the constants, from the named assumptions of the
modules (`ArenaAssumption`, `StoreAssumption`, `LockBounds`, `StateBounds`, `PoolAssumption`,
`GrammarAssumption`, `SwapBounds`, `LspBounds`, `WatchBounds`), which only say that the constants have their types,
that capacities are numbers and that the nulls are not ordinary values. The bounds
of an instance (numbers of slots, threads, buffers, edits, processes) are among
those constants, so the theorems hold for all of them. Each inductive invariant was
checked with TLC on the instance of the run before it was proved (that of the swap files
to a depth of 23 steps, because it was checked without the run's constraint).

`UndoProofs`. For the arena the inductive invariant is `TypeOK`, `IsTree`, `SeqOrdered`,
`PathExact`, `RedoRetracesPath` and `RedoReachable` together. None is inductive alone:
`retarget_current` stops at the first flagged node, so that it relinks the right
branch needs `PathExact`; `PathExact` after a prune needs `IsTree`; that a fresh node is
the last of its parent's children, and that no walk along parents goes round,
needs `SeqOrdered`; `RedoRetracesPath` after `u` needs the flags. The facts about walks
(`AncLinear`, `AncOneChild`, `AncAgree`, ...) are lemmas about the least closed set and
replace induction over paths. `PushKeepsBranches` adds one more conjunct, that the
node `push_undo_at` is about to clear is a fresh leaf.

`cap` frees abandoned leaves before anything on the undo line
(`ArenaCapSparesUndoLine`): if a node is off the line then some leaf is, found as
the node of greatest `seq` off the line. `ArenaCapReached` needs that the set of live
nodes is finite, which is a second invariant.

Then `EditorSpec => ArenaSpec`: each command is one operation of the
tree or leaves its links alone, so the theorems about the arena hold for the
editor on every behaviour, those that break the boundary protocol too.

The store is next. `Spells` says that a base, a delta per node and the cached texts spell
out a given text for every node: the base is the root's text, a delta connects the
parent's text with the node's, and a cached text is the node's. `ReplaySpells` is
where replay meets it: `Replayed` is a recursive function on the undo line, and
instead of an induction over its length the proof takes the first place on
the line at which it would yield another text than the node's and finds that the delta
there cannot (`LeastNat`). So the contents are the only texts the store spells
(`TextsAre`), and a new store spells other texts once they are known to fit; each
operation needs that one fact (`SetNodeStateFacts`, `PushStore`, `CapStore`, ...). `Rooted` says
it of a root promotion, `BySeqFacts` of the order in which
replay caches the nodes it passes.
`StoreImplementsTree` then goes action by action: links change alike in both modules
(`TreePush`, `TreeStepUp`, ...), and texts as `UndoTree` says. `StoreInv` adds the client's part of the
protocol: a text that is about to change belongs to a tip. `CacheOK` ties the caches
to their lists (each without repetition, within its cap, of the nodes with the
right depth); `StoreCacheIsPure` and `StoreCacheIsBounded` follow.

Last the group properties, for behaviours up to the first command that
strays (`EditorInv`). `Follows` says what the commands assume of one another: a command under
way has a tip, a `:s` has a parent with the text it started from, and inside a group
(`InGroup`) either the boundary is taken and the parent of `current` holds the text from before
the group, or nothing has changed. `Kept` counts the nodes of an idle group: those it
found, and its own boundary while it is armed. `CapFacts` needs that `cap` never
frees the parent of `current` (`PruneKeepsParent`), whatever the undolevels.

`StateFileProofs`, the lock. `Exclusion` is not inductive: it follows from `ClaimExact` (an entry of
the wait set names exactly the thread that is past the claim), `PhaseExact` (which
phases go with a guard, a claim or an OS lock), `OsExact` (an exclusive OS lock is
the only one), `NestIsCovered` and `SleeperHasWaker`. From the same
invariant `LockKeepsPromise` shows that every step of `FileLock` is a step of
`PathLock` or leaves the grants alone.

`StateFileProofs`, the index. The invariant of the lock is taken over as it stands: every step of
`StateFile` is a step of `FileLock` or leaves it alone. On top of it come `BodyIsLocked`
(whoever is in the body of `update` holds the path exclusively, so nobody else has
read or written since), `DraftIsGood` (what a thread is about to rename into place
remembers every acknowledged update and its own), and `FileOK` of the file and of
everything a power loss may bring back, from which `IndexWhole` follows. `NoLostUpdate`
rests on what `cap_lru` keeps: the lemmas about `Rank` show, with cardinalities instead
of a sort, that the entries kept are the most recent and that a dropped one is older
than a full index.

`SwapFilesProofs`. First what one step can do, each a lemma over all actions: it leaves
the other processes alone (`Frame`), it changes a swap only by the write of its buffer or
a removal (`Touches`), and what it makes of a buffer is one of few things (`SlotStep`).
Then the invariant part by part. `NameInv`: which names a buffer's swap can have, and that
a dead process has no buffers. `LockInv`: whoever decides about a swap has read what is
still there, and nobody else decides about it; `RecoverySparesTheLive` follows. `UniqueInv`:
an unnamed text is in one buffer and at most in the swap of that buffer's own name, or in
one swap; `OrphanRecoveredOnce` is its first part, and a fresh edit keeps it because of
`TextsTyped`. `OwnerInv`: what the idle writer takes for done is on disk, and any other
buffer with that swap is still in its check; `SyncedWorkIsFindable` is a part of it. `AgeInv`: a
swap whose time is after its file's mtime holds a text no older than the file's, from
which `RecoveryNeverGoesBack` follows. That is not inductive alone, because a save gives the
file a new text before the swap goes: `SlotNotOlder` says the same of the buffer that
will write the swap next, `SettledNotOlder` of the swap of a buffer that is past its check
and not in the middle of a save, whatever the times. That no second writer interferes is
what `shared` says (`OneWriter`, `SavedAlone`, `NotRenamed`).

`InstallPoolProofs`. `DedupExact` counts jobs; the invariant says the same without
counting (`OneJobPerTool`: the three places of a job exclude one another and a tool is
registered exactly when it is in one of them). `NoHandleOrphaned` needs `FinishTellsAll`:
while `finish_job` goes through the senders, each is still to be visited or has its
terminal status. That `broadcast`'s `retain` removes the right sender needs
`LockDiscipline`: the senders still to be visited are the end of the list, because
whoever sends holds the mutex.

`GrammarLoadingProofs`. The same shape for the loader. `NoLoadCancelled` needs
`HandlesAreDistinct`, so that taking one entry out with `swap_remove` disturbs no
other; `LateLoadsLose` is a statement about the end of a turn, and what holds in between
is `WrongOnesAreReady`: a buffer with the grammar of another filetype is in the list
that the application re-attaches in the same turn.

`LspClientProofs`. The threads share no state, so the invariant is about the channels.
`NewsOnTheWay`: what the application will believe once it has read its events holds of
the dispatcher's entry, or an exit, which will remove it, is in a channel; with
empty channels that is `ViewsAgree`. `Ordered`, `Owned` and `Quiet` say which commands may
follow which: before another buffer is attached to a file, the one that has it is
detached, and a closed buffer that is still attached has its detach ahead. From that
order `NoSharedFile`, `OpenIsAttached` and `VersionsAgree` follow, and from them
`DocumentProtocol`. `SyncInv` follows a buffer without a gap: the server's text, or the one a
queued attach will open the document with, becomes `logFrom` when the changes queued
behind it are applied in order (`Leads`), each of which is whole or starts where the one
before it ended. What a queue of changes makes of a text would be a recursive function and
need an induction; instead a function on the positions of the queue gives the text after each
command, and every step of the system shows the next such function (`SyncedAppend`,
`SyncLifts`, `SyncTake`). When no command for the buffer is left, it is constant, and that is
`DocumentsInSync`. The queue is described by positions
rather than by recursion, and its two operations, sending at the end and taking
at the head, have one lemma each per part of the invariant (`OrderGrows`,
`OrderShrinks`, `QueueGrows`, `QueueShrinks`).

`FileWatchProofs`. `QuietMeansSeen` speaks of the moment when nothing is under way; the
invariant says what is under way before. A file that its open buffer neither shows nor
marks as changed is on its way to be checked (`OnItsWay`): it is named in the raw
queue, held by the pending map as a path or as the far end of a rename, named in
an event, or on the list of those to check, or the overflow flag stands and its
rescan is yet to be sent; otherwise it is in one of the recorded gaps, or the loop is
between its stat and its read. A flag whose rescan has been sent does not count, since it
is about to be dropped, and that is the gap the second history names. `Current` says
that what was stat'ed a step ago is still there or its change is on its way.
`Sound` is the part that looks innocent: a baseline whose version is not the
buffer's text names a version that no file will ever hold again, otherwise the next stat
would find nothing new. Each queue operation has one lemma about `About`, and
`RecvKeeps` goes through what merging an event into the pending map does to every path.

## 7. What is only model-checked, and what is not modelled

Liveness (`HandleResolves`, `LoadsResolve`, `Acquires`, `RequestsResolve`) is beyond the
prover. The three properties of `Explorer` stay with TLC: the module lists a tree with a
RECURSIVE operator, and `Reconcile` and `ApplyOps` fold over lists of edits, where each
property needs an induction over the list. All other properties of passing runs are theorems.

Left out on purpose: the text inside a buffer and the byte format of deltas,
undofiles and the index; timestamps and `:earlier 10s`; cursors and marks restored by
undo; `DispatchFailed` in the loader, which needs both workers dead and the panic
guard prevents that; a panic in `install_blocking`, which has no guard; the
in-place fallback of `:w`; locks on different paths; a clock that goes backwards;
the undo tree inside a swap and its byte format; several named buffers of one
editor; several server keys, diagnostics and what an answer does to the screen;
pausing, recursive watches, the flush at exit, errors of a stat other than a
missing file, the prompt of a changed file (but for what it sends to a server) and the kernel's own queue overflow;
git statuses, hidden and ignored files, re-rooting, the retargeting of open
buffers, a trash that several editors share, and a fault during undo or redo in
the explorer.
A failed read of the index counts as an empty one, by the code's own
documentation, so `NoLostUpdate` excuses the entries such an update drops.
`PROJECT.json` lists the components with no module, each with its reason.

Most of the repository's lines are outside these models on purpose: text commands,
ex parsing, rendering, themes, protocol front ends and platform clipboards are
sequential conversions, large but without state that several steps or actors
could leave inconsistent.

## 8. Plan

1. Theorems. What the explorer does in one transaction, with `ApplyOps` as a
   specification of one step per operation instead of a fold, so that
   `NothingLost` has an inductive invariant.
2. Models. The installer's stage, swap and backup sequence with a crash at every
   step; the syntax layer's render cache against edits; the layout tree with tabs
   and focus; folds and marks shifted by edits; the retargeting of open buffers by
   the explorer, over `SwapFiles` and `FileWatch`.
