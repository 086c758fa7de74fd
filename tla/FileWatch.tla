----------------------------- MODULE FileWatch -----------------------------
(***************************************************************************)
(* How an open buffer learns that its file changed on disk: the callback,  *)
(* the debounce worker and the two bounded channels of                     *)
(* crates/hjkl-fs-watch/src/lib.rs, and the event loop that drains them    *)
(* and reconciles its slots (apps/hjkl/src/app/fs_watch.rs,                *)
(* ex_dispatch.rs), next to programs that write, remove and rename files.  *)
(*                                                                         *)
(* What a file holds is a version number; a rename takes it along, with    *)
(* its mtime and length, so that versions also stand for what a stat sees. *)
(* The files are in one directory, and each has at most one slot.  Events  *)
(* say only which path they are about: the consumer treats created,        *)
(* modified and removed alike.                                             *)
(***************************************************************************)
EXTENDS Naturals, Sequences, FiniteSets

CONSTANTS File, NoFile,
          AutoReload,   \* the files whose slot has 'autoreload' set
          RawCap,       \* room of the channel from notify (512)
          EventCap,     \* room of the channel to the event loop (512)
          MaxClock,     \* bound: changes of the disk
          Missing       \* no file; also: no text read, no baseline

ASSUME WatchBounds ==
  /\ NoFile \notin File
  /\ {"none", "path", "from"} \cap File = {}
  /\ RawCap \in Nat
  /\ EventCap \in Nat
  /\ MaxClock \in Nat \ {0}
  /\ Missing \notin Nat

VARIABLES disk, clock,        \* the file system
          slot,               \* the open buffers
          at, cur, found, todo,  \* where the event loop is
          watched, watching,  \* the filter's set; whether the directory is watched
          raw, pending, due, events, worker, overflow,
          missed,  \* history: a change whose event went lost for good
          blind    \* history: slots whose baseline is not that of their text

world == <<disk, clock>>
app == <<slot, at, cur, found, todo, watched, watching>>
queue == <<raw, pending, due, events, worker, overflow>>
vars == <<world, app, queue, missed, blind>>

\* A slot: the version its text was loaded or saved as, whether it was edited
\* since, the stat of that version, and its DiskState.
Closed == [text |-> Missing, base |-> Missing, dirty |-> FALSE, state |-> "closed"]
Open == {f \in File : slot[f].state # "closed"}
Rescan == [kind |-> "rescan", path |-> NoFile, to |-> NoFile]
Minded == Open \cup {cur}
Event(k, p, q) == [kind |-> k, path |-> p, to |-> q]
Init ==
  /\ disk = [f \in File |-> 1]
  /\ clock = 1
  /\ slot = [f \in File |-> Closed]
  /\ at = "idle"
  /\ cur = NoFile
  /\ found = Missing
  /\ todo = {}
  /\ watched = {}
  /\ watching = FALSE
  /\ raw = <<>>
  /\ pending = [f \in File |-> "none"]
  /\ due = {}
  /\ events = <<>>
  /\ worker = "recv"
  /\ overflow = FALSE
  /\ missed = {}
  /\ blind = {}

----------------------------------------------------------------------------
\* Other programs, and notify's callback, which never blocks.

Fits(es) == Len(raw) + Len(es) <= RawCap
Sent(es) == raw \o SubSeq(es, 1, RawCap - Len(raw))

\* The callback: try_send, and the overflow flag when the channel is full.  The
\* change of the files S is not reported where there is no watch yet; and a
\* flag raised between the worker's Rescan and its overflow.store(false) is
\* lost.
Callback(S, es) ==
  /\ raw' = IF Fits(es) THEN raw \o es ELSE Sent(es)
  /\ overflow' = (overflow \/ ~Fits(es))
  /\ missed' = IF watching /\ (Fits(es) \/ worker # "clear") THEN missed ELSE missed \cup (S \cap Minded)

Elsewhere == UNCHANGED <<app, pending, due, events, worker, blind>>

\* A program writes f or removes it; notify has an event or an error for it.
ChangeEvents(f) ==
  IF watching THEN {<<Event("path", f, NoFile)>>, <<Event("error", NoFile, NoFile)>>}
  ELSE {<<>>}

Change(f) ==
  /\ clock < MaxClock
  /\ clock' = clock + 1
  /\ \E v \in {clock + 1, Missing} \ {disk[f]} : disk' = [disk EXCEPT ![f] = v]
  /\ \E es \in ChangeEvents(f) : Callback({f}, es)
  /\ Elsewhere

\* A program renames f to g; notify has both ends in one event or in two.
RenameEvents(f, g) ==
  IF watching THEN {<<Event("both", f, g)>>,
                    <<Event("from", f, NoFile), Event("to", g, NoFile)>>}
  ELSE {<<>>}

Rename(f, g) ==
  /\ f # g
  /\ clock < MaxClock
  /\ disk[f] # Missing
  /\ clock' = clock + 1
  /\ disk' = [disk EXCEPT ![f] = Missing, ![g] = disk[f]]
  /\ \E es \in RenameEvents(f, g) : Callback({f, g}, es)
  /\ Elsewhere

----------------------------------------------------------------------------
\* The worker.

\* The filter: an open file, unless fs_watch_sync holds the lock of its set.
Passes(f) == f \in watched /\ at # "locked"

\* The other end of a rename still pending on p: lost when p is overwritten.
OtherEnd(p) == IF pending[p] \in File THEN {pending[p]} ELSE {}

Upsert(p, k) ==
  /\ pending' = [pending EXCEPT ![p] = k]
  /\ missed' = missed \cup (OtherEnd(p) \cap Minded)

Ignore(S) == UNCHANGED pending /\ missed' = missed \cup (S \cap Minded)

HandlePath(p, k) == IF Passes(p) THEN Upsert(p, k) ELSE Ignore({p})

HandleBoth(p, q) ==
  IF Passes(p) \/ Passes(q)
  THEN /\ pending' = [pending EXCEPT ![q] = "none", ![p] = q]
       /\ missed' = missed \cup (((OtherEnd(p) \cup OtherEnd(q)) \ {p, q}) \cap Minded)
  ELSE Ignore({p, q})

\* The merge takes the latest of the rename's first ends.
HandleTo(q) ==
  LET froms == {p \in File : pending[p] = "from"}
  IN  IF froms = {} THEN HandlePath(q, "path")
      ELSE \E p \in froms :
             IF Passes(q) THEN pending' = [pending EXCEPT ![p] = q] /\ UNCHANGED missed
             ELSE /\ pending' = [pending EXCEPT ![p] = "path"]
                  /\ missed' = missed \cup ({q} \cap Minded)

\* recv(raw_rx): handle_event, or the flag for a backend error.
Recv ==
  /\ worker = "recv"
  /\ raw # <<>>
  /\ raw' = Tail(raw)
  /\ LET e == Head(raw)
     IN  \/ /\ e.kind = "error"
            /\ overflow' = TRUE
            /\ UNCHANGED <<pending, missed>>
         \/ e.kind = "path" /\ HandlePath(e.path, "path") /\ UNCHANGED overflow
         \/ e.kind = "from" /\ HandlePath(e.path, "from") /\ UNCHANGED overflow
         \/ e.kind = "to" /\ HandleTo(e.path) /\ UNCHANGED overflow
         \/ e.kind = "both" /\ HandleBoth(e.path, e.to) /\ UNCHANGED overflow
  /\ UNCHANGED <<world, app, due, events, worker, blind>>

Waiting == {p \in File : pending[p] # "none"}

\* recv(ticker): flush_pending, for the paths S whose window has elapsed ...
Tick(S) ==
  /\ worker = "recv"
  /\ S # {} \/ overflow
  /\ due' = S
  /\ worker' = "flush"
  /\ UNCHANGED <<world, app, raw, pending, events, overflow, missed, blind>>

Offer(e) ==
  IF Len(events) < EventCap THEN events' = Append(events, e) /\ UNCHANGED overflow
  ELSE overflow' = TRUE /\ UNCHANGED events

\* ... which are sent one by one, or flagged ...
Flush(p) ==
  /\ worker = "flush"
  /\ due' = due \ {p}
  /\ pending' = [pending EXCEPT ![p] = "none"]
  /\ Offer(Event("path", p, IF pending[p] \in File THEN pending[p] ELSE NoFile))
  /\ UNCHANGED <<world, app, raw, worker, missed, blind>>

\* Mutant: the flag is dropped whether or not the Rescan could be sent.
RescanOnce ==
  /\ worker = "flush"
  /\ due = {}
  /\ events' = IF overflow /\ Len(events) < EventCap THEN Append(events, Rescan) ELSE events
  /\ worker' = IF overflow THEN "clear" ELSE "recv"
  /\ UNCHANGED <<world, app, raw, pending, due, overflow, missed, blind>>

\* ... and then the flag, if it is up, is turned into a Rescan.
SendRescan ==
  /\ worker = "flush"
  /\ due = {}
  /\ IF overflow /\ Len(events) < EventCap
     THEN events' = Append(events, Rescan) /\ worker' = "clear"
     ELSE worker' = "recv" /\ UNCHANGED events
  /\ UNCHANGED <<world, app, raw, pending, due, overflow, missed, blind>>

\* overflow.store(false)
ClearOverflow ==
  /\ worker = "clear"
  /\ overflow' = FALSE
  /\ worker' = "recv"
  /\ UNCHANGED <<world, app, raw, pending, due, events, missed, blind>>

----------------------------------------------------------------------------
\* The event loop.

Queues == UNCHANGED <<world, queue>>
Forget == cur' = NoFile /\ found' = Missing
WatchKept == UNCHANGED <<watched, watching>>

\* build_slot reads the file; reload_current (:e, or r at the prompt) does too.
OpenRead(f) ==
  /\ at = "idle"
  /\ f \notin Open
  /\ at' = "stat"
  /\ cur' = f
  /\ found' = disk[f]
  /\ Queues /\ WatchKept
  /\ UNCHANGED <<slot, todo, missed, blind>>

ReloadRead(f) ==
  /\ at = "idle"
  /\ f \in Open
  /\ disk[f] # Missing
  /\ at' = "stat"
  /\ cur' = f
  /\ found' = disk[f]
  /\ Queues /\ WatchKept
  /\ UNCHANGED <<slot, todo, missed, blind>>

\* save_slot writes the file, which notify reports as well ...
Save(f) ==
  /\ at = "idle"
  /\ f \in Open
  /\ clock < MaxClock
  /\ clock' = clock + 1
  /\ disk' = [disk EXCEPT ![f] = clock + 1]
  /\ \E es \in ChangeEvents(f) : Callback({f}, es)
  /\ at' = "stat"
  /\ cur' = f
  /\ found' = clock + 1
  /\ WatchKept
  /\ UNCHANGED <<slot, todo, pending, due, events, worker, blind>>

\* ... and all three take the baseline from a stat after that.
Baseline ==
  IF found = Missing THEN Missing
  ELSE IF disk[cur] = Missing THEN slot[cur].base
  ELSE disk[cur]

Loaded(text, base) == [text |-> text, base |-> base, dirty |-> FALSE, state |-> "synced"]

Stat ==
  /\ at = "stat"
  /\ slot' = [slot EXCEPT ![cur] = Loaded(found, Baseline)]
  /\ blind' = IF Baseline = found THEN blind \ {cur} ELSE blind \cup {cur}
  /\ at' = IF cur \in Open THEN "idle" ELSE "sync"
  /\ Forget /\ Queues /\ WatchKept
  /\ UNCHANGED <<todo, missed>>

Type(f) ==
  /\ at = "idle"
  /\ f \in Open
  /\ slot' = [slot EXCEPT ![f].dirty = TRUE]
  /\ Queues
  /\ UNCHANGED <<at, cur, found, todo, watched, watching, missed, blind>>

\* Back to the text that was loaded or saved.
UndoAll(f) ==
  /\ at = "idle"
  /\ f \in Open
  /\ slot' = [slot EXCEPT ![f].dirty = FALSE]
  /\ Queues
  /\ UNCHANGED <<at, cur, found, todo, watched, watching, missed, blind>>

\* buffer_delete, buffer_wipe
Close(f) ==
  /\ at = "idle"
  /\ f \in Open
  /\ slot' = [slot EXCEPT ![f] = Closed]
  /\ blind' = blind \ {f}
  /\ missed' = missed \ {f}
  /\ at' = "sync"
  /\ Queues /\ WatchKept
  /\ UNCHANGED <<cur, found, todo>>

\* fs_watch_sync: the filter's set, under its lock ...
SyncFilter ==
  /\ at = "sync"
  /\ watched' = Open
  /\ at' = "locked"
  /\ Queues
  /\ UNCHANGED <<slot, cur, found, todo, watching, missed, blind>>

\* ... and the directory.
SyncWatch ==
  /\ at = "locked"
  /\ watching' = (Open # {})
  /\ at' = "idle"
  /\ Queues
  /\ UNCHANGED <<slot, cur, found, todo, watched, missed, blind>>

\* apply_fs_events: the slots to check.
Candidates(es) ==
  IF \E i \in DOMAIN es : es[i] = Rescan THEN Open
  ELSE Open \cap ({es[i].path : i \in DOMAIN es} \cup {es[i].to : i \in DOMAIN es})

\* drain_fs_watch_events takes all that is there.
Drain ==
  /\ at = "idle"
  /\ events # <<>>
  /\ events' = <<>>
  /\ todo' = Candidates(events)
  /\ at' = "check"
  /\ WatchKept
  /\ UNCHANGED <<world, slot, cur, found, raw, pending, due, worker, overflow, missed, blind>>

\* checktime_all: focus regained, or :checktime.
ChecktimeAll ==
  /\ at = "idle"
  /\ todo' = Open
  /\ at' = "check"
  /\ Queues /\ WatchKept
  /\ UNCHANGED <<slot, cur, found, missed, blind>>

\* checktime_slot: the stat decides ...
Judged(f) ==
  IF disk[f] = Missing THEN [slot[f] EXCEPT !.state = "deleted"]
  ELSE IF disk[f] = slot[f].base
       THEN [slot[f] EXCEPT !.state = IF @ = "deleted" THEN "synced" ELSE @]
  ELSE [slot[f] EXCEPT !.state = "changed"]

Reloads(f) ==
  /\ disk[f] \notin {Missing, slot[f].base}
  /\ ~slot[f].dirty
  /\ f \in AutoReload

StatSlot(f) ==
  /\ at = "check"
  /\ f \in todo
  /\ todo' = todo \ {f}
  /\ missed' = missed \ {f}
  /\ IF Reloads(f)
     THEN /\ at' = "read"
          /\ cur' = f
          /\ found' = disk[f]
          /\ UNCHANGED slot
     ELSE slot' = [slot EXCEPT ![f] = Judged(f)] /\ UNCHANGED <<at, cur, found>>
  /\ Queues /\ WatchKept
  /\ UNCHANGED blind

\* ... and a clean buffer is read again; its baseline is that stat.
Reloaded == Loaded(disk[cur], found)

\* The version that was stat'ed can come back by a rename.
Returns == disk[cur] # found /\ \E f \in File : disk[f] = found

ReadSlot ==
  /\ at = "read"
  /\ at' = "check"
  /\ IF disk[cur] = Missing THEN UNCHANGED <<slot, blind>>
     ELSE /\ slot' = [slot EXCEPT ![cur] = Reloaded]
          /\ blind' = IF Returns THEN blind \cup {cur} ELSE blind \ {cur}
  /\ Forget /\ Queues /\ WatchKept
  /\ UNCHANGED <<todo, missed>>

Checked ==
  /\ at = "check"
  /\ todo = {}
  /\ at' = "idle"
  /\ Queues /\ WatchKept
  /\ UNCHANGED <<slot, cur, found, todo, missed, blind>>

Next ==
  \/ \E f \in File : Change(f)
  \/ \E f, g \in File : Rename(f, g)
  \/ Recv
  \/ \E S \in SUBSET Waiting : Tick(S)
  \/ \E p \in due : Flush(p)
  \/ SendRescan
  \/ ClearOverflow
  \/ \E f \in File : OpenRead(f)
  \/ \E f \in File : ReloadRead(f)
  \/ \E f \in File : Save(f)
  \/ Stat
  \/ \E f \in File : Type(f)
  \/ \E f \in File : UndoAll(f)
  \/ \E f \in File : Close(f)
  \/ SyncFilter
  \/ SyncWatch
  \/ Drain
  \/ ChecktimeAll
  \/ \E f \in File : StatSlot(f)
  \/ ReadSlot
  \/ Checked

Spec == Init /\ [][Next]_vars

----------------------------------------------------------------------------
Version == 1 .. MaxClock
Found == Version \cup {Missing}

WatchTypeOK ==
  /\ disk \in [File -> Found]
  /\ clock \in Version
  /\ slot \in [File -> [text : Found, base : Found, dirty : BOOLEAN,
                        state : {"closed", "synced", "changed", "deleted"}]]
  /\ at \in {"idle", "stat", "sync", "locked", "check", "read"}
  /\ cur \in File \cup {NoFile}
  /\ found \in Found
  /\ todo \subseteq Open
  /\ watched \subseteq File
  /\ watching \in BOOLEAN
  /\ Len(raw) <= RawCap
  /\ pending \in [File -> {"none", "path", "from"} \cup File]
  /\ due \subseteq Waiting
  /\ Len(events) <= EventCap
  /\ worker \in {"recv", "flush", "clear"}
  /\ overflow \in BOOLEAN

\* The user is told what the disk holds, or sees it.
Known(f) ==
  IF disk[f] = Missing THEN slot[f].state = "deleted" \/ slot[f].text = Missing
  ELSE IF disk[f] # slot[f].base THEN slot[f].state = "changed"
  ELSE slot[f].state # "deleted" /\ (slot[f].dirty \/ slot[f].text = disk[f])

Quiet ==
  /\ raw = <<>>
  /\ Waiting = {}
  /\ events = <<>>
  /\ ~overflow
  /\ worker = "recv"
  /\ at = "idle"

(***************************************************************************)
(* Once the watcher and the event loop have nothing left to do, every open *)
(* buffer shows what is on disk, or says that it does not, however events  *)
(* were merged and channels overflowed on the way.  The exceptions are the *)
(* changes the code has no way to notice: see missed and blind.            *)
(***************************************************************************)
QuietMeansSeen == Quiet => \A f \in Open : Known(f) \/ f \in missed \cup blind
=============================================================================
