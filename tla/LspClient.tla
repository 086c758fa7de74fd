------------------------------ MODULE LspClient ------------------------------
(***************************************************************************)
(* The language-server client: the application thread (lsp_glue.rs), the   *)
(* "hjkl-lsp" thread that dispatches its commands (runtime.rs) and the     *)
(* tasks that watch over each server process (server.rs).                  *)
(*                                                                         *)
(* Two unbounded channels join the threads: `cmds` carries commands to     *)
(* the dispatcher, `evts` carries events back.  The dispatcher handles one *)
(* command at a time and awaits, inside a command, the handshake of a      *)
(* server it starts and the end of a server it stops.  All buffers here    *)
(* belong to one ServerKey (one language, one workspace root); a key says  *)
(* nothing about which of its successive processes is meant.               *)
(*                                                                         *)
(* A text is a number, counted up by every change.  The buffer logs its     *)
(* changes as edits until somebody drains the log; an incremental change    *)
(* carries the edits that lead from one text to another, and applied to any *)
(* text but that one they give a wrong text, `Garbled`.  What has been      *)
(* written to a server's stdin is taken as received: the pipe keeps order, *)
(* and a process that dies before it reads loses only its own copy.        *)
(***************************************************************************)
EXTENDS Naturals, Sequences, FiniteSets

CONSTANTS
  MaxBuffers, \* bound: buffer ids handed out
  File,       \* paths (URIs) of the workspace
  MaxSpawn,   \* bound: processes that can be started
  MaxEdit,    \* bound: edits of one buffer
  MaxReq,     \* bound: requests
  MaxKeys     \* bound: commands of the user

ASSUME LspBounds ==
  /\ {MaxBuffers, MaxSpawn, MaxEdit, MaxReq, MaxKeys} \subseteq Nat
  /\ File \cap {"unused", "closed", "none"} = {}

VARIABLES
  app,      \* the application: "up", "quitting" (joins the thread) or "gone"
  slot,     \* slot[b]: the file of an open buffer, or "unused", "closed"
  text,     \* text[b]: the number of the text, i.e. dirty_gen
  logFrom,  \* pending content edits: they lead from text logFrom[b] to text[b]
  lastGen,  \* last_lsp_dirty_gen: text[b] at the last notification; NoGen: None
  lspState, \* lsp_state holds the key: the server is initialized
  pending,  \* lsp_pending: request ids that wait for an answer
  seen,     \* lsp_pending_seen_at: ids that have a timestamp
  nextReq,  \* lsp_next_request_id
  cmds,     \* commands on their way to the dispatcher
  evts,     \* events on their way to the application
  rt,       \* what the dispatcher awaits
  servers,  \* servers: the process entered under the key, 0 if none
  attached, \* buffers: attached[b] is the document version, 0: not attached
  uri,      \* uri[b]: the file recorded with the attachment
  proc,     \* proc[i]: state of the i-th process
  open,     \* open[i]: app ids in the PendingMap of the i-th process
  doc,      \* doc[i][f]: the server's copy of f
  keys,     \* commands the user has given
  gap,      \* history: gap[b], a change the server was not told of and will
            \* not be told of until the whole text is sent
  left      \* history: buffers given up at the recovery prompt

appVars == <<app, slot, text, logFrom, lastGen, lspState, pending, seen, nextReq>>
srvVars == <<proc, open, doc>>
rtVars  == <<rt, servers, attached, uri>>
vars    == <<appVars, cmds, evts, rtVars, srvVars, keys, gap, left>>

Buffer  == 1..MaxBuffers
Proc    == 1..MaxSpawn
Req     == 1..MaxReq
Internal == 0                         \* app id of the `shutdown` request (-1)
NoGen   == MaxEdit + 1
Garbled == MaxEdit + 1                \* no text of the application
Closed  == [ver |-> 0, text |-> 0]
Idle    == [op |-> "idle"]
Alive(i) == proc[i] \in {"starting", "up", "exiting", "doomed"}

LspTypeOK ==
  /\ app \in {"up", "quitting", "gone"}
  /\ keys \in 0..MaxKeys
  /\ slot \in [Buffer -> File \cup {"unused", "closed"}]
  /\ text \in [Buffer -> 0..MaxEdit]
  /\ logFrom \in [Buffer -> 0..Garbled]
  /\ lastGen \in [Buffer -> 0..NoGen]
  /\ lspState \in BOOLEAN
  /\ nextReq \in 1..(MaxReq + 1)
  /\ pending \subseteq 1..(nextReq - 1)
  /\ seen \subseteq 1..(nextReq - 1)
  /\ rt.op \in {"idle", "handshake", "stopping", "quitting", "stopped"}
  /\ servers \in 0..MaxSpawn
  /\ \A b \in Buffer : attached[b] > 0 => uri[b] \in File
  /\ proc \in [Proc -> {"none", "starting", "up", "exiting", "doomed", "dead"}]
  /\ open \in [Proc -> SUBSET (Req \cup {Internal})]

Init ==
  /\ app = "up" /\ lspState = FALSE
  /\ slot = [b \in Buffer |-> "unused"]
  /\ text = [b \in Buffer |-> 0]
  /\ logFrom = [b \in Buffer |-> 0]
  /\ lastGen = [b \in Buffer |-> NoGen]
  /\ pending = {} /\ seen = {} /\ nextReq = 1
  /\ cmds = <<>> /\ evts = <<>>
  /\ rt = Idle /\ servers = 0
  /\ attached = [b \in Buffer |-> 0]
  /\ uri = [b \in Buffer |-> "none"]
  /\ proc = [i \in Proc |-> "none"]
  /\ open = [i \in Proc |-> {}]
  /\ doc = [i \in Proc |-> [f \in File |-> Closed]]
  /\ gap = [b \in Buffer |-> FALSE]
  /\ left = {} /\ keys = 0

-----------------------------------------------------------------------------
(* Commands and events *)

AttachCmd(b, f, n) == [t |-> "attach", b |-> b, f |-> f, text |-> n]
DetachCmd(b)       == [t |-> "detach", b |-> b]
FullCmd(b, n)      == [t |-> "full", b |-> b, text |-> n]
IncrCmd(b, m, n)   == [t |-> "incr", b |-> b, from |-> m, text |-> n]
SaveCmd(b)         == [t |-> "save", b |-> b]
RequestCmd(b, r)   == [t |-> "request", b |-> b, r |-> r]
ExitedCmd          == [t |-> "exited"]
ShutdownCmd        == [t |-> "shutdown"]

InitializedEvt     == [t |-> "initialized"]
ExitedEvt          == [t |-> "exited"]
ResponseEvt(r)     == [t |-> "response", r |-> r]

Send(cs) == cmds' = cmds \o cs
Emit(e)  == evts' = Append(evts, e)

-----------------------------------------------------------------------------
(* The application thread *)

IsOpen(b)   == slot[b] \in File
\* The event loop handles a command of the user.
Handling    == /\ app = "up" /\ keys < MaxKeys
               /\ keys' = keys + 1

\* do_edit opens a slot, with the next buffer id, unless one shows the file.
NewSlot(b, f) ==
  /\ slot[b] = "unused" /\ \A c \in 1..(b-1) : slot[c] # "unused"
  /\ \A c \in Buffer : slot[c] # f

\* open_new_slot.
Open(b, f) ==
  /\ Handling /\ NewSlot(b, f)
  /\ slot' = [slot EXCEPT ![b] = f]
  /\ Send(<<AttachCmd(b, f, text[b])>>)
  /\ UNCHANGED <<app, text, logFrom, lastGen, lspState, pending, seen, nextReq, evts,
                 rtVars, srvVars, gap, left>>

\* buffer_delete, buffer_wipe: close the document, drop the slot.
Close(b) ==
  /\ Handling /\ IsOpen(b)
  /\ slot' = [slot EXCEPT ![b] = "closed"]
  /\ Send(<<DetachCmd(b)>>)
  /\ UNCHANGED <<app, text, logFrom, lastGen, lspState, pending, seen, nextReq, evts,
                 rtVars, srvVars, gap, left>>

\* do_edit of a file that has a swap, answered with `q` (handle_recovery_key):
\* the slot that was added goes away again and the runtime is told nothing.
OpenAborted(b, f) ==
  /\ Handling /\ NewSlot(b, f)
  /\ slot' = [slot EXCEPT ![b] = "closed"]
  /\ Send(<<AttachCmd(b, f, text[b])>>)
  /\ left' = left \cup {b}
  /\ UNCHANGED <<app, text, logFrom, lastGen, lspState, pending, seen, nextReq, evts,
                 rtVars, srvVars, gap>>

\* restart_lsp, and retarget_slot_file to a name with the same key.  The whole
\* text goes out and the log stays, so that its edits are in that text already.
Restart(b) ==
  /\ Handling /\ IsOpen(b)
  /\ Send(<<DetachCmd(b), AttachCmd(b, slot[b], text[b])>>)
  /\ gap' = [gap EXCEPT ![b] = logFrom[b] # text[b]]
  /\ UNCHANGED <<appVars, evts, rtVars, srvVars, left>>

\* apply_live_filetype_set: attaches again; a no-op for an attached buffer.
SetFiletype(b) ==
  /\ Handling /\ IsOpen(b)
  /\ Send(<<AttachCmd(b, slot[b], text[b])>>)
  /\ gap' = [gap EXCEPT ![b] = @ \/ logFrom[b] # text[b]]
  /\ UNCHANGED <<appVars, evts, rtVars, srvVars, left>>

\* Mutant: a change without usable edits is not sent.
NotifyEditsOnly(b, n, from) ==
  IF lastGen[b] # n /\ from # n /\ lspState THEN <<IncrCmd(b, from, n)>> ELSE <<>>

\* lsp_notify_change_for_slot for text n, with the edits that lead from `from`
\* to n (none if from = n): nothing when dirty_gen has not advanced, the edits
\* when there are any and the server takes them, else the whole text.  Whether
\* the buffer was replaced since the last notification is not asked.
NotifyChange(b, n, from) ==
  CASE lastGen[b] = n                         -> <<>>
    [] lastGen[b] # n /\ from # n /\ lspState -> <<IncrCmd(b, from, n)>>
    [] OTHER                                  -> <<FullCmd(b, n)>>

\* The text becomes n; the log is drained into a notification.
Notified(b, n, from) ==
  /\ text' = [text EXCEPT ![b] = n]
  /\ logFrom' = [logFrom EXCEPT ![b] = n]
  /\ lastGen' = [lastGen EXCEPT ![b] = n]
  /\ Send(NotifyChange(b, n, from))
  /\ gap' = [gap EXCEPT ![b] = /\ from # n /\ lspState
                               /\ @ \/ from # logFrom[b]]
  /\ UNCHANGED <<app, slot, lspState, pending, seen, nextReq, evts, rtVars,
                 srvVars, left>>

\* The text becomes n and the log is left with the edits from `from` on.
NotNotified(b, n, from) ==
  /\ text' = [text EXCEPT ![b] = n]
  /\ logFrom' = [logFrom EXCEPT ![b] = from]
  /\ gap' = [gap EXCEPT ![b] = @ \/ from # logFrom[b]]
  /\ UNCHANGED <<app, slot, lastGen, lspState, pending, seen, nextReq, cmds,
                 evts, rtVars, srvVars, left>>

\* A change of an open buffer, by k texts.
Changing(b, k) == Handling /\ IsOpen(b) /\ text[b] + k <= MaxEdit

\* A key, `:s`, an accepted completion, the `r` of the disk-change prompt:
\* sync_after_engine_mutation drains the log into a notification.  `usable`
\* says that the batch is edits_ascending_disjoint; one that is not, and a
\* change that empties the log, leave no usable edits.
Edit(b, usable) ==
  /\ Changing(b, 1)
  /\ LET n == text[b] + 1 IN Notified(b, n, IF usable THEN logFrom[b] ELSE n)

\* u, <C-r>, g-, g+: k times restore_text, which empties the log and logs its
\* own edit, so that the notification has the last of them only.
TimeTravel(b, k) ==
  /\ Changing(b, k)
  /\ LET n == text[b] + k IN Notified(b, n, n - 1)

\* A key that changes nothing runs the same synchronisation.
Key(b, usable) ==
  /\ Handling /\ IsOpen(b) /\ lastGen[b] # text[b]
  /\ Notified(b, text[b], IF usable THEN logFrom[b] ELSE text[b])

\* What the log holds after a change that it is not told of: nothing if it was
\* empty, else edits that do not lead to the text.
Unlogged(b) == IF logFrom[b] = text[b] THEN text[b] + 1 ELSE Garbled

\* apply_workspace_edit changes the text past the log, then drains it.
WorkspaceEdit(b) ==
  /\ Changing(b, 1)
  /\ Notified(b, text[b] + 1, Unlogged(b))

\* handle_format_response does so without draining or notifying.
Formatted(b) ==
  /\ Changing(b, 1)
  /\ NotNotified(b, text[b] + 1, Unlogged(b))

\* `:d`, `:m`, `:sort`, `:normal`, `:put`: logged, and left in the log for the
\* next key.
ExEdit(b) ==
  /\ Changing(b, 1)
  /\ NotNotified(b, text[b] + 1, logFrom[b])

\* `:undo`, `:redo`, `:earlier`, `:later`: as TimeTravel, without a notification.
ExTimeTravel(b, k) ==
  /\ Changing(b, k)
  /\ LET n == text[b] + k IN NotNotified(b, n, n - 1)

\* set_content empties the log and nobody is told: the autoreload of
\* checktime_slot, reload_current for `:e!` and git_revert_hunk, the result of
\* a formatter for a buffer that is not the active one.
Replace(b) ==
  /\ Changing(b, 1)
  /\ NotNotified(b, text[b] + 1, text[b] + 1)

\* apply_confirmed_substitute: the log is drained for the syntax tree only.
ConfirmSubstitute(b) ==
  /\ Changing(b, 1)
  /\ NotNotified(b, text[b] + 1, text[b] + 1)

\* save_slot: trimming and format-on-save may change the text (k = 1), then the
\* log is drained for the syntax tree.
\* lsp_notify_save_slot, after the write: the whole text, then didSave.
Save(b, k) ==
  /\ Changing(b, k)
  /\ LET n == text[b] + k IN
     /\ text' = [text EXCEPT ![b] = n]
     /\ logFrom' = [logFrom EXCEPT ![b] = n]
     /\ lastGen' = [lastGen EXCEPT ![b] = n]
     /\ Send(<<FullCmd(b, n), SaveCmd(b)>>)
  /\ gap' = [gap EXCEPT ![b] = FALSE]
  /\ UNCHANGED <<app, slot, lspState, pending, seen, nextReq, evts, rtVars,
                 srvVars, left>>

\* The write fails: nobody is told.
SaveFails(b, k) ==
  /\ Changing(b, k) /\ (k = 1 \/ logFrom[b] # text[b])
  /\ LET n == text[b] + k IN NotNotified(b, n, n)

\* lsp_send_goto and its kin: only to an initialized server.
Request(b) ==
  /\ Handling /\ IsOpen(b) /\ lspState /\ nextReq <= MaxReq
  /\ nextReq' = nextReq + 1
  /\ pending' = pending \cup {nextReq}
  /\ Send(<<RequestCmd(b, nextReq)>>)
  /\ UNCHANGED <<app, slot, text, logFrom, lastGen, lspState, seen, evts, rtVars,
                 srvVars, gap, left>>

Exits(es) == {k \in DOMAIN es : es[k].t = "exited"}

\* lsp_state after a batch of events: the last word on the key counts.
StateAfter(es) ==
  \/ lspState /\ Exits(es) = {}
  \/ \E k \in DOMAIN es : es[k].t = "initialized" /\ \A j \in Exits(es) : j < k

\* The requests a batch answers; one that is no longer pending is ignored.
Answered(es) == {es[k].r : k \in {j \in DOMAIN es : es[j].t = "response"}}

\* Mutant: requests are stamped again on every pass and so never get old.
SweepRestamps(p, late) == /\ pending' = p
                          /\ seen' = p

\* sweep_stale_lsp_pending_at, with `late` the requests past their timeout:
\* stamp what is pending, drop what is late, forget stamps of the resolved.
Sweep(p, late) == /\ pending' = p \ late
                  /\ seen' = p \ late

\* drain_lsp_events: every event in the channel, then the sweep.
Drain(late) ==
  /\ app = "up" /\ (evts # <<>> \/ pending # seen \/ late # {})
  /\ late \subseteq seen
  /\ evts' = <<>>
  /\ lspState' = StateAfter(evts)
  /\ Send([k \in 1..Cardinality(Exits(evts)) |-> ExitedCmd])
  /\ Sweep(pending \ Answered(evts), late)
  /\ UNCHANGED <<app, slot, text, logFrom, lastGen, nextReq, rtVars, srvVars, keys, gap, left>>

\* App::shutdown takes the manager and sends ShutdownAll.
Quit ==
  /\ app = "up"
  /\ app' = "quitting"
  /\ Send(<<ShutdownCmd>>)
  /\ UNCHANGED <<slot, text, logFrom, lastGen, lspState, pending, seen, nextReq, evts,
                 rtVars, srvVars, keys, gap, left>>

\* LspManager::shutdown joins the thread, or stops waiting after two seconds;
\* a server has three to obey `exit`.
Leave ==
  /\ app = "quitting"
  /\ app' = "gone"
  /\ UNCHANGED <<slot, text, logFrom, lastGen, lspState, pending, seen, nextReq, cmds,
                 evts, rtVars, srvVars, keys, gap, left>>

-----------------------------------------------------------------------------
(* The dispatcher (runtime.rs) and the tasks around a process (server.rs) *)

Running == app # "gone"

\* The dispatcher takes the next command, of kind t.
Takes(t) ==
  /\ Running /\ rt = Idle /\ cmds # <<>> /\ Head(cmds).t = t
  /\ cmds' = Tail(cmds)

\* A message reaches the process only if it still reads its stdin.
Write(f, d) ==
  doc' = IF servers # 0 /\ proc[servers] = "up"
           THEN [doc EXCEPT ![servers][f] = d] ELSE doc

\* handle_attach of an attached buffer, and of one whose server will not start.
AttachIgnored ==
  /\ Takes("attach")
  /\ attached[Head(cmds).b] > 0 \/ servers = 0
  /\ UNCHANGED <<appVars, evts, rtVars, srvVars, keys, gap, left>>

\* didOpen with version 1, and the attachment.
DidOpen(c) ==
  /\ Write(c.f, [ver |-> 1, text |-> c.text])
  /\ attached' = [attached EXCEPT ![c.b] = 1]
  /\ uri' = [uri EXCEPT ![c.b] = c.f]

AttachRunning ==
  /\ Takes("attach") /\ attached[Head(cmds).b] = 0 /\ servers # 0
  /\ DidOpen(Head(cmds))
  /\ UNCHANGED <<appVars, evts, rt, servers, proc, open, keys,
                 gap, left>>

\* handle_attach starts a process and awaits its handshake.
AttachSpawn ==
  /\ Takes("attach") /\ attached[Head(cmds).b] = 0 /\ servers = 0
  /\ \E i \in Proc :
       /\ proc[i] = "none" /\ \A j \in 1..(i-1) : proc[j] # "none"
       /\ proc' = [proc EXCEPT ![i] = "starting"]
       /\ rt' = [op |-> "handshake", i |-> i, cmd |-> Head(cmds)]
  /\ UNCHANGED <<appVars, evts, servers, attached, uri, open, doc,
                 keys, gap, left>>

\* initialize_handshake succeeds; the wait task starts; handle_attach goes on.
HandshakeOk ==
  /\ Running /\ rt.op = "handshake"
  /\ proc' = [proc EXCEPT ![rt.i] = "up"]
  /\ servers' = rt.i
  /\ doc' = [doc EXCEPT ![rt.i][rt.cmd.f] = [ver |-> 1, text |-> rt.cmd.text]]
  /\ attached' = [attached EXCEPT ![rt.cmd.b] = 1]
  /\ uri' = [uri EXCEPT ![rt.cmd.b] = rt.cmd.f]
  /\ Emit(InitializedEvt)
  /\ rt' = Idle
  /\ UNCHANGED <<appVars, cmds, open, keys, gap, left>>

\* Mutant: the child is left to itself.
HandshakeAbandons ==
  /\ Running /\ rt.op = "handshake"
  /\ rt' = Idle
  /\ UNCHANGED <<appVars, cmds, evts, servers, attached, uri, srvVars, keys, gap, left>>

\* It fails or times out: the child is killed and reaped, without an event.
HandshakeFails ==
  /\ Running /\ rt.op = "handshake"
  /\ proc' = [proc EXCEPT ![rt.i] = "dead"]
  /\ rt' = Idle
  /\ UNCHANGED <<appVars, cmds, evts, servers, attached, uri, open, doc,
                 keys, gap, left>>

\* Server::shutdown: a `shutdown` request that nobody waits for, then `exit`.
Shutdown(i) ==
  /\ open' = [open EXCEPT ![i] = @ \cup {Internal}]
  /\ proc' = [proc EXCEPT ![i] = IF @ = "up" THEN "exiting" ELSE @]

\* handle_detach: didClose; the server of the last buffer is stopped.
StillInUse(b) == \E c \in Buffer \ {b} : attached[c] > 0
Detach ==
  /\ Takes("detach")
  /\ LET b == Head(cmds).b IN
     /\ attached' = [attached EXCEPT ![b] = 0]
     /\ IF attached[b] = 0 THEN doc' = doc ELSE Write(uri[b], Closed)
     /\ IF attached[b] > 0 /\ ~StillInUse(b) /\ servers # 0
          THEN /\ Shutdown(servers)
               /\ servers' = 0
               /\ rt' = [op |-> "stopping", i |-> servers]
          ELSE UNCHANGED <<servers, rt, proc, open>>
  /\ UNCHANGED <<appVars, evts, uri, keys, gap, left>>

\* The server's copy, text T, after change c: edits lead to the text they were
\* made for from the one they were made on only.
After(c, T) ==
  IF c.t = "full" \/ (c.from = T /\ T # Garbled) THEN c.text ELSE Garbled

\* Mutant: the version is left alone.
ChangeSameVersion ==
  /\ Takes("full") \/ Takes("incr")
  /\ LET c == Head(cmds) IN
     /\ UNCHANGED attached
     /\ IF attached[c.b] = 0 \/ servers = 0 THEN doc' = doc
        ELSE Write(uri[c.b], [ver |-> attached[c.b],
                              text |-> After(c, doc[servers][uri[c.b]].text)])
  /\ UNCHANGED <<appVars, evts, rt, servers, uri, proc, open, keys, gap, left>>

\* handle_notify_change, handle_notify_change_incremental.
Change ==
  /\ Takes("full") \/ Takes("incr")
  /\ LET c == Head(cmds)
         v == attached[c.b] + 1
     IN
     /\ attached' = [attached EXCEPT ![c.b] = IF @ = 0 THEN 0 ELSE v]
     /\ IF attached[c.b] = 0 \/ servers = 0 THEN doc' = doc
        ELSE Write(uri[c.b], [ver |-> v, text |-> After(c, doc[servers][uri[c.b]].text)])
  /\ UNCHANGED <<appVars, evts, rt, servers, uri, proc, open, keys, gap, left>>

\* handle_notify_save: didSave changes no document.
DidSave ==
  /\ Takes("save")
  /\ UNCHANGED <<appVars, evts, rtVars, srvVars, keys, gap, left>>

\* handle_request: dropped without attachment; else the next JSON-RPC id.
SendRequest ==
  /\ Takes("request")
  /\ LET c == Head(cmds) IN
     open' = IF attached[c.b] = 0 \/ servers = 0 THEN open
             ELSE [open EXCEPT ![servers] = @ \cup {c.r}]
  /\ UNCHANGED <<appVars, evts, rtVars, proc, doc, keys, gap, left>>

\* Mutant: the attachments stay.
ServerExitedKeepsBuffers ==
  /\ Takes("exited")
  /\ servers' = 0
  /\ proc' = [i \in Proc |->
       IF i = servers /\ proc[i] = "up" THEN "doomed" ELSE proc[i]]
  /\ UNCHANGED <<appVars, evts, rt, attached, uri, open, doc, keys, gap,
                 left>>

\* LspCommand::ServerExited: the entry and the attachments go.  Dropping a
\* Server drops its kill_tx, which makes its wait task kill the child.
ServerExited ==
  /\ Takes("exited")
  /\ servers' = 0
  /\ attached' = [b \in Buffer |-> 0]
  /\ proc' = [i \in Proc |->
       IF i = servers /\ proc[i] = "up" THEN "doomed" ELSE proc[i]]
  /\ UNCHANGED <<appVars, evts, rt, uri, open, doc, keys, gap, left>>

\* LspCommand::ShutdownAll: stop the server, then leave the loop.
ShutdownAll ==
  /\ Takes("shutdown")
  /\ IF servers = 0 THEN UNCHANGED <<proc, open>> ELSE Shutdown(servers)
  /\ servers' = 0
  /\ rt' = [op |-> "quitting", i |-> servers]
  /\ UNCHANGED <<appVars, evts, attached, uri, doc, keys, gap, left>>

\* The awaited process has been reaped.
Stopped ==
  /\ Running /\ rt.op = "stopping" /\ proc[rt.i] = "dead"
  /\ rt' = Idle
  /\ UNCHANGED <<appVars, cmds, evts, servers, attached, uri, srvVars, keys, gap, left>>

\* The thread ends; its runtime drops every wait task, and kill_on_drop takes
\* the children they hold.
ThreadEnds ==
  /\ Running /\ rt.op = "quitting" /\ (rt.i # 0 => proc[rt.i] = "dead")
  /\ rt' = [op |-> "stopped"]
  /\ proc' = [i \in Proc |-> IF Alive(i) THEN "dead" ELSE proc[i]]
  /\ UNCHANGED <<appVars, cmds, evts, servers, attached, uri, open, doc,
                 keys, gap, left>>

\* The wait task reaps the child and says so.
Reap(i) ==
  /\ proc' = [proc EXCEPT ![i] = "dead"]
  /\ IF Running THEN Emit(ExitedEvt) ELSE evts' = evts
  /\ UNCHANGED <<appVars, cmds, rtVars, open, doc, keys, gap, left>>

\* The process ends by itself: a crash, or the answer to `exit`.
Dies(i) == /\ proc[i] \in {"up", "exiting"}
           /\ Reap(i)

\* The wait task kills it: kill_tx was dropped, or the grace period is over.
Kill(i) == /\ Running /\ proc[i] \in {"doomed", "exiting"}
           /\ Reap(i)

\* stdout_task, dispatch_message: a response takes its entry out of the map.
\* The server may have written it before it died.
Answer(i, r) ==
  /\ Running /\ rt.op # "stopped" /\ r \in open[i]
  /\ open' = [open EXCEPT ![i] = @ \ {r}]
  /\ Emit(ResponseEvt(r))
  /\ UNCHANGED <<appVars, cmds, rtVars, proc, doc, keys, gap, left>>

-----------------------------------------------------------------------------
UserStep ==
  \/ \E b \in Buffer, f \in File : Open(b, f) \/ OpenAborted(b, f)
  \/ \E b \in Buffer :
       \/ Close(b) \/ Restart(b) \/ SetFiletype(b) \/ Request(b)
       \/ WorkspaceEdit(b) \/ Formatted(b) \/ ExEdit(b) \/ Replace(b)
       \/ ConfirmSubstitute(b)
       \/ \E k \in {0, 1} : Save(b, k) \/ SaveFails(b, k)
       \/ \E k \in 1..MaxEdit : TimeTravel(b, k) \/ ExTimeTravel(b, k)
       \/ \E usable \in BOOLEAN : Edit(b, usable) \/ Key(b, usable)
  \/ Quit

RuntimeStep ==
  \/ AttachIgnored \/ AttachRunning \/ AttachSpawn \/ Detach
  \/ Change \/ DidSave \/ SendRequest \/ ServerExited \/ ShutdownAll
  \/ Stopped \/ ThreadEnds

Next ==
  \/ UserStep
  \/ \E late \in SUBSET seen : Drain(late)
  \/ Leave
  \/ RuntimeStep
  \/ HandshakeOk \/ HandshakeFails
  \/ \E i \in Proc :
       \/ Dies(i) \/ Kill(i)
       \/ \E r \in Req \cup {Internal} : Answer(i, r)

\* The event loop drains on every turn, a stamped request gets old, the
\* dispatcher never refuses a command, and its two waits are timed.  Nothing is
\* assumed of the servers or of the user.
Fairness ==
  /\ WF_vars(Drain(seen))
  /\ WF_vars(RuntimeStep)
  /\ WF_vars(HandshakeFails)
  /\ \A i \in Proc : WF_vars(Kill(i))

Spec == Init /\ [][Next]_vars /\ Fairness

-----------------------------------------------------------------------------
(* Properties *)

\* What a server is told about a document is a legal conversation: didOpen
\* (version 1) of a closed document, didChange one version up of an open one,
\* didClose; nothing reaches a process after `exit`.  Only a file given up at
\* the recovery prompt can be opened a second time.
DocumentProtocol ==
  [][\A i \in Proc, f \in File :
       LET d == doc[i][f]  e == doc'[i][f] IN
       e # d =>
         /\ proc[i] \in {"starting", "up"}
         /\ \/ e = Closed
            \/ d = Closed /\ e.ver = 1
            \/ d # Closed /\ e.ver = d.ver + 1
            \/ e.ver = 1 /\ \E b \in left : uri[b] = f]_vars

\* No command that concerns b is on its way.
Settled(b) == rt = Idle /\ \A k \in DOMAIN cmds : cmds[k].t \in
                {"exited", "shutdown"} \/ cmds[k].b # b

\* Once the commands are handled, the server that has a buffer attached holds
\* the text that the next edits in the log are made on, which is the buffer's
\* when the log is empty.  Excused, until the whole text goes out again, is a
\* buffer with a `gap`: a text that was replaced without a notification
\* (Replace, Formatted, ConfirmSubstitute), edits that left the log unsent (a
\* save that failed, several steps through the history, a step while the log
\* holds something) or that were sent twice (Restart, SetFiletype).
DocumentsInSync ==
  \A b \in Buffer :
    (/\ IsOpen(b) /\ Settled(b) /\ attached[b] > 0 /\ ~gap[b]
     /\ servers # 0 /\ proc[servers] = "up") =>
      doc[servers][slot[b]].text = logFrom[b]

\* When nothing is on its way, both threads agree about the server: the
\* application holds it initialized exactly when the dispatcher has a process
\* for it, which runs, and buffers are attached only then.
ViewsAgree ==
  app = "up" /\ cmds = <<>> /\ evts = <<>> /\ rt = Idle
    /\ ~(\E i \in Proc : proc[i] = "doomed") =>
    /\ lspState <=> servers # 0
    /\ servers # 0 => proc[servers] = "up" /\ \E b \in Buffer : attached[b] > 0
    /\ servers = 0 => \A b \in Buffer : attached[b] = 0

\* Every process that runs is in somebody's hands: entered under the key,
\* awaited by the dispatcher, or about to be killed by its wait task.  None is
\* left when the thread ends by itself; only an application that stopped
\* waiting for the thread can leave one behind.
NoServerLeaks ==
  app = "gone" \/ \A i \in Proc : Alive(i) =>
    /\ rt.op # "stopped"
    /\ \/ servers = i
       \/ rt.op # "idle" /\ rt.i = i
       \/ proc[i] = "doomed"

\* Every request gets off the list (and the spinner off the status line): it
\* is answered, or dropped when it has waited for too long.
RequestsResolve ==
  \A r \in Req : r \in pending ~> (r \notin pending \/ app # "up")

\* lsp_notify_change_active sends the whole text when a buffer "was
\* wholesale-replaced": edits reach only a server that holds the text they
\* were made on.
EditsFit ==
  \A i \in Proc, f \in File : doc[i][f].text # Garbled

\* The manager tells the runtime of an exit "so dead server state is removed":
\* a server that runs is never the one removed.
ExitRemovesTheDead ==
  [][\A i \in Proc : proc[i] = "up" => proc'[i] # "doomed"]_vars
=============================================================================
