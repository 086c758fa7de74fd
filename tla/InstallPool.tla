----------------------------- MODULE InstallPool -----------------------------
(***************************************************************************)
(* The tool installer's worker pool (crates/hjkl-anvil/src/job.rs) and the *)
(* editor's event loop that uses it (anvil_install in ex_dispatch.rs,      *)
(* poll_anvil_jobs in syntax_glue.rs).                                     *)
(*                                                                         *)
(* install() hands out one bounded status channel per call and registers   *)
(* its sender under the tool's name; a tool that is in flight gets another *)
(* sender instead of another job.  A worker broadcasts every status to the *)
(* senders of its tool while it holds the mutex of the registry, and a     *)
(* send into a full channel blocks.  The event loop alternates one input   *)
(* and one poll, which drains the channel of every handle it keeps.        *)
(***************************************************************************)
EXTENDS Naturals, FiniteSets, SequencesExt

CONSTANTS Tool, NoTool, Worker,
          Handle, NoHandle,  \* the channels that can be open at a time
          ChanCap, JobCap,   \* bounded(128) and bounded(64)
          MaxProgress        \* progress statuses of one installation

ASSUME PoolAssumption == /\ NoTool \notin Tool
                         /\ "free" \notin Worker
                         /\ NoHandle \notin Handle
                         /\ {ChanCap, JobCap} \subseteq Nat \ {0}
                         /\ MaxProgress \in Nat

VARIABLES lock,      \* who holds the mutex of in_flight across several steps
          inFlight,  \* the senders of every tool in flight
          jobs,      \* the job queue
          chan,      \* the statuses queued in every channel
          open,      \* the channels whose receiver is alive
          handles,   \* anvil_handles: the handle the editor polls for a tool
          ui,        \* the event loop
          worker

poolVars == <<lock, inFlight, jobs, chan, open, handles, ui, worker>>

Terminal == {"done", "failed"}
Status == {"progress"} \cup Terminal

Senders(t) == ToSet(inFlight[t])
Attached == UNION {Senders(t) : t \in DOMAIN inFlight}

IdleWorker == [pc |-> "idle", tool |-> NoTool, left |-> 0,
               todo |-> <<>>, status |-> "progress"]

PoolInit ==
  /\ lock = "free"
  /\ inFlight = [t \in {} |-> <<>>]
  /\ jobs = <<>>
  /\ chan = [h \in Handle |-> <<>>]
  /\ open = {}
  /\ handles = [t \in Tool |-> NoHandle]
  /\ ui = [pc |-> "input", tool |-> NoTool, handle |-> NoHandle]
  /\ worker = [w \in Worker |-> IdleWorker]

----------------------------------------------------------------------------
(***************************************************************************)
(* The event loop.                                                         *)
(***************************************************************************)
OtherInput ==
  /\ ui.pc = "input"
  /\ ui' = [ui EXCEPT !.pc = "poll"]
  /\ UNCHANGED <<lock, inFlight, jobs, chan, open, handles, worker>>

\* :Anvil install t, up to the call of in_flight.lock().
CallInstall(t, h) ==
  /\ ui.pc = "input"
  /\ h \notin open \cup Attached
  /\ open' = open \cup {h}
  /\ ui' = [pc |-> "lock", tool |-> t, handle |-> h]
  /\ UNCHANGED <<lock, inFlight, jobs, chan, handles, worker>>

\* install returned; the handle it replaces is dropped.
KeepHandle ==
  LET old == handles[ui.tool] IN
  /\ handles' = [handles EXCEPT ![ui.tool] = ui.handle]
  /\ open' = open \ {old}
  /\ chan' = [h \in Handle |-> IF h = old THEN <<>> ELSE chan[h]]
  /\ ui' = [pc |-> "poll", tool |-> NoTool, handle |-> NoHandle]

\* Mutant: the registry is not consulted.
NeverInFlight(t) == FALSE

IsInFlight(t) == t \in DOMAIN inFlight

Subscribe ==
  /\ ui.pc = "lock"
  /\ lock = "free"
  /\ IsInFlight(ui.tool)
  /\ inFlight' = [inFlight EXCEPT ![ui.tool] = Append(@, ui.handle)]
  /\ KeepHandle
  /\ UNCHANGED <<lock, jobs, worker>>

Register ==
  /\ ui.pc = "lock"
  /\ lock = "free"
  /\ ~IsInFlight(ui.tool)
  /\ inFlight' = [t \in DOMAIN inFlight \cup {ui.tool} |->
                    IF t = ui.tool THEN <<ui.handle>> ELSE inFlight[t]]
  /\ ui' = [ui EXCEPT !.pc = "send"]
  /\ UNCHANGED <<lock, jobs, chan, open, handles, worker>>

\* job_tx.send, which blocks while the queue is full.
QueueRoom == Len(jobs) < JobCap

Enqueue ==
  /\ ui.pc = "send"
  /\ QueueRoom
  /\ jobs' = Append(jobs, ui.tool)
  /\ KeepHandle
  /\ UNCHANGED <<lock, inFlight, worker>>

\* poll_anvil_jobs: a handle that has seen a terminal status is dropped.
Resolved(t) == handles[t] # NoHandle /\ ToSet(chan[handles[t]]) \cap Terminal # {}

Poll ==
  LET gone == {handles[t] : t \in {s \in Tool : Resolved(s)}} IN
  /\ ui.pc = "poll"
  /\ handles' = [t \in Tool |-> IF Resolved(t) THEN NoHandle ELSE handles[t]]
  /\ chan' = [h \in Handle |-> IF h \in Range(handles) THEN <<>> ELSE chan[h]]
  /\ open' = open \ gone
  /\ ui' = [ui EXCEPT !.pc = "input"]
  /\ UNCHANGED <<lock, inFlight, jobs, worker>>

----------------------------------------------------------------------------
(***************************************************************************)
(* A worker.  install_blocking reports any number of progress statuses and *)
(* fails, or reports "done" and succeeds; worker_loop then calls           *)
(* finish_job with the outcome.                                            *)
(***************************************************************************)
TakeJob(w) ==
  /\ worker[w].pc = "idle"
  /\ jobs # <<>>
  /\ jobs' = Tail(jobs)
  /\ worker' = [worker EXCEPT ![w] =
                  [pc |-> "run", tool |-> Head(jobs), left |-> MaxProgress,
                   todo |-> <<>>, status |-> "progress"]]
  /\ UNCHANGED <<lock, inFlight, chan, open, handles, ui>>

\* broadcast and finish_job lock the registry and begin to send.
StartSending(w, next, left, s) ==
  /\ lock = "free"
  /\ lock' = w
  /\ worker' = [worker EXCEPT ![w] =
                  [pc |-> next, tool |-> worker[w].tool, left |-> left,
                   todo |-> inFlight[worker[w].tool], status |-> s]]
  /\ UNCHANGED <<inFlight, jobs, chan, open, handles, ui>>

Progress(w) ==
  /\ worker[w].pc = "run"
  /\ worker[w].left > 0
  /\ StartSending(w, "broadcast", worker[w].left - 1, "progress")

ReportDone(w) ==
  /\ worker[w].pc = "run"
  /\ StartSending(w, "reportDone", worker[w].left, "done")

\* Mutant: finish_job is called only when the installation succeeded.
FinishOnSuccess(w) ==
  /\ worker[w].pc = "installed"
  /\ StartSending(w, "finish", worker[w].left, "done")

Finish(w) ==
  \/ /\ worker[w].pc = "run"
     /\ StartSending(w, "finish", worker[w].left, "failed")
  \/ /\ worker[w].pc = "installed"
     /\ StartSending(w, "finish", worker[w].left, "done")

\* Mutant: the retain condition is inverted.
KeptIfClosed(h) == h \notin open

\* The sender is kept (retain) when the send succeeded.
KeptSender(h) == h \in open

\* retain leaves the senders kept so far, followed by the ones still to visit.
Visiting(w) == Len(inFlight[worker[w].tool]) - Len(worker[w].todo) + 1

SendStatus(w) ==
  /\ lock = w
  /\ worker[w].todo # <<>>
  /\ LET h == Head(worker[w].todo)
         t == worker[w].tool
     IN /\ h \in open => Len(chan[h]) < ChanCap
        /\ chan' = IF h \in open THEN [chan EXCEPT ![h] = Append(@, worker[w].status)]
                                 ELSE chan
        /\ inFlight' = IF KeptSender(h) THEN inFlight
                       ELSE [inFlight EXCEPT ![t] = RemoveAt(@, Visiting(w))]
  /\ worker' = [worker EXCEPT ![w].todo = Tail(@)]
  /\ UNCHANGED <<lock, jobs, open, handles, ui>>

Unlock(w) ==
  /\ lock = w
  /\ worker[w].todo = <<>>
  /\ lock' = "free"
  /\ CASE worker[w].pc = "broadcast" ->
            /\ worker' = [worker EXCEPT ![w].pc = "run"]
            /\ UNCHANGED inFlight
       [] worker[w].pc = "reportDone" ->
            /\ worker' = [worker EXCEPT ![w].pc = "installed"]
            /\ UNCHANGED inFlight
       [] worker[w].pc = "finish" ->
            /\ worker' = [worker EXCEPT ![w] = IdleWorker]
            /\ inFlight' = [t \in DOMAIN inFlight \ {worker[w].tool} |-> inFlight[t]]
  /\ UNCHANGED <<jobs, chan, open, handles, ui>>

WorkerStep(w) ==
  TakeJob(w) \/ Progress(w) \/ ReportDone(w) \/ Finish(w) \/ SendStatus(w) \/ Unlock(w)

PoolNext ==
  \/ OtherInput
  \/ \E t \in Tool, h \in Handle : CallInstall(t, h)
  \/ Subscribe
  \/ Register
  \/ Enqueue
  \/ Poll
  \/ \E w \in Worker : WorkerStep(w)

(***************************************************************************)
(* The event loop keeps turning and the threads are scheduled: each takes  *)
(* a step it can always take.  A thread that finds the mutex free again    *)
(* and again gets it some day (strong fairness), whoever else wants it.    *)
(***************************************************************************)
Fairness ==
  /\ WF_poolVars(OtherInput)
  /\ SF_poolVars(Subscribe)
  /\ SF_poolVars(Register)
  /\ WF_poolVars(Enqueue)
  /\ WF_poolVars(Poll)
  /\ \A w \in Worker : /\ WF_poolVars(TakeJob(w))
                       /\ SF_poolVars(Finish(w))
                       /\ WF_poolVars(SendStatus(w))
                       /\ WF_poolVars(Unlock(w))

PoolSpec == PoolInit /\ [][PoolNext]_poolVars /\ Fairness

----------------------------------------------------------------------------
PoolTypeOK ==
  /\ lock \in {"free"} \cup Worker
  /\ DOMAIN inFlight \subseteq Tool
  /\ \A t \in DOMAIN inFlight : inFlight[t] \in Seq(Handle)
  /\ jobs \in Seq(Tool) /\ Len(jobs) <= JobCap
  /\ \A h \in Handle : chan[h] \in Seq(Status) /\ Len(chan[h]) <= ChanCap
  /\ open \subseteq Handle
  /\ handles \in [Tool -> open \cup {NoHandle}]
  /\ ui.pc \in {"input", "lock", "send", "poll"}
  /\ \A w \in Worker :
       worker[w].pc \in {"idle", "run", "broadcast", "reportDone", "installed", "finish"}

(***************************************************************************)
(* Deduplication is exact: a registered tool is being enqueued, queued or  *)
(* installed exactly once, and nothing else is.  Two jobs for one tool     *)
(* would extract over each other, and an entry without a job would swallow *)
(* every later install of that tool.                                       *)
(***************************************************************************)
JobsOf(t) ==
  Cardinality({i \in DOMAIN jobs : jobs[i] = t})
    + Cardinality({w \in Worker : worker[w].tool = t})
    + (IF ui.pc = "send" /\ ui.tool = t THEN 1 ELSE 0)

DedupExact == \A t \in Tool : JobsOf(t) = IF t \in DOMAIN inFlight THEN 1 ELSE 0

(***************************************************************************)
(* finish_job: a handle the editor polls is still subscribed to its tool's *)
(* job, or a terminal status waits in its channel.  No handle is ever left *)
(* with a channel that closed without one.                                 *)
(***************************************************************************)
NoHandleOrphaned ==
  \A t \in Tool : handles[t] # NoHandle =>
    Resolved(t) \/ (t \in DOMAIN inFlight /\ handles[t] \in Senders(t))

(***************************************************************************)
(* The editor never hangs in install(): the call returns to the event      *)
(* loop (the comment in install: "block the caller briefly").              *)
(***************************************************************************)
InstallReturns == ui.pc \in {"lock", "send"} ~> ui.pc = "poll"

(***************************************************************************)
(* Every handle the editor keeps is resolved by a terminal status, or      *)
(* replaced by the handle of a later install of the same tool.             *)
(***************************************************************************)
HandleResolves ==
  \A t \in Tool, h \in Handle : handles[t] = h ~> handles[t] # h
=============================================================================
