-------------------------- MODULE InstallPoolProofs --------------------------
(***************************************************************************)
(* What InstallPool promises, for every number of tools, workers, channels *)
(* and every capacity: deduplication is exact and no handle is orphaned.   *)
(***************************************************************************)
EXTENDS InstallPool, SequenceLemmas, FiniteSetTheorems

Sending == {"broadcast", "reportDone", "finish"}

WorkerOK(r) ==
  /\ r = [pc |-> r.pc, tool |-> r.tool, left |-> r.left, todo |-> r.todo, status |-> r.status]
  /\ r.pc \in {"idle", "run", "installed"} \cup Sending
  /\ r.tool \in Tool \cup {NoTool}
  /\ r.pc = "idle" <=> r.tool = NoTool
  /\ r.left \in Nat
  /\ r.todo \in Seq(Handle)
  /\ r.status \in Status
  /\ r.pc = "finish" => r.status \in Terminal

UiOK ==
  /\ ui = [pc |-> ui.pc, tool |-> ui.tool, handle |-> ui.handle]
  /\ ui.pc \in {"input", "lock", "send", "poll"}
  /\ ui.pc \in {"lock", "send"} => ui.tool \in Tool /\ ui.handle \in open

PoolTyped ==
  /\ lock \in {"free"} \cup Worker
  /\ inFlight = [t \in DOMAIN inFlight |-> inFlight[t]]
  /\ DOMAIN inFlight \subseteq Tool
  /\ \A t \in DOMAIN inFlight : inFlight[t] \in Seq(Handle)
  /\ jobs \in Seq(Tool)
  /\ chan \in [Handle -> Seq(Status)]
  /\ open \subseteq Handle
  /\ handles \in [Tool -> open \cup {NoHandle}]
  /\ UiOK
  /\ worker = [w \in Worker |-> worker[w]]
  /\ \A w \in Worker : WorkerOK(worker[w])

\* The two bounded queues keep their bounds.
QueuesBounded ==
  /\ Len(jobs) <= JobCap
  /\ \A h \in Handle : Len(chan[h]) <= ChanCap

\* A worker is sending while it holds the mutex, and only then.  What it still has
\* to visit is the end of its tool's list.
IsEndOf(d, s) ==
  /\ Len(d) <= Len(s)
  /\ \A i \in 1..Len(d) : d[i] = s[Len(s) - Len(d) + i]

LockDiscipline ==
  \A w \in Worker :
    /\ worker[w].pc \in Sending <=> lock = w
    /\ lock = w => IsEndOf(worker[w].todo, inFlight[worker[w].tool])

\* The places of a job: being enqueued, in the queue, with a worker.
Enqueueing(t) == ui.pc = "send" /\ ui.tool = t
InQueue(t) == \E i \in DOMAIN jobs : jobs[i] = t
AtWork(t) == \E w \in Worker : worker[w].tool = t

OneJobPerTool ==
  /\ \A i, j \in DOMAIN jobs : jobs[i] = jobs[j] => i = j
  /\ \A v, w \in Worker : worker[v].tool = worker[w].tool /\ worker[v].tool # NoTool => v = w
  /\ \A t \in Tool : /\ ~(InQueue(t) /\ AtWork(t))
                     /\ Enqueueing(t) => ~InQueue(t) /\ ~AtWork(t)
                     /\ t \in DOMAIN inFlight <=> Enqueueing(t) \/ InQueue(t) \/ AtWork(t)

\* A channel belongs to one handle, and the one install is about to return is new.
HandlesAreDistinct ==
  /\ \A s, t \in Tool : handles[s] = handles[t] /\ handles[s] # NoHandle => s = t
  /\ ui.pc \in {"lock", "send"} => \A t \in Tool : handles[t] # ui.handle
  /\ ui.pc = "send" => ui.handle \in Senders(ui.tool)

\* finish_job: who has been visited has its terminal status.
Told(h) == ToSet(chan[h]) \cap Terminal # {}
FinishTellsAll ==
  \A w \in Worker : worker[w].pc = "finish" =>
    \A h \in Senders(worker[w].tool) \cap open : h \in ToSet(worker[w].todo) \/ Told(h)

PoolInv ==
  PoolTyped /\ QueuesBounded /\ LockDiscipline /\ OneJobPerTool /\ HandlesAreDistinct
    /\ FinishTellsAll /\ NoHandleOrphaned

-----------------------------------------------------------------------------
LEMMA PoolInvInit == PoolInit => PoolInv
  <1> SUFFICES ASSUME PoolInit PROVE PoolInv
    OBVIOUS
  <1>1. /\ <<>> \in Seq(Tool) /\ <<>> \in Seq(Handle) /\ <<>> \in Seq(Status)
        /\ Len(<<>>) = 0 /\ DOMAIN <<>> = {}
    OBVIOUS
  <1>2. WorkerOK(IdleWorker)
    BY <1>1, PoolAssumption DEF WorkerOK, IdleWorker, Status, Sending
  <1>3. PoolTyped
    BY <1>1, <1>2, PoolAssumption DEF PoolInit, PoolTyped, UiOK
  <1>4. QueuesBounded
    BY <1>1, PoolAssumption DEF PoolInit, QueuesBounded
  <1>5. LockDiscipline
    BY PoolAssumption DEF PoolInit, LockDiscipline, IdleWorker, Sending
  <1>6. OneJobPerTool
    BY <1>1, PoolAssumption DEF PoolInit, OneJobPerTool, IdleWorker, Enqueueing, InQueue, AtWork
  <1>7. HandlesAreDistinct /\ FinishTellsAll /\ NoHandleOrphaned
    BY DEF PoolInit, HandlesAreDistinct, FinishTellsAll, NoHandleOrphaned, IdleWorker
  <1> QED
    BY <1>3, <1>4, <1>5, <1>6, <1>7 DEF PoolInv

-----------------------------------------------------------------------------
(***************************************************************************)
(* Steps of the event loop.                                                *)
(***************************************************************************)
\* The tool of a busy worker is registered.
LEMMA BusyIsRegistered ==
    ASSUME PoolInv, NEW w \in Worker, worker[w].pc # "idle"
    PROVE  /\ worker[w].tool \in Tool
           /\ worker[w].tool \in DOMAIN inFlight
           /\ inFlight[worker[w].tool] \in Seq(Handle)
  <1>1. worker[w].tool \in Tool
    BY DEF PoolInv, PoolTyped, WorkerOK
  <1>2. AtWork(worker[w].tool)
    BY DEF AtWork
  <1>3. worker[w].tool \in DOMAIN inFlight
    BY <1>1, <1>2 DEF PoolInv, OneJobPerTool
  <1> QED
    BY <1>1, <1>3 DEF PoolInv, PoolTyped

LEMMA OtherInputKeeps ==
    ASSUME PoolInv, OtherInput PROVE PoolInv'
  <1>1. /\ ui.pc = "input" /\ ui'.pc = "poll"
        /\ ui' = [pc |-> ui'.pc, tool |-> ui'.tool, handle |-> ui'.handle]
        /\ UNCHANGED <<lock, inFlight, jobs, chan, open, handles, worker>>
    BY DEF OtherInput, PoolInv, PoolTyped, UiOK
  <1>2. PoolTyped' /\ QueuesBounded'
    BY <1>1 DEF PoolInv, PoolTyped, QueuesBounded, UiOK, WorkerOK
  <1>3. LockDiscipline'
    BY <1>1 DEF PoolInv, LockDiscipline
  <1>4. OneJobPerTool'
    BY <1>1 DEF PoolInv, OneJobPerTool, Enqueueing, InQueue, AtWork
  <1>5. HandlesAreDistinct' /\ FinishTellsAll' /\ NoHandleOrphaned'
    BY <1>1 DEF PoolInv, HandlesAreDistinct, FinishTellsAll, NoHandleOrphaned, Senders, Told, Resolved
  <1> QED
    BY <1>2, <1>3, <1>4, <1>5 DEF PoolInv

LEMMA CallInstallKeeps ==
    ASSUME PoolInv, NEW t \in Tool, NEW h \in Handle, CallInstall(t, h) PROVE PoolInv'
  <1>1. /\ ui.pc = "input" /\ ui' = [pc |-> "lock", tool |-> t, handle |-> h]
        /\ h \notin open /\ h \notin Attached /\ open' = open \cup {h}
        /\ UNCHANGED <<lock, inFlight, jobs, chan, handles, worker>>
    BY DEF CallInstall
  <1>2. PoolTyped' /\ QueuesBounded'
    <2>1. UiOK'
      BY <1>1 DEF UiOK
    <2>2. handles \in [Tool -> open' \cup {NoHandle}] /\ open' \subseteq Handle
      BY <1>1 DEF PoolInv, PoolTyped
    <2> QED
      BY <1>1, <2>1, <2>2 DEF PoolInv, PoolTyped, QueuesBounded, WorkerOK
  <1>3. LockDiscipline'
    BY <1>1 DEF PoolInv, LockDiscipline
  <1>4. OneJobPerTool'
    BY <1>1 DEF PoolInv, OneJobPerTool, Enqueueing, InQueue, AtWork
  <1>5. HandlesAreDistinct'
    <2>1. \A s \in Tool : handles[s] # h
      BY <1>1, PoolAssumption DEF PoolInv, PoolTyped
    <2> QED
      BY <1>1, <2>1 DEF PoolInv, HandlesAreDistinct
  <1>6. FinishTellsAll'
    <2> SUFFICES ASSUME NEW w \in Worker, worker[w].pc = "finish",
                        NEW k \in Senders(worker[w].tool), k \in open \cup {h}
                 PROVE  k \in ToSet(worker[w].todo) \/ Told(k)
      BY <1>1 DEF FinishTellsAll, Senders, Told
    <2>1. worker[w].tool \in DOMAIN inFlight
      BY BusyIsRegistered
    <2>2. k # h
      BY <1>1, <2>1 DEF Attached
    <2> QED
      BY <2>2 DEF PoolInv, FinishTellsAll
  <1>7. NoHandleOrphaned'
    BY <1>1 DEF PoolInv, NoHandleOrphaned, Senders, Resolved
  <1> QED
    BY <1>2, <1>3, <1>4, <1>5, <1>6, <1>7 DEF PoolInv

\* install returns: the old handle's channel goes, every other one is untouched.
LEMMA KeepHandleFacts ==
    ASSUME PoolInv, ui.pc \in {"lock", "send"}, KeepHandle
    PROVE  /\ ui'.pc = "poll" /\ UiOK'
           /\ open' \subseteq open
           /\ handles' \in [Tool -> open' \cup {NoHandle}]
           /\ chan' \in [Handle -> Seq(Status)]
           /\ \A h \in Handle : Len(chan'[h]) <= ChanCap
           /\ \A h \in open' : chan'[h] = chan[h]
           /\ handles'[ui.tool] = ui.handle
           /\ \A t \in Tool : t # ui.tool => handles'[t] = handles[t]
           /\ HandlesAreDistinct'
  <1> DEFINE old == handles[ui.tool]
  <1>1. ui.tool \in Tool /\ ui.handle \in open /\ open \subseteq Handle
    BY DEF PoolInv, PoolTyped, UiOK
  <1>2. ui' = [pc |-> "poll", tool |-> NoTool, handle |-> NoHandle]
    BY DEF KeepHandle
  <1>3. /\ handles' = [handles EXCEPT ![ui.tool] = ui.handle]
        /\ open' = open \ {old}
        /\ chan' = [h \in Handle |-> IF h = old THEN <<>> ELSE chan[h]]
    BY DEF KeepHandle
  <1>4. \A t \in Tool : handles[t] # ui.handle
    BY DEF PoolInv, HandlesAreDistinct
  <1>5. /\ handles \in [Tool -> open \cup {NoHandle}]
        /\ \A s, t \in Tool : handles[s] = handles[t] /\ handles[s] # NoHandle => s = t
    BY DEF PoolInv, PoolTyped, HandlesAreDistinct
  <1>6. chan \in [Handle -> Seq(Status)] /\ \A h \in Handle : Len(chan[h]) <= ChanCap
    BY DEF PoolInv, PoolTyped, QueuesBounded
  <1>7. /\ handles'[ui.tool] = ui.handle
        /\ \A t \in Tool : t # ui.tool => handles'[t] = handles[t]
        /\ DOMAIN handles' = Tool
    BY <1>1, <1>3, <1>5
  <1>8. handles' \in [Tool -> open' \cup {NoHandle}]
    <2>1. ui.handle \in open'
      BY <1>1, <1>3, <1>4
    <2>2. \A t \in Tool : t # ui.tool => handles[t] \in open' \cup {NoHandle}
      BY <1>1, <1>3, <1>5
    <2> QED
      BY <1>3, <1>5, <1>7, <2>1, <2>2
  <1>9. HandlesAreDistinct'
    <2>1. \A s, t \in Tool : handles'[s] = handles'[t] /\ handles'[s] # NoHandle => s = t
      BY <1>4, <1>5, <1>7
    <2> QED
      BY <1>2, <2>1 DEF HandlesAreDistinct
  <1>10. /\ chan' \in [Handle -> Seq(Status)]
         /\ \A h \in Handle : Len(chan'[h]) <= ChanCap
    <2>1. ChanCap \in Nat
      BY PoolAssumption
    <2>2. <<>> \in Seq(Status) /\ Len(<<>>) = 0
      OBVIOUS
    <2> QED
      BY <1>3, <1>6, <2>1, <2>2
  <1>11. \A h \in open' : chan'[h] = chan[h]
    BY <1>1, <1>3
  <1> QED
    BY <1>2, <1>3, <1>7, <1>8, <1>9, <1>10, <1>11 DEF UiOK

\* While the mutex is free nobody is sending.
LEMMA FreeMeansQuiet ==
    ASSUME PoolInv, lock = "free", lock' = "free", UNCHANGED worker
    PROVE  LockDiscipline' /\ FinishTellsAll'
  <1>1. \A w \in Worker : worker[w].pc \notin Sending /\ lock # w
    BY PoolAssumption DEF PoolInv, LockDiscipline
  <1> QED
    BY <1>1 DEF LockDiscipline, FinishTellsAll, Sending

LEMMA SubscribeKeeps ==
    ASSUME PoolInv, Subscribe PROVE PoolInv'
  <1>1. /\ ui.pc = "lock" /\ lock = "free" /\ lock' = "free" /\ ui.tool \in DOMAIN inFlight
        /\ inFlight' = [inFlight EXCEPT ![ui.tool] = Append(@, ui.handle)]
        /\ KeepHandle /\ UNCHANGED <<lock, jobs, worker>>
    BY DEF Subscribe, IsInFlight
  <1>2. ui.tool \in Tool /\ ui.handle \in Handle /\ inFlight[ui.tool] \in Seq(Handle)
    BY <1>1 DEF PoolInv, PoolTyped, UiOK
  <1>3. /\ DOMAIN inFlight' = DOMAIN inFlight
        /\ inFlight' = [t \in DOMAIN inFlight' |-> inFlight'[t]]
        /\ inFlight'[ui.tool] = Append(inFlight[ui.tool], ui.handle)
        /\ \A t \in DOMAIN inFlight : t # ui.tool => inFlight'[t] = inFlight[t]
    BY <1>1 DEF PoolInv, PoolTyped
  <1>4. /\ inFlight'[ui.tool] \in Seq(Handle)
        /\ ToSet(inFlight'[ui.tool]) = ToSet(inFlight[ui.tool]) \cup {ui.handle}
    BY <1>2, <1>3, ToSetAppend
  <1>5. /\ ui'.pc = "poll" /\ UiOK' /\ open' \subseteq open
        /\ handles' \in [Tool -> open' \cup {NoHandle}]
        /\ chan' \in [Handle -> Seq(Status)]
        /\ \A h \in Handle : Len(chan'[h]) <= ChanCap
        /\ \A h \in open' : chan'[h] = chan[h]
        /\ handles'[ui.tool] = ui.handle
        /\ \A t \in Tool : t # ui.tool => handles'[t] = handles[t]
        /\ HandlesAreDistinct'
    BY <1>1, KeepHandleFacts
  <1>6. PoolTyped' /\ QueuesBounded'
    BY <1>1, <1>3, <1>4, <1>5 DEF PoolInv, PoolTyped, QueuesBounded, WorkerOK
  <1>7. LockDiscipline' /\ FinishTellsAll'
    BY <1>1, FreeMeansQuiet
  <1>8. OneJobPerTool'
    BY <1>1, <1>3, <1>5 DEF PoolInv, OneJobPerTool, Enqueueing, InQueue, AtWork
  <1>9. NoHandleOrphaned'
    <2> SUFFICES ASSUME NEW t \in Tool, handles'[t] # NoHandle
                 PROVE  Resolved(t)' \/ (t \in DOMAIN inFlight' /\ handles'[t] \in Senders(t)')
      BY DEF NoHandleOrphaned
    <2>1. CASE t = ui.tool
      BY <1>1, <1>3, <1>4, <1>5, <2>1 DEF Senders
    <2>2. CASE t # ui.tool
      <3>1. handles'[t] = handles[t] /\ handles[t] \in open' /\ chan'[handles[t]] = chan[handles[t]]
        BY <1>5, <2>2
      <3>2. Resolved(t) \/ (t \in DOMAIN inFlight /\ handles[t] \in Senders(t))
        BY <3>1 DEF PoolInv, NoHandleOrphaned
      <3> QED
        BY <1>3, <2>2, <3>1, <3>2 DEF Senders, Resolved
    <2> QED
      BY <2>1, <2>2
  <1> QED
    BY <1>5, <1>6, <1>7, <1>8, <1>9 DEF PoolInv

LEMMA RegisterKeeps ==
    ASSUME PoolInv, Register PROVE PoolInv'
  <1>1. /\ ui.pc = "lock" /\ lock = "free" /\ lock' = "free" /\ ui.tool \notin DOMAIN inFlight
        /\ inFlight' = [t \in DOMAIN inFlight \cup {ui.tool} |->
                          IF t = ui.tool THEN <<ui.handle>> ELSE inFlight[t]]
        /\ ui' = [ui EXCEPT !.pc = "send"]
        /\ UNCHANGED <<lock, jobs, chan, open, handles, worker>>
    BY DEF Register, IsInFlight
  <1>2. ui.tool \in Tool /\ ui.handle \in open /\ ui.handle \in Handle
    BY <1>1 DEF PoolInv, PoolTyped, UiOK
  <1>3. /\ DOMAIN inFlight' = DOMAIN inFlight \cup {ui.tool}
        /\ inFlight' = [t \in DOMAIN inFlight' |-> inFlight'[t]]
        /\ inFlight'[ui.tool] = <<ui.handle>>
        /\ \A t \in DOMAIN inFlight : inFlight'[t] = inFlight[t]
    BY <1>1
  <1>4. ui'.pc = "send" /\ ui'.tool = ui.tool /\ ui'.handle = ui.handle
        /\ ui' = [pc |-> ui'.pc, tool |-> ui'.tool, handle |-> ui'.handle]
    BY <1>1 DEF PoolInv, PoolTyped, UiOK
  <1>5. <<ui.handle>> \in Seq(Handle) /\ ToSet(<<ui.handle>>) = {ui.handle}
    BY <1>2 DEF ToSet
  <1>6. PoolTyped' /\ QueuesBounded'
    <2>1. UiOK'
      BY <1>1, <1>2, <1>4 DEF UiOK
    <2> QED
      BY <1>1, <1>2, <1>3, <1>5, <2>1 DEF PoolInv, PoolTyped, QueuesBounded, WorkerOK
  <1>7. LockDiscipline' /\ FinishTellsAll'
    BY <1>1, FreeMeansQuiet
  <1>8. OneJobPerTool'
    BY <1>1, <1>2, <1>3, <1>4 DEF PoolInv, OneJobPerTool, Enqueueing, InQueue, AtWork
  <1>9. HandlesAreDistinct'
    BY <1>1, <1>3, <1>4, <1>5 DEF PoolInv, HandlesAreDistinct, Senders
  <1>10. NoHandleOrphaned'
    BY <1>1, <1>3 DEF PoolInv, NoHandleOrphaned, Senders, Resolved
  <1> QED
    BY <1>6, <1>7, <1>8, <1>9, <1>10 DEF PoolInv

LEMMA EnqueueKeeps ==
    ASSUME PoolInv, Enqueue PROVE PoolInv'
  <1>1. /\ ui.pc = "send" /\ Len(jobs) < JobCap /\ jobs' = Append(jobs, ui.tool)
        /\ KeepHandle /\ UNCHANGED <<lock, inFlight, worker>>
    BY DEF Enqueue, QueueRoom
  <1>2. ui.tool \in Tool /\ jobs \in Seq(Tool)
    BY <1>1 DEF PoolInv, PoolTyped, UiOK
  <1>3. /\ jobs' \in Seq(Tool) /\ Len(jobs') = Len(jobs) + 1
        /\ \A i \in DOMAIN jobs : jobs'[i] = jobs[i]
        /\ jobs'[Len(jobs) + 1] = ui.tool
        /\ DOMAIN jobs' = DOMAIN jobs \cup {Len(jobs) + 1}
        /\ Len(jobs) + 1 \notin DOMAIN jobs
    BY <1>1, <1>2, ToSetAppend
  <1>4. Len(jobs') <= JobCap
    BY <1>1, <1>2, <1>3, PoolAssumption, LenProperties
  <1>5. /\ ui'.pc = "poll" /\ UiOK' /\ open' \subseteq open
        /\ handles' \in [Tool -> open' \cup {NoHandle}]
        /\ chan' \in [Handle -> Seq(Status)]
        /\ \A h \in Handle : Len(chan'[h]) <= ChanCap
        /\ \A h \in open' : chan'[h] = chan[h]
        /\ handles'[ui.tool] = ui.handle
        /\ \A t \in Tool : t # ui.tool => handles'[t] = handles[t]
        /\ HandlesAreDistinct'
    BY <1>1, KeepHandleFacts
  <1>6. PoolTyped' /\ QueuesBounded'
    BY <1>1, <1>3, <1>4, <1>5 DEF PoolInv, PoolTyped, QueuesBounded, WorkerOK
  <1>7. LockDiscipline'
    BY <1>1 DEF PoolInv, LockDiscipline
  <1>8. FinishTellsAll'
    BY <1>1, <1>5 DEF PoolInv, FinishTellsAll, Senders, Told
  <1>9. OneJobPerTool'
    <2>1. \A t \in Tool : InQueue(t)' <=> InQueue(t) \/ t = ui.tool
      BY <1>3 DEF InQueue
    <2>2. \A t \in Tool : (Enqueueing(t) <=> t = ui.tool) /\ ~Enqueueing(t)' /\ (AtWork(t)' <=> AtWork(t))
      BY <1>1, <1>5 DEF Enqueueing, AtWork
    <2>3. ~InQueue(ui.tool)
      BY <1>2, <2>2 DEF PoolInv, OneJobPerTool
    <2>4. \A i, j \in DOMAIN jobs' : jobs'[i] = jobs'[j] => i = j
      BY <1>3, <2>3 DEF PoolInv, OneJobPerTool, InQueue
    <2> QED
      BY <1>1, <2>1, <2>2, <2>4 DEF PoolInv, OneJobPerTool
  <1>10. NoHandleOrphaned'
    <2> SUFFICES ASSUME NEW t \in Tool, handles'[t] # NoHandle
                 PROVE  Resolved(t)' \/ (t \in DOMAIN inFlight' /\ handles'[t] \in Senders(t)')
      BY DEF NoHandleOrphaned
    <2>1. CASE t = ui.tool
      <3>1. ui.tool \in DOMAIN inFlight
        BY <1>1, <1>2 DEF PoolInv, OneJobPerTool, Enqueueing
      <3>2. ui.handle \in Senders(ui.tool)
        BY <1>1 DEF PoolInv, HandlesAreDistinct
      <3> QED
        BY <1>1, <1>5, <2>1, <3>1, <3>2 DEF Senders
    <2>2. CASE t # ui.tool
      <3>1. handles'[t] = handles[t] /\ handles[t] \in open' /\ chan'[handles[t]] = chan[handles[t]]
        BY <1>5, <2>2
      <3>2. Resolved(t) \/ (t \in DOMAIN inFlight /\ handles[t] \in Senders(t))
        BY <3>1 DEF PoolInv, NoHandleOrphaned
      <3> QED
        BY <1>1, <3>1, <3>2 DEF Senders, Resolved
    <2> QED
      BY <2>1, <2>2
  <1> QED
    BY <1>5, <1>6, <1>7, <1>8, <1>9, <1>10 DEF PoolInv

\* A drained channel either belongs to a handle that goes, or held no terminal status.
LEMMA PollKeeps ==
    ASSUME PoolInv, Poll PROVE PoolInv'
  <1> DEFINE gone == {handles[t] : t \in {s \in Tool : Resolved(s)}}
  <1>1. /\ ui.pc = "poll" /\ ui' = [ui EXCEPT !.pc = "input"] /\ open' = open \ gone
        /\ handles' = [t \in Tool |-> IF Resolved(t) THEN NoHandle ELSE handles[t]]
        /\ chan' = [h \in Handle |-> IF h \in Range(handles) THEN <<>> ELSE chan[h]]
        /\ UNCHANGED <<lock, inFlight, jobs, worker>>
    BY DEF Poll
  <1>2. /\ handles \in [Tool -> open \cup {NoHandle}] /\ open \subseteq Handle
        /\ chan \in [Handle -> Seq(Status)] /\ \A h \in Handle : Len(chan[h]) <= ChanCap
        /\ \A s, t \in Tool : handles[s] = handles[t] /\ handles[s] # NoHandle => s = t
    BY DEF PoolInv, PoolTyped, QueuesBounded, HandlesAreDistinct
  <1>3. ui'.pc = "input" /\ UiOK'
    BY <1>1 DEF PoolInv, PoolTyped, UiOK
  <1>4. handles' \in [Tool -> open' \cup {NoHandle}]
    <2> SUFFICES ASSUME NEW t \in Tool, ~Resolved(t), handles[t] # NoHandle
                 PROVE  handles[t] \in open'
      BY <1>1
    <2>1. handles[t] \notin gone
      BY <1>2 DEF Resolved
    <2> QED
      BY <1>1, <1>2, <2>1
  <1>5. chan' \in [Handle -> Seq(Status)] /\ \A h \in Handle : Len(chan'[h]) <= ChanCap
    <2>1. ChanCap \in Nat
      BY PoolAssumption
    <2>2. <<>> \in Seq(Status) /\ Len(<<>>) = 0
      OBVIOUS
    <2> QED
      BY <1>1, <1>2, <2>1, <2>2
  <1>6. PoolTyped' /\ QueuesBounded'
    BY <1>1, <1>2, <1>3, <1>4, <1>5 DEF PoolInv, PoolTyped, QueuesBounded, WorkerOK
  <1>7. LockDiscipline'
    BY <1>1 DEF PoolInv, LockDiscipline
  <1>8. OneJobPerTool'
    BY <1>1, <1>3 DEF PoolInv, OneJobPerTool, Enqueueing, InQueue, AtWork
  <1>9. HandlesAreDistinct'
    BY <1>1, <1>2, <1>3 DEF HandlesAreDistinct
  <1>10. \A h \in open' : Told(h) => Told(h)'
    <2> SUFFICES ASSUME NEW h \in open', Told(h) PROVE h \notin Range(handles)
      BY <1>1, <1>2 DEF Told
    <2>1. ASSUME NEW t \in Tool, handles[t] = h PROVE FALSE
      <3>1. Resolved(t)
        BY <1>1, <1>2, <2>1, PoolAssumption DEF Resolved, Told
      <3> QED
        BY <1>1, <2>1, <3>1
    <2> QED
      BY <1>2, <2>1 DEF Range
  <1>11. FinishTellsAll'
    BY <1>1, <1>10 DEF PoolInv, FinishTellsAll, Senders
  <1>12. NoHandleOrphaned'
    BY <1>1 DEF PoolInv, NoHandleOrphaned, Senders
  <1> QED
    BY <1>6, <1>7, <1>8, <1>9, <1>11, <1>12 DEF PoolInv

-----------------------------------------------------------------------------
(***************************************************************************)
(* Steps of a worker.                                                      *)
(***************************************************************************)
LEMMA OneWorker ==
    ASSUME PoolInv, NEW w \in Worker, NEW r, WorkerOK(r),
           worker' = [worker EXCEPT ![w] = r]
    PROVE  /\ worker' = [v \in Worker |-> worker'[v]]
           /\ worker'[w] = r
           /\ \A v \in Worker : v # w => worker'[v] = worker[v]
           /\ \A v \in Worker : WorkerOK(worker'[v])
  <1>1. worker = [v \in Worker |-> worker[v]] /\ \A v \in Worker : WorkerOK(worker[v])
    BY DEF PoolInv, PoolTyped
  <1>2. /\ worker' = [v \in Worker |-> worker'[v]] /\ worker'[w] = r
        /\ \A v \in Worker : v # w => worker'[v] = worker[v]
    BY <1>1
  <1> QED
    BY <1>1, <1>2

LEMMA TakeJobKeeps ==
    ASSUME PoolInv, NEW w \in Worker, TakeJob(w) PROVE PoolInv'
  <1> DEFINE r == [pc |-> "run", tool |-> Head(jobs), left |-> MaxProgress, todo |-> <<>>,
                   status |-> "progress"]
  <1>1. /\ worker[w].pc = "idle" /\ jobs # <<>> /\ jobs' = Tail(jobs)
        /\ worker' = [worker EXCEPT ![w] = r]
        /\ UNCHANGED <<lock, inFlight, chan, open, handles, ui>>
    BY DEF TakeJob
  <1>2. jobs \in Seq(Tool)
    BY DEF PoolInv, PoolTyped
  <1>3. /\ jobs' \in Seq(Tool) /\ Head(jobs) \in Tool /\ Head(jobs) = jobs[1]
        /\ 1 \in DOMAIN jobs /\ Len(jobs) \in Nat \ {0} /\ Len(jobs') = Len(jobs) - 1
        /\ \A i \in 1..(Len(jobs) - 1) : jobs'[i] = jobs[i + 1]
        /\ DOMAIN jobs = 1..Len(jobs) /\ DOMAIN jobs' = 1..(Len(jobs) - 1)
    BY <1>1, <1>2, ToSetTail
  <1>4. /\ r.pc = "run" /\ r.tool = Head(jobs) /\ r.left = MaxProgress
        /\ r.todo = <<>> /\ r.status = "progress"
        /\ r = [pc |-> r.pc, tool |-> r.tool, left |-> r.left, todo |-> r.todo, status |-> r.status]
    OBVIOUS
  <1> HIDE DEF r
  <1>5. WorkerOK(r)
    BY <1>3, <1>4, PoolAssumption DEF WorkerOK, Status, Sending
  <1>6. /\ worker' = [v \in Worker |-> worker'[v]] /\ worker'[w] = r
        /\ \A v \in Worker : v # w => worker'[v] = worker[v]
        /\ \A v \in Worker : WorkerOK(worker'[v])
    BY <1>1, <1>5, OneWorker
  <1>7. PoolTyped' /\ QueuesBounded'
    <2>1. Len(jobs') <= JobCap
      BY <1>3, PoolAssumption DEF PoolInv, QueuesBounded
    <2>2. UiOK'
      BY <1>1 DEF PoolInv, PoolTyped, UiOK
    <2> QED
      BY <1>1, <1>3, <1>6, <2>1, <2>2 DEF PoolInv, PoolTyped, QueuesBounded
  <1>8. LockDiscipline'
    <2>1. worker[w].pc \notin Sending /\ worker'[w].pc \notin Sending
      BY <1>1, <1>4, <1>6 DEF Sending
    <2> QED
      BY <1>1, <1>6, <2>1 DEF PoolInv, LockDiscipline
  <1>9. OneJobPerTool'
    <2>3. \A i, j \in DOMAIN jobs : jobs[i] = jobs[j] => i = j
      BY DEF PoolInv, OneJobPerTool
    <2>4. \A i, j \in DOMAIN jobs' : jobs'[i] = jobs'[j] => i = j
      BY <1>1, <1>2, <2>3, DistinctTail
    <2>5. \A t \in Tool : InQueue(t)' <=> InQueue(t) /\ t # Head(jobs)
      BY <1>1, <1>2, <2>3, DistinctTail DEF InQueue
    <2>6. worker[w].tool = NoTool /\ worker'[w].tool = Head(jobs) /\ NoTool \notin Tool
      BY <1>1, <1>4, <1>6, PoolAssumption DEF PoolInv, PoolTyped, WorkerOK
    <2>7. \A t \in Tool : AtWork(t)' <=> AtWork(t) \/ t = Head(jobs)
      BY <1>6, <2>6 DEF AtWork
    <2>8. InQueue(Head(jobs)) /\ ~AtWork(Head(jobs)) /\ ~Enqueueing(Head(jobs))
      <3>1. InQueue(Head(jobs))
        BY <1>3 DEF InQueue
      <3> QED
        BY <1>3, <3>1 DEF PoolInv, OneJobPerTool
    <2>9. \A v, u \in Worker : worker'[v].tool = worker'[u].tool /\ worker'[v].tool # NoTool => v = u
      BY <1>6, <2>6, <2>8 DEF PoolInv, OneJobPerTool, AtWork
    <2>10. \A t \in Tool : Enqueueing(t)' <=> Enqueueing(t)
      BY <1>1 DEF Enqueueing
    <2>11. \A t \in Tool : /\ ~(InQueue(t)' /\ AtWork(t)')
                           /\ Enqueueing(t)' => ~InQueue(t)' /\ ~AtWork(t)'
                           /\ t \in DOMAIN inFlight' <=> Enqueueing(t)' \/ InQueue(t)' \/ AtWork(t)'
      BY <1>1, <2>5, <2>7, <2>8, <2>10 DEF PoolInv, OneJobPerTool
    <2> QED
      BY <2>4, <2>9, <2>11 DEF OneJobPerTool
  <1>10. HandlesAreDistinct' /\ NoHandleOrphaned'
    BY <1>1 DEF PoolInv, HandlesAreDistinct, NoHandleOrphaned, Senders, Resolved
  <1>11. FinishTellsAll'
    BY <1>1, <1>4, <1>6 DEF PoolInv, FinishTellsAll, Senders, Told
  <1> QED
    BY <1>7, <1>8, <1>9, <1>10, <1>11 DEF PoolInv

\* The worker takes the mutex, with every sender of its tool to visit.
LEMMA StartKeeps ==
    ASSUME PoolInv, NEW w \in Worker, NEW r, WorkerOK(r),
           worker[w].pc \in {"run", "installed"}, r.pc \in Sending,
           r.tool = worker[w].tool, r.todo = inFlight[worker[w].tool],
           lock = "free", lock' = w, worker' = [worker EXCEPT ![w] = r],
           UNCHANGED <<inFlight, jobs, chan, open, handles, ui>>
    PROVE  PoolInv'
  <1>1. /\ worker' = [v \in Worker |-> worker'[v]] /\ worker'[w] = r
        /\ \A v \in Worker : v # w => worker'[v] = worker[v]
        /\ \A v \in Worker : WorkerOK(worker'[v])
    BY OneWorker
  <1>2. PoolTyped' /\ QueuesBounded'
    <2>1. UiOK'
      BY DEF PoolInv, PoolTyped, UiOK
    <2> QED
      BY <1>1, <2>1 DEF PoolInv, PoolTyped, QueuesBounded
  <1>3. \A v \in Worker : worker[v].pc \notin Sending
    BY PoolAssumption DEF PoolInv, LockDiscipline
  <1>4. LockDiscipline'
    <2>1. inFlight[r.tool] \in Seq(Handle)
      BY BusyIsRegistered
    <2>2. Len(r.todo) \in Nat
      BY <2>1, LenProperties
    <2>3. IsEndOf(r.todo, inFlight'[r.tool])
      BY <2>2 DEF IsEndOf
    <2> QED
      BY <1>1, <1>3, <2>3 DEF LockDiscipline
  <1>5. OneJobPerTool'
    <2>1. \A v \in Worker : worker'[v].tool = worker[v].tool
      BY <1>1
    <2> QED
      BY <2>1 DEF PoolInv, OneJobPerTool, Enqueueing, InQueue, AtWork
  <1>6. HandlesAreDistinct' /\ NoHandleOrphaned'
    BY DEF PoolInv, HandlesAreDistinct, NoHandleOrphaned, Senders, Resolved
  <1>7. FinishTellsAll'
    BY <1>1, <1>3 DEF FinishTellsAll, Senders, Told, Sending
  <1> QED
    BY <1>2, <1>4, <1>5, <1>6, <1>7 DEF PoolInv

LEMMA NextRecord ==
    ASSUME NEW r, NEW p, NEW d,
           r = [pc |-> r.pc, tool |-> r.tool, left |-> r.left, todo |-> r.todo, status |-> r.status]
    PROVE  /\ [r EXCEPT !.pc = p]
                 = [pc |-> p, tool |-> r.tool, left |-> r.left, todo |-> r.todo, status |-> r.status]
           /\ [r EXCEPT !.todo = d]
                 = [pc |-> r.pc, tool |-> r.tool, left |-> r.left, todo |-> d, status |-> r.status]
  <1> DEFINE a == r.pc
             b == r.tool
             c == r.left
             e == r.todo
             f == r.status
  <1>1. r = [pc |-> a, tool |-> b, left |-> c, todo |-> e, status |-> f]
    OBVIOUS
  <1> HIDE DEF a, b, c, e, f
  <1>2. [r EXCEPT !.pc = p] = [pc |-> p, tool |-> b, left |-> c, todo |-> e, status |-> f]
    BY <1>1
  <1>3. [r EXCEPT !.todo = d] = [pc |-> a, tool |-> b, left |-> c, todo |-> d, status |-> f]
    BY <1>1
  <1> QED
    BY <1>2, <1>3 DEF a, b, c, e, f

LEMMA StartSendingKeeps ==
    ASSUME PoolInv, NEW w \in Worker, Progress(w) \/ ReportDone(w) \/ Finish(w)
    PROVE  PoolInv'
  <1> DEFINE d == inFlight[worker[w].tool]
             R(p, l, s) == [pc |-> p, tool |-> worker[w].tool, left |-> l, todo |-> d, status |-> s]
  <1>1. /\ worker[w].pc \in {"run", "installed"}
        /\ lock = "free" /\ lock' = w
        /\ UNCHANGED <<inFlight, jobs, chan, open, handles, ui>>
    BY DEF Progress, ReportDone, Finish, StartSending
  <1>2. WorkerOK(worker[w])
    BY DEF PoolInv, PoolTyped
  <1>3. worker[w].tool \in Tool /\ d \in Seq(Handle)
    BY <1>1, BusyIsRegistered
  <1>4. ASSUME NEW p \in Sending, NEW l \in Nat, NEW s \in Status, p = "finish" => s \in Terminal,
               worker' = [worker EXCEPT ![w] = R(p, l, s)]
        PROVE  PoolInv'
    <2>1. WorkerOK(R(p, l, s))
      BY <1>3, <1>4, PoolAssumption DEF WorkerOK, Sending
    <2>2. R(p, l, s).pc \in Sending /\ R(p, l, s).tool = worker[w].tool /\ R(p, l, s).todo = d
      OBVIOUS
    <2> HIDE DEF R
    <2> QED
      BY <1>1, <1>4, <2>1, <2>2, StartKeeps
  <1>5. CASE Progress(w)
    <2>1. worker[w].left \in Nat /\ worker[w].left > 0
      BY <1>2, <1>5 DEF Progress, WorkerOK
    <2>2. worker' = [worker EXCEPT ![w] = R("broadcast", worker[w].left - 1, "progress")]
      BY <1>5 DEF Progress, StartSending
    <2>3. worker[w].left - 1 \in Nat /\ "broadcast" \in Sending /\ "progress" \in Status
      BY <2>1 DEF Sending, Status
    <2> HIDE DEF R
    <2> QED
      BY <1>4, <2>2, <2>3
  <1>6. CASE ReportDone(w)
    <2>1. worker' = [worker EXCEPT ![w] = R("reportDone", worker[w].left, "done")]
      BY <1>6 DEF ReportDone, StartSending
    <2>2. worker[w].left \in Nat /\ "reportDone" \in Sending /\ "done" \in Status
      BY <1>2 DEF Sending, Status, Terminal, WorkerOK
    <2> HIDE DEF R
    <2> QED
      BY <1>4, <2>1, <2>2
  <1>7. CASE Finish(w)
    <2>1. \E s \in Terminal : worker' = [worker EXCEPT ![w] = R("finish", worker[w].left, s)]
      BY <1>7 DEF Finish, StartSending, Terminal
    <2>2. worker[w].left \in Nat /\ "finish" \in Sending /\ Terminal \subseteq Status
      BY <1>2 DEF Sending, Status, WorkerOK
    <2> HIDE DEF R
    <2> QED
      BY <1>4, <2>1, <2>2
  <1> QED
    BY <1>5, <1>6, <1>7

\* One sender is visited.
LEMMA SendStatusKeeps ==
    ASSUME PoolInv, NEW w \in Worker, SendStatus(w) PROVE PoolInv'
  <1> DEFINE t == worker[w].tool
             d == worker[w].todo
             h == Head(d)
             s == inFlight[t]
             r == [pc |-> worker[w].pc, tool |-> t, left |-> worker[w].left, todo |-> Tail(d),
                   status |-> worker[w].status]
  <1>1. /\ lock = w /\ lock' = w /\ d # <<>>
        /\ h \in open => Len(chan[h]) < ChanCap
        /\ h \in open => chan' = [chan EXCEPT ![h] = Append(@, worker[w].status)] /\ inFlight' = inFlight
        /\ h \notin open => chan' = chan /\ inFlight' = [inFlight EXCEPT ![t] = RemoveAt(@, Visiting(w))]
        /\ UNCHANGED <<lock, jobs, open, handles, ui>>
    BY DEF SendStatus, KeptSender
  <1>2. WorkerOK(worker[w]) /\ worker[w].pc \in Sending /\ worker[w].pc # "idle"
    BY <1>1 DEF PoolInv, PoolTyped, LockDiscipline, Sending
  <1>3. t \in Tool /\ t \in DOMAIN inFlight /\ s \in Seq(Handle)
    BY <1>2, BusyIsRegistered
  <1>4. /\ Len(d) <= Len(s)
        /\ \A i \in 1..Len(d) : d[i] = s[Len(s) - Len(d) + i]
    BY <1>1 DEF PoolInv, LockDiscipline, IsEndOf
  <1>5. d \in Seq(Handle) /\ worker[w].status \in Status
    BY <1>2 DEF WorkerOK
  <1>6. /\ Tail(d) \in Seq(Handle) /\ h \in Handle /\ h = d[1]
        /\ Len(d) \in Nat \ {0} /\ Len(Tail(d)) = Len(d) - 1
        /\ \A i \in 1..(Len(d) - 1) : Tail(d)[i] = d[i + 1]
        /\ ToSet(d) = {h} \cup ToSet(Tail(d))
    BY <1>1, <1>5, ToSetTail
  <1>7. worker' = [worker EXCEPT ![w] = r]
    <2>1. worker' = [worker EXCEPT ![w] = [worker[w] EXCEPT !.todo = Tail(d)]]
      BY DEF SendStatus
    <2> QED
      BY <1>2, <2>1, NextRecord DEF WorkerOK
  <1>8. /\ r.pc = worker[w].pc /\ r.tool = t /\ r.left = worker[w].left /\ r.todo = Tail(d)
        /\ r.status = worker[w].status
        /\ r = [pc |-> r.pc, tool |-> r.tool, left |-> r.left, todo |-> r.todo, status |-> r.status]
    OBVIOUS
  <1> HIDE DEF r
  <1>9. WorkerOK(r)
    BY <1>2, <1>6, <1>8 DEF WorkerOK
  <1>10. /\ worker' = [v \in Worker |-> worker'[v]] /\ worker'[w] = r
         /\ \A v \in Worker : v # w => worker'[v] = worker[v]
         /\ \A v \in Worker : WorkerOK(worker'[v])
    BY <1>7, <1>9, OneWorker
  <1> DEFINE k == Visiting(w)
  <1>11. k = Len(s) - Len(d) + 1 /\ k \in 1..Len(s) /\ s[k] = h /\ Len(s) \in Nat
    <2>1. k = Len(s) - Len(d) + 1
      BY DEF Visiting
    <2>2. Len(s) \in Nat
      BY <1>3, LenProperties
    <2>3. k \in 1..Len(s)
      <3> DEFINE n == Len(s)
                 m == Len(d)
      <3>1. n \in Nat /\ m \in Nat \ {0} /\ m <= n /\ k = n - m + 1
        BY <1>4, <1>6, <2>1, <2>2
      <3> HIDE DEF k, n, m
      <3>2. k \in 1..n
        BY <3>1
      <3> QED
        BY <3>2 DEF n
    <2>4. 1 \in 1..Len(d)
      BY <1>6
    <2> QED
      BY <1>4, <1>6, <2>1, <2>2, <2>3, <2>4
  <1> HIDE DEF k
  <1>12. /\ RemoveAt(s, k) \in Seq(Handle)
         /\ Len(RemoveAt(s, k)) = Len(s) - 1
         /\ \A j \in k..(Len(s) - 1) : RemoveAt(s, k)[j] = s[j + 1]
         /\ ToSet(RemoveAt(s, k)) \subseteq ToSet(s)
         /\ \A x \in ToSet(s) : x # h => x \in ToSet(RemoveAt(s, k))
    <2>1. /\ RemoveAt(s, k) \in Seq(Handle)
          /\ Len(RemoveAt(s, k)) = Len(s) - 1
          /\ \A j \in k..(Len(s) - 1) : RemoveAt(s, k)[j] = s[j + 1]
          /\ ToSet(RemoveAt(s, k)) \subseteq ToSet(s)
          /\ \A x \in ToSet(s) : x # s[k] => x \in ToSet(RemoveAt(s, k))
      <3>1. s \in Seq(Handle) /\ k \in 1..Len(s)
        BY <1>3, <1>11
      <3> HIDE DEF s
      <3> QED
        BY <3>1, RemoveAtFacts
    <2> QED
      BY <1>11, <2>1
  <1>13. /\ DOMAIN inFlight' = DOMAIN inFlight
         /\ inFlight' = [u \in DOMAIN inFlight' |-> inFlight'[u]]
         /\ \A u \in DOMAIN inFlight : u # t => inFlight'[u] = inFlight[u]
         /\ inFlight'[t] = IF h \in open THEN s ELSE RemoveAt(s, k)
    BY <1>1, <1>3 DEF PoolInv, PoolTyped, k
  <1>14. /\ chan' \in [Handle -> Seq(Status)]
         /\ \A g \in Handle : Len(chan'[g]) <= ChanCap
         /\ \A g \in Handle : ToSet(chan[g]) \subseteq ToSet(chan'[g])
         /\ h \in open => worker[w].status \in ToSet(chan'[h])
    <2>1. chan \in [Handle -> Seq(Status)] /\ \A g \in Handle : Len(chan[g]) <= ChanCap
      BY DEF PoolInv, PoolTyped, QueuesBounded
    <2>2. CASE h \in open
      <3> DEFINE c == Append(chan[h], worker[w].status)
      <3>1. c \in Seq(Status) /\ Len(c) = Len(chan[h]) + 1 /\ ToSet(c) = ToSet(chan[h]) \cup {worker[w].status}
        BY <1>5, <1>6, <2>1, ToSetAppend
      <3>2. Len(c) <= ChanCap
        <4>1. chan[h] \in Seq(Status) /\ Len(chan[h]) \in Nat
          BY <1>6, <2>1, LenProperties
        <4>2. ChanCap \in Nat /\ Len(chan[h]) < ChanCap
          BY <1>1, <2>2, PoolAssumption
        <4> QED
          BY <3>1, <4>1, <4>2
      <3>3. chan' = [chan EXCEPT ![h] = c]
        BY <1>1, <2>2
      <3> HIDE DEF c
      <3>4. chan'[h] = c /\ \A g \in Handle : g # h => chan'[g] = chan[g]
        BY <1>6, <2>1, <3>3
      <3> QED
        BY <1>6, <2>1, <3>1, <3>2, <3>3, <3>4
    <2>3. CASE h \notin open
      BY <1>1, <2>1, <2>3
    <2> QED
      BY <2>2, <2>3
  <1>15. PoolTyped' /\ QueuesBounded'
    <2>1. UiOK'
      BY <1>1 DEF PoolInv, PoolTyped, UiOK
    <2>2. \A u \in DOMAIN inFlight' : inFlight'[u] \in Seq(Handle)
      BY <1>3, <1>12, <1>13 DEF PoolInv, PoolTyped
    <2> QED
      BY <1>1, <1>10, <1>13, <1>14, <2>1, <2>2 DEF PoolInv, PoolTyped, QueuesBounded
  <1>16. LockDiscipline'
    <2>1. /\ Len(Tail(d)) <= Len(inFlight'[t])
          /\ \A i \in 1..Len(Tail(d)) :
                Tail(d)[i] = inFlight'[t][Len(inFlight'[t]) - Len(Tail(d)) + i]
      <3> DEFINE n == Len(s)
                 m == Len(d)
      <3>1. n \in Nat /\ m \in Nat \ {0} /\ m <= n /\ k = n - m + 1
        BY <1>4, <1>6, <1>11
      <3>a. \A i \in 1..(m - 1) : i + 1 \in 1..m
        <4> HIDE DEF n, m
        <4> QED
          BY <3>1
      <3>2. \A i \in 1..(m - 1) : Tail(d)[i] = s[n - m + (i + 1)]
        <4> SUFFICES ASSUME NEW i \in 1..(m - 1) PROVE Tail(d)[i] = s[n - m + (i + 1)]
          OBVIOUS
        <4>1. i + 1 \in 1..m
          BY <3>a
        <4> QED
          BY <1>4, <1>6, <4>1
      <3>3. CASE h \in open
        <4>1. inFlight'[t] = s
          BY <1>13, <3>3
        <4>2. m - 1 <= n /\ \A i \in 1..(m - 1) : n - m + (i + 1) = n - (m - 1) + i
          <5> HIDE DEF n, m
          <5> QED
            BY <3>1
        <4> QED
          BY <1>6, <3>2, <4>1, <4>2
      <3>4. CASE h \notin open
        <4>1. inFlight'[t] = RemoveAt(s, k)
          BY <1>13, <3>4
        <4>2. m - 1 <= n - 1
          <5> HIDE DEF n, m
          <5> QED
            BY <3>1
        <4>3. ASSUME NEW i \in 1..(m - 1)
              PROVE  Tail(d)[i] = RemoveAt(s, k)[(n - 1) - (m - 1) + i]
          <5>1. /\ (n - 1) - (m - 1) + i \in k..(n - 1)
                /\ ((n - 1) - (m - 1) + i) + 1 = n - m + (i + 1)
            <6>1. i \in 1..(m - 1)
              BY <4>3
            <6> HIDE DEF n, m
            <6> QED
              BY <3>1, <6>1
          <5> QED
            BY <1>12, <3>2, <5>1
        <4> QED
          BY <1>6, <1>12, <4>1, <4>2, <4>3
      <3> QED
        BY <3>3, <3>4
    <2>3. \A v \in Worker : worker'[v].pc \in Sending <=> lock' = v
      BY <1>1, <1>8, <1>10 DEF PoolInv, LockDiscipline
    <2>4. worker'[w].tool = t /\ worker'[w].todo = Tail(d)
      BY <1>8, <1>10
    <2> HIDE DEF t, d
    <2>5. IsEndOf(Tail(d), inFlight'[t])
      BY <2>1 DEF IsEndOf
    <2> QED
      BY <1>1, <2>3, <2>4, <2>5 DEF LockDiscipline
  <1>17. OneJobPerTool'
    <2>1. \A v \in Worker : worker'[v].tool = worker[v].tool
      BY <1>8, <1>10
    <2> QED
      BY <1>1, <1>13, <2>1 DEF PoolInv, OneJobPerTool, Enqueueing, InQueue, AtWork
  <1>18. \A u \in DOMAIN inFlight : \A x \in open : x \in ToSet(inFlight[u]) => x \in ToSet(inFlight'[u])
    BY <1>12, <1>13 DEF Senders
  <1>19. HandlesAreDistinct'
    <2>1. ui.pc = "send" => ui.tool \in DOMAIN inFlight /\ ui.handle \in open
      BY DEF PoolInv, PoolTyped, UiOK, OneJobPerTool, Enqueueing
    <2>2. ui.pc = "send" => ui.handle \in ToSet(inFlight'[ui.tool])
      BY <1>18, <2>1 DEF PoolInv, HandlesAreDistinct, Senders
    <2> QED
      BY <1>1, <2>2 DEF PoolInv, HandlesAreDistinct, Senders
  <1>20. \A g \in Handle : Told(g) => Told(g)'
    BY <1>14 DEF Told
  <1>21. FinishTellsAll'
    <2> SUFFICES ASSUME NEW v \in Worker, worker'[v].pc = "finish",
                        NEW x \in ToSet(inFlight'[worker'[v].tool]), x \in open
                 PROVE  x \in ToSet(worker'[v].todo) \/ Told(x)'
      BY <1>1 DEF FinishTellsAll, Senders
    <2>1. v = w
      BY <1>1, <1>16 DEF LockDiscipline, Sending
    <2>2. x \in ToSet(s) /\ x \in Handle
      <3>1. x \in ToSet(inFlight'[t])
        BY <1>8, <1>10, <2>1
      <3> QED
        BY <1>12, <1>13, <3>1 DEF PoolInv, PoolTyped
    <2>3. worker[w].pc = "finish" /\ worker[w].status \in Terminal
      BY <1>2, <1>8, <1>10, <2>1 DEF WorkerOK
    <2>4. x \in ToSet(d) \/ Told(x)
      BY <2>2, <2>3 DEF PoolInv, FinishTellsAll, Senders
    <2>5. CASE Told(x)
      BY <1>20, <2>2, <2>5
    <2>6. CASE x = h
      BY <1>14, <2>3, <2>6 DEF Told
    <2>7. CASE x \in ToSet(Tail(d))
      BY <1>8, <1>10, <2>1, <2>7
    <2> QED
      BY <1>6, <2>4, <2>5, <2>6, <2>7
  <1>22. NoHandleOrphaned'
    <2> SUFFICES ASSUME NEW u \in Tool, handles[u] # NoHandle
                 PROVE  Told(handles[u])' \/ (u \in DOMAIN inFlight' /\ handles[u] \in ToSet(inFlight'[u]))
      BY <1>1 DEF NoHandleOrphaned, Resolved, Told, Senders
    <2>1. handles[u] \in open /\ handles[u] \in Handle
      BY DEF PoolInv, PoolTyped
    <2>2. Told(handles[u]) \/ (u \in DOMAIN inFlight /\ handles[u] \in ToSet(inFlight[u]))
      BY DEF PoolInv, NoHandleOrphaned, Resolved, Told, Senders
    <2>3. Told(handles[u]) => Told(handles[u])'
      BY <1>1, <1>14, <2>1 DEF Told
    <2> QED
      BY <1>13, <1>18, <2>1, <2>2, <2>3
  <1> QED
    BY <1>15, <1>16, <1>17, <1>19, <1>21, <1>22 DEF PoolInv

\* broadcast returns: the entry stays.
LEMMA ReturnKeeps ==
    ASSUME PoolInv, NEW w \in Worker, NEW p \in {"run", "installed"},
           lock = w, lock' = "free",
           worker[w].pc \in {"broadcast", "reportDone"},
           worker' = [worker EXCEPT ![w].pc = p],
           UNCHANGED <<inFlight, jobs, chan, open, handles, ui>>
    PROVE  PoolInv'
  <1> DEFINE r == [pc |-> p, tool |-> worker[w].tool, left |-> worker[w].left,
                   todo |-> worker[w].todo, status |-> worker[w].status]
  <1>1. WorkerOK(worker[w])
    BY DEF PoolInv, PoolTyped
  <1>2. worker' = [worker EXCEPT ![w] = r]
    BY <1>1, NextRecord DEF WorkerOK
  <1>3. r.pc = p /\ r.tool = worker[w].tool /\ WorkerOK(r)
    BY <1>1 DEF WorkerOK
  <1> HIDE DEF r
  <1>4. /\ worker' = [v \in Worker |-> worker'[v]] /\ worker'[w] = r
        /\ \A v \in Worker : v # w => worker'[v] = worker[v]
        /\ \A v \in Worker : WorkerOK(worker'[v])
    BY <1>2, <1>3, OneWorker
  <1>5. PoolTyped' /\ QueuesBounded'
    <2>1. UiOK'
      BY DEF PoolInv, PoolTyped, UiOK
    <2> QED
      BY <1>4, <2>1 DEF PoolInv, PoolTyped, QueuesBounded
  <1>6. \A v \in Worker : worker'[v].pc \notin Sending /\ lock' # v
    BY <1>3, <1>4, PoolAssumption DEF PoolInv, LockDiscipline, Sending
  <1>7. LockDiscipline' /\ FinishTellsAll'
    BY <1>6 DEF LockDiscipline, FinishTellsAll, Sending
  <1>8. OneJobPerTool'
    <2>1. \A v \in Worker : worker'[v].tool = worker[v].tool
      BY <1>3, <1>4
    <2> QED
      BY <2>1 DEF PoolInv, OneJobPerTool, Enqueueing, InQueue, AtWork
  <1>9. HandlesAreDistinct' /\ NoHandleOrphaned'
    BY DEF PoolInv, HandlesAreDistinct, NoHandleOrphaned, Senders, Resolved
  <1> QED
    BY <1>5, <1>7, <1>8, <1>9 DEF PoolInv

\* finish_job returns: the entry goes, and everyone in it has been told.
LEMMA ForgetKeeps ==
    ASSUME PoolInv, NEW w \in Worker, lock = w, lock' = "free",
           worker[w].pc = "finish", worker[w].todo = <<>>,
           worker' = [worker EXCEPT ![w] = IdleWorker],
           inFlight' = [t \in DOMAIN inFlight \ {worker[w].tool} |-> inFlight[t]],
           UNCHANGED <<jobs, chan, open, handles, ui>>
    PROVE  PoolInv'
  <1> DEFINE t == worker[w].tool
  <1>1. t \in Tool /\ t \in DOMAIN inFlight
    BY BusyIsRegistered
  <1>2. /\ WorkerOK(IdleWorker) /\ IdleWorker.pc = "idle" /\ IdleWorker.tool = NoTool
    <2>1. <<>> \in Seq(Handle)
      OBVIOUS
    <2> QED
      BY <2>1, PoolAssumption DEF WorkerOK, IdleWorker, Status, Sending
  <1>3. /\ worker' = [v \in Worker |-> worker'[v]] /\ worker'[w] = IdleWorker
        /\ \A v \in Worker : v # w => worker'[v] = worker[v]
        /\ \A v \in Worker : WorkerOK(worker'[v])
    BY <1>2, OneWorker
  <1>4. /\ DOMAIN inFlight' = DOMAIN inFlight \ {t}
        /\ inFlight' = [u \in DOMAIN inFlight' |-> inFlight'[u]]
        /\ \A u \in DOMAIN inFlight' : inFlight'[u] = inFlight[u]
    OBVIOUS
  <1>5. PoolTyped' /\ QueuesBounded'
    <2>1. UiOK'
      BY DEF PoolInv, PoolTyped, UiOK
    <2>2. /\ DOMAIN inFlight' \subseteq Tool
          /\ \A u \in DOMAIN inFlight' : inFlight'[u] \in Seq(Handle)
      BY <1>4 DEF PoolInv, PoolTyped
    <2> QED
      BY <1>3, <1>4, <2>1, <2>2 DEF PoolInv, PoolTyped, QueuesBounded
  <1>6. \A v \in Worker : worker'[v].pc \notin Sending /\ lock' # v
    BY <1>2, <1>3, PoolAssumption DEF PoolInv, LockDiscipline, Sending
  <1>7. LockDiscipline' /\ FinishTellsAll'
    BY <1>6 DEF LockDiscipline, FinishTellsAll, Sending
  <1>8. AtWork(t) /\ ~InQueue(t) /\ ~Enqueueing(t)
    <2>1. AtWork(t)
      BY DEF AtWork
    <2> QED
      BY <1>1, <2>1 DEF PoolInv, OneJobPerTool
  <1>9. OneJobPerTool'
    <2>1. \A u \in Tool : /\ InQueue(u)' <=> InQueue(u)
                          /\ Enqueueing(u)' <=> Enqueueing(u)
      BY DEF InQueue, Enqueueing
    <2>2. \A u \in Tool : AtWork(u)' <=> AtWork(u) /\ u # t
      <3>1. \A v \in Worker : v # w => worker[v].tool # t
        BY <1>1, PoolAssumption DEF PoolInv, OneJobPerTool
      <3> QED
        BY <1>2, <1>3, <3>1, PoolAssumption DEF AtWork
    <2>3. \A u, v \in Worker : worker'[u].tool = worker'[v].tool /\ worker'[u].tool # NoTool => u = v
      BY <1>2, <1>3 DEF PoolInv, OneJobPerTool
    <2>4. \A u \in Tool : /\ ~(InQueue(u)' /\ AtWork(u)')
                          /\ Enqueueing(u)' => ~InQueue(u)' /\ ~AtWork(u)'
                          /\ u \in DOMAIN inFlight' <=> Enqueueing(u)' \/ InQueue(u)' \/ AtWork(u)'
      BY <1>4, <1>8, <2>1, <2>2 DEF PoolInv, OneJobPerTool
    <2> QED
      BY <2>3, <2>4 DEF PoolInv, OneJobPerTool
  <1>10. HandlesAreDistinct'
    <2>1. ui.pc = "send" => ui.tool \in DOMAIN inFlight'
      <3> SUFFICES ASSUME ui.pc = "send" PROVE ui.tool \in DOMAIN inFlight'
        OBVIOUS
      <3>1. ui.tool \in Tool
        BY DEF PoolInv, PoolTyped, UiOK
      <3>2. Enqueueing(ui.tool)
        BY DEF Enqueueing
      <3> QED
        BY <1>4, <1>8, <3>1, <3>2 DEF PoolInv, OneJobPerTool
    <2> QED
      BY <1>4, <2>1 DEF PoolInv, HandlesAreDistinct, Senders
  <1>11. NoHandleOrphaned'
    <2> SUFFICES ASSUME NEW u \in Tool, handles[u] # NoHandle
                 PROVE  Resolved(u) \/ (u \in DOMAIN inFlight' /\ handles[u] \in ToSet(inFlight'[u]))
      BY DEF NoHandleOrphaned, Resolved, Senders
    <2>1. Resolved(u) \/ (u \in DOMAIN inFlight /\ handles[u] \in ToSet(inFlight[u]))
      BY DEF PoolInv, NoHandleOrphaned, Senders
    <2>2. ASSUME u = t, handles[u] \in ToSet(inFlight[u]) PROVE Resolved(u)
      <3>1. handles[u] \in open
        BY DEF PoolInv, PoolTyped
      <3>2. handles[u] \in ToSet(worker[w].todo) \/ Told(handles[u])
        BY <2>2, <3>1 DEF PoolInv, FinishTellsAll, Senders
      <3>3. ToSet(worker[w].todo) = {}
        BY DEF ToSet
      <3> QED
        BY <3>2, <3>3 DEF Resolved, Told
    <2> QED
      BY <1>4, <2>1, <2>2
  <1> QED
    BY <1>5, <1>7, <1>9, <1>10, <1>11 DEF PoolInv

LEMMA UnlockKeeps ==
    ASSUME PoolInv, NEW w \in Worker, Unlock(w) PROVE PoolInv'
  <1>1. /\ lock = w /\ lock' = "free" /\ worker[w].todo = <<>>
        /\ UNCHANGED <<jobs, chan, open, handles, ui>>
    BY DEF Unlock
  <1>2. worker[w].pc \in Sending
    BY <1>1 DEF PoolInv, LockDiscipline
  <1>3. CASE worker[w].pc = "broadcast"
    BY <1>1, <1>3, ReturnKeeps DEF Unlock
  <1>4. CASE worker[w].pc = "reportDone"
    BY <1>1, <1>4, ReturnKeeps DEF Unlock
  <1>5. CASE worker[w].pc = "finish"
    BY <1>1, <1>5, ForgetKeeps DEF Unlock
  <1> QED
    BY <1>2, <1>3, <1>4, <1>5 DEF Sending

-----------------------------------------------------------------------------
LEMMA PoolInvNext == PoolInv /\ [PoolNext]_poolVars => PoolInv'
  <1> SUFFICES ASSUME PoolInv, [PoolNext]_poolVars PROVE PoolInv'
    OBVIOUS
  <1>1. CASE OtherInput
    BY <1>1, OtherInputKeeps
  <1>2. CASE \E t \in Tool, h \in Handle : CallInstall(t, h)
    BY <1>2, CallInstallKeeps
  <1>3. CASE Subscribe
    BY <1>3, SubscribeKeeps
  <1>4. CASE Register
    BY <1>4, RegisterKeeps
  <1>5. CASE Enqueue
    BY <1>5, EnqueueKeeps
  <1>6. CASE Poll
    BY <1>6, PollKeeps
  <1>7. ASSUME NEW w \in Worker, WorkerStep(w) PROVE PoolInv'
    BY <1>7, TakeJobKeeps, StartSendingKeeps, SendStatusKeeps, UnlockKeeps DEF WorkerStep
  <1>8. CASE UNCHANGED poolVars
    <2>1. PoolTyped' /\ QueuesBounded'
      BY <1>8 DEF PoolInv, poolVars, PoolTyped, UiOK, WorkerOK, QueuesBounded
    <2>2. LockDiscipline' /\ HandlesAreDistinct'
      BY <1>8 DEF PoolInv, poolVars, LockDiscipline, IsEndOf, HandlesAreDistinct, Senders
    <2>3. OneJobPerTool'
      BY <1>8 DEF PoolInv, poolVars, OneJobPerTool, Enqueueing, InQueue, AtWork
    <2>4. FinishTellsAll' /\ NoHandleOrphaned'
      BY <1>8 DEF PoolInv, poolVars, FinishTellsAll, Told, NoHandleOrphaned, Senders, Resolved
    <2> QED
      BY <2>1, <2>2, <2>3, <2>4 DEF PoolInv
  <1> QED
    BY <1>1, <1>2, <1>3, <1>4, <1>5, <1>6, <1>7, <1>8 DEF PoolNext

(***************************************************************************)
(* The inductive invariant of the pool: types, bounded queues, the mutex's *)
(* discipline, one place per job, distinct handles, and a finish_job that  *)
(* leaves nobody behind.                                                   *)
(***************************************************************************)
THEOREM PoolInvariant == PoolSpec => []PoolInv
  BY PoolInvInit, PoolInvNext, PTL DEF PoolSpec

(***************************************************************************)
(* Types and capacities: bounded(64) for jobs, bounded(128) per channel,   *)
(* and only live receivers are polled.                                     *)
(***************************************************************************)
THEOREM PoolTypes == PoolSpec => []PoolTypeOK
  <1>1. PoolInv => PoolTypeOK
    BY DEF PoolInv, PoolTyped, QueuesBounded, UiOK, WorkerOK, PoolTypeOK, Sending
  <1> QED
    BY <1>1, PoolInvariant, PTL

(***************************************************************************)
(* install and worker_loop: a tool in flight has exactly one job, being    *)
(* sent, queued or run, and a tool not in flight has none.                 *)
(***************************************************************************)
THEOREM PoolDedup == PoolSpec => []DedupExact
  <1>1. ASSUME PoolInv PROVE DedupExact
    <2> SUFFICES ASSUME NEW t \in Tool
                 PROVE  JobsOf(t) = IF t \in DOMAIN inFlight THEN 1 ELSE 0
      BY DEF DedupExact
    <2> DEFINE Q == {i \in DOMAIN jobs : jobs[i] = t}
               W == {w \in Worker : worker[w].tool = t}
    <2>1. /\ t \in DOMAIN inFlight <=> Enqueueing(t) \/ InQueue(t) \/ AtWork(t)
          /\ ~(InQueue(t) /\ AtWork(t))
          /\ Enqueueing(t) => ~InQueue(t) /\ ~AtWork(t)
      BY <1>1 DEF PoolInv, OneJobPerTool
    <2>2. Cardinality(Q) = IF InQueue(t) THEN 1 ELSE 0
      <3>1. CASE InQueue(t)
        <4>1. PICK i \in DOMAIN jobs : jobs[i] = t
          BY <3>1 DEF InQueue
        <4>2. Q = {i}
          BY <1>1, <4>1 DEF PoolInv, OneJobPerTool
        <4> QED
          BY <3>1, <4>2, FS_Singleton
      <3>2. CASE ~InQueue(t)
        <4>1. Q = {}
          BY <3>2 DEF InQueue
        <4> QED
          BY <3>2, <4>1, FS_EmptySet
      <3> QED
        BY <3>1, <3>2
    <2>3. Cardinality(W) = IF AtWork(t) THEN 1 ELSE 0
      <3>1. CASE AtWork(t)
        <4>1. PICK w \in Worker : worker[w].tool = t
          BY <3>1 DEF AtWork
        <4>2. W = {w}
          BY <1>1, <4>1, PoolAssumption DEF PoolInv, OneJobPerTool
        <4> QED
          BY <3>1, <4>2, FS_Singleton
      <3>2. CASE ~AtWork(t)
        <4>1. W = {}
          BY <3>2 DEF AtWork
        <4> QED
          BY <3>2, <4>1, FS_EmptySet
      <3> QED
        BY <3>1, <3>2
    <2>4. JobsOf(t) = Cardinality(Q) + Cardinality(W) + (IF Enqueueing(t) THEN 1 ELSE 0)
      BY DEF JobsOf, Enqueueing
    <2> HIDE DEF Q, W
    <2> QED
      BY <2>1, <2>2, <2>3, <2>4
  <1> QED
    BY <1>1, PoolInvariant, PTL

(***************************************************************************)
(* finish_job and poll_anvil_jobs: a handle the editor polls is subscribed *)
(* to the job of its tool, or has its terminal status.                     *)
(***************************************************************************)
THEOREM PoolNoOrphans == PoolSpec => []NoHandleOrphaned
  <1>1. PoolInv => NoHandleOrphaned
    BY DEF PoolInv
  <1> QED
    BY <1>1, PoolInvariant, PTL
=============================================================================
