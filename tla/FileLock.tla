------------------------------ MODULE FileLock ------------------------------
(***************************************************************************)
(* hjkl-fs::lock: the lock every hjkl process takes around a swap file, an *)
(* undofile, the file-state index or an install directory.                 *)
(*                                                                         *)
(* Two layers guard one sidecar path.  Inside a process, a map under a     *)
(* mutex records which thread claims the path and how often (wait_set,     *)
(* Holder); threads that find it claimed sleep on one condition variable.  *)
(* Between processes, the thread that claimed the path opens the sidecar   *)
(* and takes an OS lock on that handle.  A re-entrant acquisition only     *)
(* counts up: its guard owns no handle.                                    *)
(*                                                                         *)
(* Guards are scoped (with_lock_exclusive, with_lock_shared), so a thread  *)
(* drops them last-in first-out; and no caller asks for an exclusive lock  *)
(* inside its own shared one (the code asserts it in debug builds).        *)
(***************************************************************************)
EXTENDS Naturals, Sequences

CONSTANTS
    Proc,       \* the running hjkl processes
    Thread,     \* the threads of each process
    MaxNest,    \* bound: how deep one thread nests acquisitions
    MaxCalls,   \* bound: MaxCalls[a] acquisitions are attempted by thread a
    MaxCrashes  \* bound: how many times a process dies

VARIABLES
    holder,  \* holder[p]: the path's entry in p's wait set, or NoHolder
    os,      \* os[a]: the mode of the OS lock on the handle a has open
    guards,  \* guards[a]: modes of a's live guards, outermost first
    pc,      \* pc[a]: where a is inside lock_* or Drop
    want,    \* want[a]: the mode a's call in progress asked for
    calls,   \* calls[a]: acquisitions a has attempted
    crashes  \* processes that have died so far

lockVars == <<holder, os, guards, pc, want, calls, crashes>>

Mode == {"shared", "exclusive"}
Actor == Proc \X Thread

ASSUME LockBounds ==
    /\ MaxNest \in Nat \ {0}
    /\ MaxCalls \in [Actor -> Nat]
    /\ MaxCrashes \in Nat

\* The threads of a's process.
Peers(a) == {b \in Actor : b[1] = a[1]}

\* "run": in the caller's code.  "asleep": in cv.wait.  "woken": notified, not
\* yet looked at the map again.  "open", "lock": the path is claimed, the
\* sidecar is about to be opened, locked.  "notify": the claim is gone, the
\* waiters are not woken yet.  "unlock": they are, the OS lock is still held.
Phase == {"run", "asleep", "woken", "open", "lock", "notify", "unlock"}

NoHolder == [thread |-> "none", depth |-> 0, exclusive |-> FALSE]
Holder == [thread : Thread, depth : Nat \ {0}, exclusive : BOOLEAN]

LockInit ==
    /\ holder = [p \in Proc |-> NoHolder]
    /\ os = [a \in Actor |-> "none"]
    /\ guards = [a \in Actor |-> <<>>]
    /\ pc = [a \in Actor |-> "run"]
    /\ want = [a \in Actor |-> "shared"]
    /\ calls = [a \in Actor |-> 0]
    /\ crashes = 0

-----------------------------------------------------------------------------
(***************************************************************************)
(* acquire_in_process.  A caller arrives from "run"; a waiter comes back   *)
(* round the loop from "woken".                                            *)
(***************************************************************************)
Call(a) ==
    /\ pc[a] = "run"
    /\ calls[a] < MaxCalls[a]
    /\ calls' = [calls EXCEPT ![a] = @ + 1]

Arrives(a, m) ==
    \/ /\ Call(a)
       /\ guards[a] = <<>>
    \/ /\ pc[a] = "woken"
       /\ m = want[a]
       /\ UNCHANGED calls

Claimed(p) == holder[p] /= NoHolder

\* None: the path is free in this process, and becomes this thread's.
ClaimFree(a, m) ==
    /\ Arrives(a, m)
    /\ ~Claimed(a[1])
    /\ holder' = [holder EXCEPT ![a[1]] =
                    [thread |-> a[2], depth |-> 1, exclusive |-> m = "exclusive"]]
    /\ pc' = [pc EXCEPT ![a] = "open"]
    /\ want' = [want EXCEPT ![a] = m]
    /\ UNCHANGED <<os, guards, crashes>>

\* Some(_): another thread of this process holds it.
Wait(a, m) ==
    /\ Arrives(a, m)
    /\ Claimed(a[1])
    /\ holder[a[1]].thread /= a[2]
    /\ pc' = [pc EXCEPT ![a] = "asleep"]
    /\ want' = [want EXCEPT ![a] = m]
    /\ UNCHANGED <<holder, os, guards, crashes>>

\* Mutant: a nested exclusive acquisition converts the OS lock of its reader.
ClaimConverting(a, m) ==
    /\ Call(a)
    /\ guards[a] /= <<>>
    /\ Len(guards[a]) < MaxNest
    /\ holder[a[1]].thread = a[2]
    /\ holder' = [holder EXCEPT ![a[1]] = [@ EXCEPT !.depth = @ + 1,
                                                   !.exclusive = @ \/ m = "exclusive"]]
    /\ os' = [os EXCEPT ![a] = IF m = "exclusive" THEN m ELSE @]
    /\ guards' = [guards EXCEPT ![a] = [i \in 1 .. Len(@) + 1 |-> os'[a]]]
    /\ UNCHANGED <<pc, want, crashes>>

\* Some(h) if h.thread == me: a nested acquisition, covered by the outer one.
ClaimAgain(a, m) ==
    /\ Call(a)
    /\ guards[a] /= <<>>
    /\ Len(guards[a]) < MaxNest
    /\ Claimed(a[1])
    /\ holder[a[1]].thread = a[2]
    /\ holder[a[1]].exclusive \/ m = "shared"
    /\ holder' = [holder EXCEPT ![a[1]].depth = @ + 1]
    /\ guards' = [guards EXCEPT ![a] = Append(@, m)]
    /\ UNCHANGED <<os, pc, want, crashes>>

-----------------------------------------------------------------------------
(***************************************************************************)
(* release_in_process: one level less, and the entry goes with the last.   *)
(***************************************************************************)
\* Mutant: any guard's drop releases the whole nest.
ReleasedAtOnce(h) == TRUE

FullyReleased(h) == h.depth - 1 = 0

Released(h) == IF FullyReleased(h) THEN NoHolder ELSE [h EXCEPT !.depth = @ - 1]

Release(a) ==
    /\ holder' = [holder EXCEPT ![a[1]] = Released(@)]
    /\ pc' = [pc EXCEPT ![a] = IF FullyReleased(holder[a[1]]) THEN "notify" ELSE "run"]

\* Mutant: the notify moves to FileLock::drop: a failed acquisition wakes nobody.
WakeOnDrop(a) ==
    [b \in Actor |->
        IF b = a THEN IF os[a] = "none" THEN "run" ELSE "unlock"
        ELSE IF b \in Peers(a) /\ pc[b] = "asleep" /\ os[a] /= "none" THEN "woken"
        ELSE pc[b]]

\* cv.notify_all, once the mutex is dropped.  A guard that owned the handle
\* goes on to unlock it; a failed acquisition returns its error.
WakeAll(a) ==
    [b \in Actor |->
        IF b = a THEN IF os[a] = "none" THEN "run" ELSE "unlock"
        ELSE IF b \in Peers(a) /\ pc[b] = "asleep" THEN "woken" ELSE pc[b]]

Notify(a) ==
    /\ pc[a] = "notify"
    /\ pc' = WakeAll(a)
    /\ UNCHANGED <<holder, os, guards, want, calls, crashes>>

\* A condition variable may also wake a sleeper for no reason.
SpuriousWake(a) ==
    /\ pc[a] = "asleep"
    /\ pc' = [pc EXCEPT ![a] = "woken"]
    /\ UNCHANGED <<holder, os, guards, want, calls, crashes>>

-----------------------------------------------------------------------------
(***************************************************************************)
(* lock_exclusive and lock_shared, past the claim.  Every early return     *)
(* releases the claim.                                                     *)
(***************************************************************************)
OpenLockFile(a) ==
    /\ pc[a] = "open"
    /\ pc' = [pc EXCEPT ![a] = "lock"]
    /\ UNCHANGED <<holder, os, guards, want, calls, crashes>>

\* open_lock_file or file.lock() returns an error.
AcquireFails(a) ==
    /\ pc[a] \in {"open", "lock"}
    /\ Release(a)
    /\ UNCHANGED <<os, guards, want, calls, crashes>>

\* Mutant: the sidecar's name carries the pid, so no two processes share one.
CompatibleInProcess(a, m) ==
    \A b \in Peers(a) \ {a} : os[b] = "none" \/ (os[b] = "shared" /\ m = "shared")

\* flock is per open handle: it ignores which process the other handles are in.
Compatible(a, m) ==
    \A b \in Actor \ {a} : os[b] = "none" \/ (os[b] = "shared" /\ m = "shared")

OsLock(a) ==
    /\ pc[a] = "lock"
    /\ Compatible(a, want[a])
    /\ os' = [os EXCEPT ![a] = want[a]]
    /\ guards' = [guards EXCEPT ![a] = <<want[a]>>]
    /\ pc' = [pc EXCEPT ![a] = "run"]
    /\ UNCHANGED <<holder, want, calls, crashes>>

-----------------------------------------------------------------------------
(***************************************************************************)
(* FileLock::drop: the in-process level first, the OS lock after it.       *)
(***************************************************************************)
DropGuard(a) ==
    /\ pc[a] = "run"
    /\ guards[a] /= <<>>
    /\ guards' = [guards EXCEPT ![a] = SubSeq(@, 1, Len(@) - 1)]
    /\ Release(a)
    /\ UNCHANGED <<os, want, calls, crashes>>

\* Mutant: the handle is forgotten instead of unlocked.
LeakHandle(a) ==
    /\ pc[a] = "unlock"
    /\ pc' = [pc EXCEPT ![a] = "run"]
    /\ UNCHANGED <<holder, os, guards, want, calls, crashes>>

Unlock(a) ==
    /\ pc[a] = "unlock"
    /\ os' = [os EXCEPT ![a] = "none"]
    /\ pc' = [pc EXCEPT ![a] = "run"]
    /\ UNCHANGED <<holder, guards, want, calls, crashes>>

\* A process dies: its memory goes, and the OS drops the locks on its handles.
\* The same slot then stands for the process the user starts next.
Crash(p) ==
    /\ crashes < MaxCrashes
    /\ crashes' = crashes + 1
    /\ holder' = [holder EXCEPT ![p] = NoHolder]
    /\ os' = [a \in Actor |-> IF a[1] = p THEN "none" ELSE os[a]]
    /\ guards' = [a \in Actor |-> IF a[1] = p THEN <<>> ELSE guards[a]]
    /\ pc' = [a \in Actor |-> IF a[1] = p THEN "run" ELSE pc[a]]
    /\ UNCHANGED <<want, calls>>

LockNext ==
    \/ \E a \in Actor, m \in Mode : ClaimFree(a, m) \/ Wait(a, m) \/ ClaimAgain(a, m)
    \/ \E a \in Actor :
          \/ OpenLockFile(a) \/ AcquireFails(a) \/ OsLock(a)
          \/ DropGuard(a) \/ Notify(a) \/ Unlock(a) \/ SpuriousWake(a)
    \/ \E p \in Proc : Crash(p)

LockSpec == LockInit /\ [][LockNext]_lockVars

\* A thread goes on with what it has begun: it looks at the map when woken, opens
\* the sidecar, is given the OS lock when that is free for good, ends the body
\* and unwinds the guard.  Nothing forces an error, a new call or a crash.
LockProgress(a) ==
    \/ pc[a] = "woken" /\ \E m \in Mode : ClaimFree(a, m) \/ Wait(a, m)
    \/ OpenLockFile(a)
    \/ OsLock(a)
    \/ DropGuard(a)
    \/ Notify(a)
    \/ Unlock(a)

LockFairSpec == LockSpec /\ \A a \in Actor : WF_lockVars(LockProgress(a))

-----------------------------------------------------------------------------
(***************************************************************************)
(* Properties.                                                             *)
(***************************************************************************)
\* The wait set holds no entry at depth 0: an entry is a live claim, or is gone.
LockTypeOK ==
    /\ holder \in [Proc -> Holder \cup {NoHolder}]
    /\ os \in [Actor -> Mode \cup {"none"}]
    /\ guards \in [Actor -> Seq(Mode)]
    /\ pc \in [Actor -> Phase]
    /\ want \in [Actor -> Mode]
    /\ calls \in [Actor -> Nat]
    /\ crashes \in Nat

Holds(a) == guards[a] /= <<>>

\* Two threads that hold guards on the path at once are in different processes,
\* and both of them are readers: what lock_exclusive promises its caller against
\* every other thread, and lock_shared against every writer.
Exclusion ==
    \A a, b \in Actor :
        a /= b /\ Holds(a) /\ Holds(b) =>
            /\ a[1] /= b[1]
            /\ guards[a][1] = "shared"
            /\ guards[b][1] = "shared"

\* A nest is covered until its outermost guard is dropped: the thread keeps the
\* claim at the nest's depth and the handle's OS lock, and an exclusive guard at
\* any depth is under an exclusive OS lock.
NestIsCovered ==
    \A a \in Actor : Holds(a) =>
        /\ Claimed(a[1])
        /\ holder[a[1]].thread = a[2]
        /\ holder[a[1]].depth = Len(guards[a])
        /\ os[a] = guards[a][1]
        /\ (\E i \in DOMAIN guards[a] : guards[a][i] = "exclusive") => os[a] = "exclusive"

\* No wake-up is lost: while a thread sleeps on the path, some thread of its
\* process holds it, is acquiring it, or is about to notify, and so will run the
\* notify_all that wakes the sleeper.  release_in_process notifies only after it
\* has dropped the mutex, and a failed acquisition releases like a drop does.
SleeperHasWaker ==
    \A a \in Actor : pc[a] = "asleep" =>
        \E b \in Peers(a) : Holds(b) \/ pc[b] \in {"open", "lock", "notify"}

\* Every acquisition ends, with the lock or with an error, whatever fails and
\* whichever processes die: no thread is left asleep or blocked in file.lock().
Acquires ==
    \A a \in Actor :
        pc[a] \in {"asleep", "woken", "open", "lock"} ~> pc[a] = "run"

\* The two layers implement one readers-writer lock: a thread holds the path in
\* the mode of its outermost guard, and nested guards change nothing.
Granted == [a \in Actor |-> IF Holds(a) THEN guards[a][1] ELSE "none"]

Promise == INSTANCE PathLock WITH held <- Granted

ImplementsPathLock == Promise!PathSpec
=============================================================================
