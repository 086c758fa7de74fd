------------------------------ MODULE SwapFiles ------------------------------
(***************************************************************************)
(* Swap files (hjkl-app::swap and its use in apps/hjkl/src/app): the crash *)
(* copy of an unsaved buffer, which is also the lock that tells a second   *)
(* hjkl that a file is open.                                               *)
(*                                                                         *)
(* Every process opens at most one file by name (slot 1) and holds the     *)
(* unnamed buffers it recovered from dead processes in further slots.  A   *)
(* swap has one name: the file's, or that of the unnamed buffer (pid and   *)
(* slot).  Each read, write and removal of a swap is one step under the    *)
(* exclusive lock of its name; check_recovery holds the lock across its    *)
(* read and its decision, which are two steps here.  A process can die     *)
(* between any two steps, and its pid can be given to a later one.         *)
(***************************************************************************)
EXTENDS Naturals, FiniteSets

CONSTANTS
    Pid, File,
    NoName,    \* no file name, or no swap path
    MaxSlots,  \* bound: the buffers of a process
    MaxStarts, \* bound: the processes that start
    MaxText,   \* bound: texts are numbered in the order they were typed
    MaxClock   \* bound: milliseconds that tell two writes apart

ASSUME SwapBounds ==
    /\ IsFiniteSet(Pid)
    /\ NoName \notin File \cup Pid \cup (Pid \X (1..MaxSlots))
    /\ File \cap (Pid \X (1..MaxSlots)) = {}
    /\ {MaxSlots, MaxStarts} \subseteq Nat \ {0}
    /\ MaxText \in Nat \ {0, 1}
    /\ MaxClock \in Nat

VARIABLES
    disk,     \* disk[f]: the file, its text and its mtime
    swaps,    \* swaps[n]: the swap file of that name
    pc,       \* pc[p]: where a process is
    slot,     \* slot[p][i]: its buffers
    off,      \* off[p]: -n, no swap files in this session
    up,       \* up[p]: the event loop has started
    force,    \* force[p]: the check under way comes from :recover
    seen,     \* seen[p]: the swap check_recovery_locked has read
    pending,  \* pending[p]: the body of the recovery prompt
    cand,     \* cand[p]: orphans the scan found and not yet looked at
    at,       \* at[p]: the slot that is being saved
    clock,
    typed,    \* the last text that was typed
    starts,   \* the processes that have started
    shared    \* history: the files that two buffers wrote, they or their swap

procVars == <<off, up, force, seen, pending, cand, at>>
vars == <<disk, swaps, pc, slot, procVars, clock, typed, starts, shared>>

Index == 1..MaxSlots
Names == File \cup (Pid \X Index)
Text == 0..MaxText  \* 0 is the empty buffer
Blank == 0
NoBody == MaxText + 1

\* A swap file that does not exist has no writer.
NoWriter == [text |-> Blank, time |-> 0, pid |-> NoName, of |-> NoName]

Closed == [open |-> FALSE, file |-> NoName, swap |-> NoName, text |-> Blank,
           dirty |-> FALSE, synced |-> FALSE, ro |-> FALSE]

\* build_slot: a named slot knows its swap's name from the start.
Fresh(f) == [Closed EXCEPT !.open = TRUE, !.file = f, !.swap = f,
                           !.text = IF f = NoName THEN Blank ELSE disk[f].text]

Exists(n) == swaps[n] # NoWriter

\* pid_is_alive
Alive(p) == p # NoName /\ pc[p] # "dead"

\* Mutant: nobody waits for the lock.
NoLock(n, p) == TRUE

\* The lock of n is free for p; every other holder gives it back within a step.
Free(n, p) == \A q \in Pid \ {p} : ~(pc[q] = "decide" /\ slot[q][1].swap = n)

\* A process has died with an unnamed buffer and perhaps with a file open.
Init ==
    /\ disk = [f \in File |-> [text |-> 1, mtime |-> 0]]
    /\ \E p \in Pid, f \in File \cup {NoName} :
         swaps = [n \in Names |->
            IF n \in {<<p, 1>>, f}
            THEN [text |-> IF n = f THEN 1 ELSE 2, time |-> 0, pid |-> p,
                  of |-> IF n = f THEN f ELSE NoName]
            ELSE NoWriter]
    /\ pc = [p \in Pid |-> "dead"]
    /\ slot = [p \in Pid |-> [i \in Index |-> Closed]]
    /\ off = [p \in Pid |-> FALSE]
    /\ up = [p \in Pid |-> FALSE]
    /\ force = [p \in Pid |-> FALSE]
    /\ seen = [p \in Pid |-> NoWriter]
    /\ pending = [p \in Pid |-> NoBody]
    /\ cand = [p \in Pid |-> {}]
    /\ at = [p \in Pid |-> 1]
    /\ clock = 0
    /\ typed = 2
    /\ starts = 0
    /\ shared = {}

\* The files in two buffers, both of them past the check and to write, or one of
\* them being saved; and those whose swap a buffer kept that has another file now.
Sharing == {f \in File :
    LET S(x) == slot'[x[1]][x[2]]
        Open == {x \in Pid \X Index : f \in {S(x).file, S(x).swap}}
        ToWrite == {x \in Open : /\ ~S(x).ro
                                 /\ pc'[x[1]] \notin {"check", "wait", "decide"}}
        Saving == {x \in Open : pc'[x[1]] = "saved" /\ at'[x[1]] = x[2] /\ S(x).file = f}
        Renamed == {x \in Open : S(x).swap = f /\ S(x).file \notin {f, NoName}}
    IN \/ Cardinality(ToWrite) > 1
       \/ Saving # {} /\ Cardinality(Open) > 1
       \/ Renamed # {}}

Track == shared' = shared \cup Sharing

----------------------------------------------------------------------------
(***************************************************************************)
(* Reading and writing one swap.                                           *)
(***************************************************************************)
\* The time of a write: that of the last one, or later.
Now == {t \in {clock, clock + 1} : t <= MaxClock}

Removed(n) == [swaps EXCEPT ![n] = NoWriter]

\* Where write_swap_for_slot puts slot i: an unnamed buffer that has no swap
\* yet is given the name of its process and slot.
Target(p, i) ==
    LET s == slot[p][i] IN
    IF s.swap = NoName /\ s.file = NoName THEN <<p, i>> ELSE s.swap

\* write_swap_for_slot, when it writes.
WriteSwap(p, i) ==
    LET n == Target(p, i) IN
    /\ n # NoName
    /\ Free(n, p)
    /\ clock' \in Now
    /\ swaps' = [swaps EXCEPT ![n] = [text |-> slot[p][i].text, time |-> clock',
                                      pid |-> p, of |-> slot[p][i].file]]
    /\ slot' = [slot EXCEPT ![p][i].swap = n, ![p][i].synced = TRUE]

\* slot_swap_pending, with the early returns of write_swap_for_slot.
SwapPending(p, i) ==
    LET s == slot[p][i] IN
    /\ s.open /\ ~off[p] /\ ~s.synced
    /\ s.file = NoName => s.text # Blank
    /\ s.file # NoName => s.swap # NoName

\* orphan_scratch_at: only the scan looks at names, this looks at the header.
Orphan(n) == Exists(n) /\ swaps[n].of = NoName /\ ~Alive(swaps[n].pid)

----------------------------------------------------------------------------
(***************************************************************************)
(* Opening a file: App::new and :e, check_recovery_on_open, and then the   *)
(* first swap, which is the lock.                                          *)
(***************************************************************************)
Goto(p, l) == pc' = [pc EXCEPT ![p] = l]

\* App::new goes on with the rest of main, :e with the event loop.
Opened(p) == IF up[p] THEN "run" ELSE "startup"

\* The prompt takes every key but <C-c>.
Attending(p) == pc[p] = "run" /\ pending[p] = NoBody

Start(p, f) ==
    /\ pc[p] = "dead"
    /\ starts < MaxStarts
    /\ starts' = starts + 1
    /\ slot' = [slot EXCEPT ![p][1] = Fresh(f)]
    /\ Goto(p, IF f = NoName THEN "startup" ELSE "check")
    /\ UNCHANGED <<disk, swaps, procVars, clock, typed>>
    /\ Track

\* :e over the pristine unnamed buffer, whose slot is dropped.
OpenFile(p, f) ==
    /\ Attending(p)
    /\ slot[p][1].open /\ slot[p][1].file = NoName /\ ~slot[p][1].dirty
    /\ slot' = [slot EXCEPT ![p][1] = Fresh(f)]
    /\ Goto(p, "check")
    /\ UNCHANGED <<disk, swaps, procVars, clock, typed, starts>>
    /\ Track

\* swap_path.exists(), asked before the lock is taken.
CheckExists(p) ==
    /\ pc[p] = "check"
    /\ Goto(p, IF Exists(slot[p][1].swap) THEN "wait" ELSE "arm")
    /\ UNCHANGED <<disk, swaps, slot, procVars, clock, typed, starts>>
    /\ Track

\* :recover on the current buffer, up to the lock.
ForceRecover(p) ==
    LET s == slot[p][1] IN
    /\ Attending(p)
    /\ s.file # NoName /\ s.swap # NoName /\ Exists(s.swap)
    /\ force' = [force EXCEPT ![p] = TRUE]
    /\ Goto(p, "wait")
    /\ UNCHANGED <<disk, swaps, slot, off, up, seen, pending, cand, at, clock, typed, starts>>
    /\ Track

\* The lock is held from here; a swap that is gone needs no recovery.
ReadSwap(p) ==
    LET n == slot[p][1].swap IN
    /\ pc[p] = "wait"
    /\ Free(n, p)
    /\ seen' = [seen EXCEPT ![p] = swaps[n]]
    /\ force' = [force EXCEPT ![p] = @ /\ Exists(n)]
    /\ Goto(p, IF Exists(n) THEN "decide" ELSE IF force[p] THEN "run" ELSE "arm")
    /\ UNCHANGED <<disk, swaps, slot, off, up, pending, cand, at, clock, typed, starts>>
    /\ Track

\* Mutant: a swap as old as the file is newer than the file.
StaleStrictly(p) == ~force[p] /\ seen[p].time < disk[slot[p][1].file].mtime

\* The file on disk is at least as new as the swap.
Stale(p) == ~force[p] /\ seen[p].time <= disk[slot[p][1].file].mtime

Locked(p) == seen[p].pid # p /\ Alive(seen[p].pid)

Checked(p) ==
    /\ pc[p] = "decide"
    /\ seen' = [seen EXCEPT ![p] = NoWriter]
    /\ force' = [force EXCEPT ![p] = FALSE]
    /\ UNCHANGED <<disk, off, up, cand, at, clock, typed, starts>>

\* Another live process has the file: read-only, and without a swap.
OpenReadOnly(p) ==
    /\ Checked(p)
    /\ Locked(p)
    /\ slot' = [slot EXCEPT ![p][1].ro = TRUE, ![p][1].swap = NoName]
    /\ Goto(p, Opened(p))
    /\ UNCHANGED <<swaps, pending>>
    /\ Track

DropStale(p) ==
    /\ Checked(p)
    /\ ~Locked(p) /\ Stale(p)
    /\ swaps' = Removed(slot[p][1].swap)
    /\ Goto(p, "arm")
    /\ UNCHANGED <<slot, pending>>
    /\ Track

Prompt(p) ==
    /\ Checked(p)
    /\ ~Locked(p) /\ ~Stale(p)
    /\ pending' = [pending EXCEPT ![p] = seen[p].text]
    /\ Goto(p, Opened(p))
    /\ UNCHANGED <<swaps, slot>>
    /\ Track

\* arm_swap_on_open writes the buffer as it is, whoever wrote there since.
Arm(p) ==
    /\ pc[p] = "arm"
    /\ IF off[p] THEN UNCHANGED <<swaps, slot, clock>> ELSE WriteSwap(p, 1)
    /\ Goto(p, Opened(p))
    /\ UNCHANGED <<disk, procVars, typed, starts>>
    /\ Track

----------------------------------------------------------------------------
(***************************************************************************)
(* The rest of main: -n, then the unnamed buffers of dead processes.       *)
(***************************************************************************)
\* disable_swapfiles
Disable(p) ==
    LET n == slot[p][1].swap IN
    /\ pc[p] = "startup"
    /\ n # NoName => Free(n, p)
    /\ swaps' = IF n = NoName THEN swaps ELSE Removed(n)
    /\ slot' = [slot EXCEPT ![p][1].swap = NoName]
    /\ off' = [off EXCEPT ![p] = TRUE]
    /\ Goto(p, "scan")
    /\ UNCHANGED <<disk, up, force, seen, pending, cand, at, clock, typed, starts>>
    /\ Track

\* The names scratch_*.swp, and what orphan_scratch_at says of them now.
Orphans == {n \in Pid \X Index : Orphan(n)}

\* scan_orphan_scratch_swaps_in, over the names of unnamed buffers.
Scan(p) ==
    /\ pc[p] \in {"startup", "scan"}
    /\ cand' = [cand EXCEPT ![p] = Orphans]
    /\ Goto(p, "orphans")
    /\ UNCHANGED <<disk, swaps, slot, off, up, force, seen, pending, at, clock, typed, starts>>
    /\ Track

\* Asked again under the lock of n.
StillOrphan(p, n) == Orphan(n)

\* Mutant: the orphan stays on disk.
OrphanStays(n) == swaps

\* Recovered text is in memory only until the idle writer comes by.
OrphanGone(n) == Removed(n)

RecoverOrphan(p, n, i) ==
    /\ pc[p] = "orphans"
    /\ n \in cand[p] /\ Free(n, p)
    /\ StillOrphan(p, n)
    /\ ~slot[p][i].open
    /\ slot' = [slot EXCEPT ![p][i] =
         [Closed EXCEPT !.open = TRUE, !.text = swaps[n].text, !.dirty = TRUE]]
    /\ swaps' = OrphanGone(n)
    /\ cand' = [cand EXCEPT ![p] = @ \ {n}]
    /\ UNCHANGED <<disk, pc, off, up, force, seen, pending, at, clock, typed, starts>>
    /\ Track

\* No orphan any more, or its lock cannot be had: it stays on disk.
SkipOrphan(p, n) ==
    /\ pc[p] = "orphans"
    /\ n \in cand[p]
    /\ cand' = [cand EXCEPT ![p] = @ \ {n}]
    /\ UNCHANGED <<disk, swaps, pc, slot, off, up, force, seen, pending, at, clock, typed, starts>>
    /\ Track

EnterLoop(p) ==
    /\ pc[p] = "orphans" /\ cand[p] = {}
    /\ up' = [up EXCEPT ![p] = TRUE]
    /\ Goto(p, "run")
    /\ UNCHANGED <<disk, swaps, slot, off, force, seen, pending, cand, at, clock, typed, starts>>
    /\ Track

----------------------------------------------------------------------------
(***************************************************************************)
(* The event loop.                                                         *)
(***************************************************************************)
Type(p, i) ==
    /\ Attending(p) /\ slot[p][i].open
    /\ typed < MaxText
    /\ typed' = typed + 1
    /\ slot' = [slot EXCEPT ![p][i].text = typed + 1, ![p][i].dirty = TRUE,
                            ![p][i].synced = FALSE]
    /\ UNCHANGED <<disk, swaps, pc, procVars, clock, starts>>
    /\ Track

\* tick_idle_swap_write for one slot, and :preserve; the prompt stops neither.
IdleWrite(p, i) ==
    /\ pc[p] = "run"
    /\ SwapPending(p, i)
    /\ WriteSwap(p, i)
    /\ UNCHANGED <<disk, pc, procVars, typed, starts>>
    /\ Track

\* save_slot up to the new file: :w, :w!, :w other; the swap path stays.
Save(p, i, f, bang) ==
    LET s == slot[p][i] IN
    /\ Attending(p) /\ s.open
    /\ s.ro /\ f = s.file => bang
    /\ clock' \in Now
    /\ disk' = [disk EXCEPT ![f] = [text |-> s.text, mtime |-> clock']]
    /\ slot' = [slot EXCEPT ![p][i].file = f, ![p][i].dirty = FALSE]
    /\ at' = [at EXCEPT ![p] = i]
    /\ Goto(p, "saved")
    /\ UNCHANGED <<swaps, off, up, force, seen, pending, cand, typed, starts>>
    /\ Track

\* Mutant: the buffer still counts as written after its swap is gone.
SaveForgetsReset(p) ==
    LET n == slot[p][at[p]].swap IN
    /\ pc[p] = "saved"
    /\ n # NoName => Free(n, p)
    /\ swaps' = IF n = NoName THEN swaps ELSE Removed(n)
    /\ at' = [at EXCEPT ![p] = 1]
    /\ Goto(p, "run")
    /\ UNCHANGED <<disk, slot, off, up, force, seen, pending, cand, clock, typed, starts>>
    /\ Track

\* save_slot's remove_swap.
SaveDone(p) ==
    LET n == slot[p][at[p]].swap IN
    /\ pc[p] = "saved"
    /\ IF n = NoName THEN UNCHANGED <<swaps, slot>>
       ELSE /\ Free(n, p)
            /\ swaps' = Removed(n)
            /\ slot' = [slot EXCEPT ![p][at[p]].synced = FALSE]
    /\ at' = [at EXCEPT ![p] = 1]
    /\ Goto(p, "run")
    /\ UNCHANGED <<disk, off, up, force, seen, pending, cand, clock, typed, starts>>
    /\ Track

\* reset_slot_to_scratch, which leaves swap_path as it was.
ResetSlot(s) == [Closed EXCEPT !.open = TRUE, !.swap = s.swap]

Sole(p, i) == \A j \in Index : slot[p][j].open <=> j = i

AnswerYes(p) ==
    /\ pc[p] = "run" /\ pending[p] # NoBody
    /\ slot' = [slot EXCEPT ![p][1].text = pending[p], ![p][1].dirty = TRUE,
                            ![p][1].synced = FALSE]
    /\ pending' = [pending EXCEPT ![p] = NoBody]
    /\ UNCHANGED <<disk, swaps, pc, off, up, force, seen, cand, at, clock, typed, starts>>
    /\ Track

AnswerNo(p) ==
    /\ pc[p] = "run" /\ pending[p] # NoBody
    /\ pending' = [pending EXCEPT ![p] = NoBody]
    /\ UNCHANGED <<disk, swaps, pc, slot, off, up, force, seen, cand, at, clock, typed, starts>>
    /\ Track

AnswerAbort(p) ==
    /\ pc[p] = "run" /\ pending[p] # NoBody
    /\ slot' = [slot EXCEPT ![p][1] = IF Sole(p, 1) THEN ResetSlot(@) ELSE Closed]
    /\ pending' = [pending EXCEPT ![p] = NoBody]
    /\ UNCHANGED <<disk, swaps, pc, off, up, force, seen, cand, at, clock, typed, starts>>
    /\ Track

\* buffer_delete, buffer_wipe
CloseBuffer(p, i, bang) ==
    LET s == slot[p][i] IN
    /\ Attending(p) /\ s.open
    /\ s.dirty => bang
    /\ IF Sole(p, i)
       THEN slot' = [slot EXCEPT ![p][i] = ResetSlot(s)] /\ UNCHANGED swaps
       ELSE /\ slot' = [slot EXCEPT ![p][i] = Closed]
            /\ s.swap # NoName => Free(s.swap, p)
            /\ swaps' = IF s.swap = NoName THEN swaps ELSE Removed(s.swap)
    /\ UNCHANGED <<disk, pc, procVars, clock, typed, starts>>
    /\ Track

\* :q and its kin, and <C-c>, which the prompt does not stop.
Quit(p, bang) ==
    /\ pc[p] = "run"
    /\ bang => pending[p] = NoBody
    /\ bang \/ \A i \in Index : ~slot[p][i].dirty
    /\ Goto(p, "exit")
    /\ UNCHANGED <<disk, swaps, slot, procVars, clock, typed, starts>>
    /\ Track

\* cleanup_swaps_on_exit, slot by slot.
ExitClean(p, i) ==
    LET n == slot[p][i].swap IN
    /\ pc[p] = "exit" /\ n # NoName /\ Free(n, p)
    /\ swaps' = Removed(n)
    /\ slot' = [slot EXCEPT ![p][i].swap = NoName]
    /\ UNCHANGED <<disk, pc, procVars, clock, typed, starts>>
    /\ Track

\* What a process leaves behind is on disk.
Gone(p) ==
    /\ Goto(p, "dead")
    /\ slot' = [slot EXCEPT ![p] = [i \in Index |-> Closed]]
    /\ off' = [off EXCEPT ![p] = FALSE]
    /\ up' = [up EXCEPT ![p] = FALSE]
    /\ force' = [force EXCEPT ![p] = FALSE]
    /\ seen' = [seen EXCEPT ![p] = NoWriter]
    /\ pending' = [pending EXCEPT ![p] = NoBody]
    /\ cand' = [cand EXCEPT ![p] = {}]
    /\ at' = [at EXCEPT ![p] = 1]
    /\ UNCHANGED <<disk, swaps, clock, typed, starts>>
    /\ Track

ExitDone(p) == pc[p] = "exit" /\ (\A i \in Index : slot[p][i].swap = NoName) /\ Gone(p)

Crash(p) == Alive(p) /\ Gone(p)

----------------------------------------------------------------------------
Opening(p) ==
    \/ \E f \in File \cup {NoName} : Start(p, f)
    \/ \E f \in File : OpenFile(p, f)
    \/ CheckExists(p) \/ ForceRecover(p) \/ ReadSwap(p)
    \/ OpenReadOnly(p) \/ DropStale(p) \/ Prompt(p) \/ Arm(p)

Startup(p) ==
    \/ Disable(p) \/ Scan(p) \/ EnterLoop(p)
    \/ \E n \in Pid \X Index : SkipOrphan(p, n) \/ \E i \in Index : RecoverOrphan(p, n, i)

Running(p) ==
    \/ \E i \in Index : Type(p, i) \/ IdleWrite(p, i) \/ ExitClean(p, i)
    \/ \E i \in Index, f \in File, bang \in BOOLEAN : Save(p, i, f, bang)
    \/ \E i \in Index, bang \in BOOLEAN : CloseBuffer(p, i, bang)
    \/ SaveDone(p) \/ AnswerYes(p) \/ AnswerNo(p) \/ AnswerAbort(p)
    \/ \E bang \in BOOLEAN : Quit(p, bang)
    \/ ExitDone(p) \/ Crash(p)

Next == \E p \in Pid : Opening(p) \/ Startup(p) \/ Running(p)

Spec == Init /\ [][Next]_vars

----------------------------------------------------------------------------
(***************************************************************************)
(* Properties.                                                             *)
(***************************************************************************)
SwapTypeOK ==
    LET Swap == [text : Text, time : 0..MaxClock, pid : Pid \cup {NoName},
                 of : File \cup {NoName}]
        Slot == [open : BOOLEAN, file : File \cup {NoName}, swap : Names \cup {NoName},
                 text : Text, dirty : BOOLEAN, synced : BOOLEAN, ro : BOOLEAN]
    IN /\ disk \in [File -> [text : Text, mtime : 0..MaxClock]]
       /\ swaps \in [Names -> Swap]
       /\ pc \in [Pid -> {"check", "wait", "decide", "arm", "startup", "scan",
                          "orphans", "run", "saved", "exit", "dead"}]
       /\ slot \in [Pid -> [Index -> Slot]]
       /\ {off, up, force} \subseteq [Pid -> BOOLEAN]
       /\ seen \in [Pid -> Swap]
       /\ pending \in [Pid -> Text \cup {NoBody}]
       /\ cand \in [Pid -> SUBSET (Pid \X Index)]
       /\ at \in [Pid -> Index]
       /\ clock \in 0..MaxClock /\ typed \in Text /\ starts \in 0..MaxStarts
       /\ shared \subseteq File

\* Recovery decides from a header it has read and from a scan of the directory
\* (check_recovery_locked, recover_one_orphan_locked); however late it acts on
\* them, it never removes the swap of another process that is alive.
RecoverySparesTheLive ==
    [][\A p \in Pid, n \in Names :
          /\ pc[p] \in {"decide", "orphans"}
          /\ pc'[p] # pc[p] \/ cand'[p] # cand[p]
          /\ swaps[n].pid # p /\ Alive(swaps[n].pid)
          => swaps'[n] = swaps[n]]_vars

\* Two processes that start after a crash do not both recover the same unnamed
\* buffer (recover_one_orphan_locked), whatever crashes follow.
OrphanRecoveredOnce ==
    \A p, q \in Pid, i, j \in Index :
        /\ <<p, i>> # <<q, j>>
        /\ \A s \in {slot[p][i], slot[q][j]} : s.dirty /\ s.file = NoName
        => slot[p][i].text # slot[q][j].text

\* Where the next process looks for slot i of p if p dies now.
Home(p, i) == IF slot[p][i].file = NoName THEN <<p, i>> ELSE slot[p][i].file

\* While no two buffers write a file or its swap, one that the idle writer takes
\* for done (last_swap_dirty_gen) is on disk as it is, under its process's pid and
\* the name where recovery looks; a second, read-only hjkl changes nothing.
SyncedWorkIsFindable ==
    \A p \in Pid, i \in Index :
        LET s == slot[p][i] IN
        s.open /\ s.synced /\ s.swap = Home(p, i) /\ s.swap \notin shared
        => /\ swaps[s.swap].text = s.text
           /\ swaps[s.swap].pid = p
           /\ s.file = NoName => swaps[s.swap].of = NoName

\* While no two buffers write a file or its swap, the prompt never offers a text
\* older than the one saved: not after a crash between the write of the file and
\* the removal of the swap, nor when both bear the same millisecond.
RecoveryNeverGoesBack ==
    [][\A p \in Pid : LET f == slot[p][1].file IN
          pc[p] = "decide" /\ ~force[p] /\ pending'[p] # pending[p] /\ f \notin shared
          => pending'[p] >= disk[f].text]_vars

----------------------------------------------------------------------------
\* "don't clobber the swap the user is deciding on" (arm_swap_on_open): while the
\* prompt asks about a file as it was opened, the swap holds what it offers.
PromptKeepsSwap ==
    \A p \in Pid :
        LET s == slot[p][1] IN
        /\ pc[p] = "run" /\ pending[p] # NoBody
        /\ ~s.dirty /\ s.swap # NoName /\ s.swap \notin shared
        => swaps[s.swap].text = pending[p]
=============================================================================
