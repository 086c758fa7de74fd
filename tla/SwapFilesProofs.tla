--------------------------- MODULE SwapFilesProofs ---------------------------
(***************************************************************************)
(* Proofs about SwapFiles, for any number of processes, files and buffers: *)
(* what recovery decides under a swap's lock is still true when it acts,   *)
(* and an unsaved text has one place from which it is recovered.           *)
(***************************************************************************)
EXTENDS SwapFiles, FiniteSetTheorems, TLAPS

Swap == [text : Text, time : 0..MaxClock, pid : Pid \cup {NoName}, of : File \cup {NoName}]
Slot == [open : BOOLEAN, file : File \cup {NoName}, swap : Names \cup {NoName},
         text : Text, dirty : BOOLEAN, synced : BOOLEAN, ro : BOOLEAN]
Place == {"check", "wait", "decide", "arm", "startup", "scan", "orphans", "run",
          "saved", "exit", "dead"}

DiskTyped ==
    /\ disk \in [File -> [text : Text, mtime : 0..MaxClock]]
    /\ swaps \in [Names -> Swap]
    /\ clock \in 0..MaxClock /\ typed \in Text
    /\ starts \in 0..MaxStarts /\ shared \subseteq File

ProcTyped ==
    /\ pc \in [Pid -> Place]
    /\ slot \in [Pid -> [Index -> Slot]]
    /\ seen \in [Pid -> Swap]
    /\ pending \in [Pid -> Text \cup {NoBody}]
    /\ cand \in [Pid -> SUBSET (Pid \X Index)]
    /\ at \in [Pid -> Index]

FlagsTyped ==
    off \in [Pid -> BOOLEAN] /\ up \in [Pid -> BOOLEAN] /\ force \in [Pid -> BOOLEAN]

SwapTyped == DiskTyped /\ ProcTyped /\ FlagsTyped

----------------------------------------------------------------------------
(***************************************************************************)
(* Where the swaps of a buffer can be.                                     *)
(***************************************************************************)
\* A buffer has its file's swap, if it was opened by name, or its own; a text
\* in an unnamed buffer was typed or recovered there.
NamedWell(s, p, i) ==
    /\ s.swap \in File \cup {<<p, i>>, NoName}
    /\ s.swap \in File => i = 1
    /\ s.ro => s.swap = NoName /\ s.file \in File
    /\ s.file = NoName /\ s.text # Blank => s.dirty
    /\ s.dirty \/ s.file \in File => s.open

\* A check, and a prompt, are about the file of the first buffer.
ChecksAFile(p) ==
    /\ pc[p] \in {"check", "wait", "decide", "arm"} =>
         slot[p][1].file \in File /\ slot[p][1].swap \in Names
    /\ pending[p] # NoBody => slot[p][1].file \in File
    /\ slot[p][1].open \/ pc[p] \in {"run", "saved", "exit", "dead"}

DeadHoldsNothing(p) == pc[p] = "dead" => \A i \in Index : slot[p][i] = Closed

ProcNames(p) ==
    (\A i \in Index : NamedWell(slot[p][i], p, i)) /\ ChecksAFile(p) /\ DeadHoldsNothing(p)

\* The swap of an unnamed buffer was written by its process.
ScratchPids ==
    \A p \in Pid, i \in Index : swaps[<<p, i>>] # NoWriter => swaps[<<p, i>>].pid = p

NameInv == ScratchPids /\ \A p \in Pid : ProcNames(p)

----------------------------------------------------------------------------
\* check_recovery holds the lock of the name from its read to its decision.
Decides(p, n) == pc[p] = "decide" /\ slot[p][1].swap = n

LockInv ==
    \A p \in Pid, n \in Names : Decides(p, n) =>
        /\ seen[p] = swaps[n] /\ Exists(n)
        /\ \A q \in Pid : Decides(q, n) => q = p

----------------------------------------------------------------------------
(***************************************************************************)
(* The places from which an unnamed text is recovered.                     *)
(***************************************************************************)
Scratch(x) == slot[x[1]][x[2]].dirty /\ slot[x[1]][x[2]].file = NoName
TextOf(x) == slot[x[1]][x[2]].text
Loose(n) == Exists(n) /\ swaps[n].of = NoName

\* Every text there is was typed.
TextsTyped ==
    /\ \A p \in Pid, i \in Index : slot[p][i].text <= typed
    /\ \A n \in Names : swaps[n].text <= typed
    /\ \A f \in File : disk[f].text <= typed
    /\ \A p \in Pid : pending[p] # NoBody => pending[p] <= typed

UniqueInv ==
    /\ \A x, y \in Pid \X Index : Scratch(x) /\ Scratch(y) /\ TextOf(x) = TextOf(y) => x = y
    /\ \A m, n \in Pid \X Index :
         Loose(m) /\ Loose(n) /\ swaps[m].text = swaps[n].text => m = n
    /\ \A x, n \in Pid \X Index :
         Scratch(x) /\ Loose(n) /\ TextOf(x) = swaps[n].text => x = n

----------------------------------------------------------------------------
(***************************************************************************)
(* Who writes the swap of a file that is not shared.                       *)
(***************************************************************************)
Checking == {"check", "wait", "decide"}
Private(n) == n \in Names /\ n \notin shared

\* A buffer that is being opened is as it was built; only :recover checks another.
AsOpened(p) ==
    /\ force[p] => pc[p] \in {"wait", "decide"}
    /\ pc[p] \in Checking =>
         force[p] \/ (~slot[p][1].synced /\ slot[p][1].swap = slot[p][1].file)

\* What the idle writer takes for done is on disk.
SyncedIsOnDisk ==
    \A p \in Pid, i \in Index :
        LET s == slot[p][i] IN
        s.synced /\ Private(s.swap) =>
            /\ swaps[s.swap].text = s.text /\ swaps[s.swap].pid = p
            /\ s.file = NoName => swaps[s.swap].of = NoName

\* Nobody else is past the check of its file.
NoRival ==
    \A p, q \in Pid :
        /\ slot[p][1].synced /\ slot[p][1].swap \in File /\ Private(slot[p][1].swap)
        /\ q # p /\ slot[q][1].swap = slot[p][1].swap
        => pc[q] \in Checking

OwnerInv == (\A p \in Pid : AsOpened(p)) /\ SyncedIsOnDisk /\ NoRival

----------------------------------------------------------------------------
(***************************************************************************)
(* Age of texts.                                                           *)
(***************************************************************************)
TimesBounded ==
    /\ \A n \in Names : swaps[n].time <= clock
    /\ \A f \in File : disk[f].mtime <= clock

\* The buffer that has f's swap is f's, or was once and is empty or newer.
SlotNotOlder(p) ==
    LET s == slot[p][1] IN
    s.swap \in File /\ s.swap \notin shared =>
        /\ s.file \in {s.swap, NoName}
        /\ s.text >= disk[s.swap].text \/ (s.file = NoName /\ s.text = Blank)
        /\ pending[p] # NoBody => pending[p] >= disk[s.swap].text

SwapNotOlder ==
    \A f \in File \ shared :
        Exists(f) /\ swaps[f].time > disk[f].mtime => swaps[f].text >= disk[f].text

\* Past the check, and not between a save and the removal of the swap.
Settled(p) == /\ pc[p] # "check"
              /\ pc[p] \in {"wait", "decide"} => force[p]
              /\ ~(pc[p] = "saved" /\ at[p] = 1)

SettledNotOlder(p) ==
    LET f == slot[p][1].swap IN
    f \in File \ shared /\ Settled(p) /\ Exists(f) => swaps[f].text >= disk[f].text

AgeInv ==
    /\ TimesBounded /\ SwapNotOlder
    /\ \A p \in Pid : SlotNotOlder(p) /\ SettledNotOlder(p)

SwapInv ==
    SwapTyped /\ NameInv /\ LockInv /\ TextsTyped /\ UniqueInv /\ OwnerInv /\ AgeInv
----------------------------------------------------------------------------
(***************************************************************************)
(* What the actions do to a buffer.                                        *)
(***************************************************************************)
LEMMA Bounds ==
    /\ NoName \notin File /\ NoName \notin Pid /\ NoName \notin Names
    /\ NoName \notin Pid \X Index
    /\ \A x \in Pid \X Index : x \notin File
    /\ MaxSlots \in Nat /\ MaxSlots > 0 /\ MaxText \in Nat /\ MaxText > 1
    /\ MaxClock \in Nat /\ MaxStarts \in Nat
    /\ 1 \in Index /\ Blank \in Text /\ NoBody \notin Text
  BY SwapBounds DEF SwapBounds, Names, Index, Text, NoBody, Blank

LEMMA NamesOf == \A p \in Pid, i \in Index : <<p, i>> \in Names /\ <<p, i>> \notin File
  BY Bounds DEF Names

\* The fields of a buffer's record.
Has(s, op, fl, sw, tx, di, sy, r) ==
    /\ s \in Slot
    /\ s.file = fl /\ s.swap = sw /\ s.text = tx
    /\ s.open <=> op
    /\ s.dirty <=> di
    /\ s.synced <=> sy
    /\ s.ro <=> r

\* Slot i of p changes, and no other.
Only(p, i) ==
    /\ slot' \in [Pid -> [Index -> Slot]]
    /\ \A q \in Pid, j \in Index : q # p \/ j # i => slot'[q][j] = slot[q][j]

LEMMA SlotTyped ==
    ASSUME ProcTyped, NEW p \in Pid, NEW i \in Index
    PROVE  LET s == slot[p][i] IN
           /\ s \in Slot
           /\ s.file \in File \cup {NoName} /\ s.swap \in Names \cup {NoName} /\ s.text \in Text
  BY DEF ProcTyped, Slot

LEMMA PutOne ==
    ASSUME ProcTyped, NEW p \in Pid, NEW i \in Index, NEW s \in Slot,
           slot' = [slot EXCEPT ![p][i] = s]
    PROVE  Only(p, i) /\ slot'[p][i] = s
  BY DEF ProcTyped, Only

LEMMA ClosedHas == Has(Closed, FALSE, NoName, NoName, Blank, FALSE, FALSE, FALSE)
  BY Bounds DEF Closed, Has, Slot

LEMMA FreshHas ==
    ASSUME DiskTyped, NEW f \in File \cup {NoName}
    PROVE  /\ Has(Fresh(f), TRUE, f, f, IF f = NoName THEN Blank ELSE disk[f].text,
                  FALSE, FALSE, FALSE)
           /\ f \in File => disk[f].text \in Text
  <1> DEFINE t == IF f = NoName THEN Blank ELSE disk[f].text
  <1>1. f \in File => disk[f].text \in Text
    BY DEF DiskTyped
  <1>2. f \in Names \cup {NoName} /\ t \in Text
    BY <1>1, Bounds DEF Names
  <1>3. Fresh(f) = [Closed EXCEPT !.open = TRUE, !.file = f, !.swap = f, !.text = t]
    BY DEF Fresh
  <1> HIDE DEF t
  <1>4. Has(Fresh(f), TRUE, f, f, t, FALSE, FALSE, FALSE)
    BY <1>2, <1>3 DEF Closed, Has, Slot
  <1> QED
    BY <1>1, <1>4 DEF t

LEMMA ResetHas ==
    ASSUME NEW s \in Slot
    PROVE  Has(ResetSlot(s), TRUE, NoName, s.swap, Blank, FALSE, FALSE, FALSE)
  <1>1. s.swap \in Names \cup {NoName}
    BY DEF Slot
  <1> QED
    BY <1>1, Bounds DEF ResetSlot, Closed, Has, Slot

\* Steps that set some fields of one buffer.
Updated(p, i) ==
    /\ slot' = [q \in Pid |-> slot'[q]]
    /\ \A q \in Pid : slot'[q] = [j \in Index |-> slot'[q][j]]
    /\ \A q \in Pid, j \in Index : q # p \/ j # i => slot'[q][j] = slot[q][j]

LEMMA UpdatedOnly ==
    ASSUME slot \in [Pid -> [Index -> Slot]], NEW p \in Pid, NEW i \in Index,
           Updated(p, i), slot'[p][i] \in Slot
    PROVE  Only(p, i)
  <1>1. \A q \in Pid, j \in Index : slot'[q][j] \in Slot
    BY DEF Updated
  <1> QED
    BY <1>1 DEF Updated, Only

LEMMA SetsWritten ==
    ASSUME slot \in [Pid -> [Index -> Slot]], NEW p \in Pid, NEW i \in Index,
           NEW n \in Names \cup {NoName},
           slot' = [slot EXCEPT ![p][i].swap = n, ![p][i].synced = TRUE]
    PROVE  LET s == slot[p][i] IN
           Only(p, i) /\ Has(slot'[p][i], s.open, s.file, n, s.text, s.dirty, TRUE, s.ro)
  <1> DEFINE r == [slot[p][i] EXCEPT !.swap = n, !.synced = TRUE]
  <1>1. slot'[p][i] = r
    OBVIOUS
  <1>2. slot[p][i] \in Slot
    OBVIOUS
  <1>3. r \in Slot
    BY <1>2, Bounds DEF Slot
  <1>4. Updated(p, i)
    BY DEF Updated
  <1>5. Only(p, i)
    BY <1>1, <1>3, <1>4, UpdatedOnly
  <1>6. Has(r, slot[p][i].open, slot[p][i].file, n, slot[p][i].text, slot[p][i].dirty, TRUE, slot[p][i].ro)
    BY <1>2, <1>3 DEF Slot, Has
  <1> QED
    BY <1>1, <1>5, <1>6

LEMMA SetsReadOnly ==
    ASSUME slot \in [Pid -> [Index -> Slot]], NEW p \in Pid, NEW i \in Index,
           slot' = [slot EXCEPT ![p][i].ro = TRUE, ![p][i].swap = NoName]
    PROVE  LET s == slot[p][i] IN
           Only(p, i) /\ Has(slot'[p][i], s.open, s.file, NoName, s.text, s.dirty, s.synced, TRUE)
  <1> DEFINE r == [slot[p][i] EXCEPT !.ro = TRUE, !.swap = NoName]
  <1>1. slot'[p][i] = r
    OBVIOUS
  <1>2. slot[p][i] \in Slot
    OBVIOUS
  <1>3. r \in Slot
    BY <1>2, Bounds DEF Slot
  <1>4. Updated(p, i)
    BY DEF Updated
  <1>5. Only(p, i)
    BY <1>1, <1>3, <1>4, UpdatedOnly
  <1>6. Has(r, slot[p][i].open, slot[p][i].file, NoName, slot[p][i].text, slot[p][i].dirty, slot[p][i].synced, TRUE)
    BY <1>2, <1>3 DEF Slot, Has
  <1> QED
    BY <1>1, <1>5, <1>6

LEMMA SetsSwap ==
    ASSUME slot \in [Pid -> [Index -> Slot]], NEW p \in Pid, NEW i \in Index,
           slot' = [slot EXCEPT ![p][i].swap = NoName]
    PROVE  LET s == slot[p][i] IN
           Only(p, i) /\ Has(slot'[p][i], s.open, s.file, NoName, s.text, s.dirty, s.synced, s.ro)
  <1> DEFINE r == [slot[p][i] EXCEPT !.swap = NoName]
  <1>1. slot'[p][i] = r
    OBVIOUS
  <1>2. slot[p][i] \in Slot
    OBVIOUS
  <1>3. r \in Slot
    BY <1>2, Bounds DEF Slot
  <1>4. Updated(p, i)
    BY DEF Updated
  <1>5. Only(p, i)
    BY <1>1, <1>3, <1>4, UpdatedOnly
  <1>6. Has(r, slot[p][i].open, slot[p][i].file, NoName, slot[p][i].text, slot[p][i].dirty, slot[p][i].synced, slot[p][i].ro)
    BY <1>2, <1>3 DEF Slot, Has
  <1> QED
    BY <1>1, <1>5, <1>6

LEMMA SetsText ==
    ASSUME slot \in [Pid -> [Index -> Slot]], NEW p \in Pid, NEW i \in Index, NEW t \in Text,
           slot' = [slot EXCEPT ![p][i].text = t, ![p][i].dirty = TRUE, ![p][i].synced = FALSE]
    PROVE  LET s == slot[p][i] IN
           Only(p, i) /\ Has(slot'[p][i], s.open, s.file, s.swap, t, TRUE, FALSE, s.ro)
  <1> DEFINE r == [slot[p][i] EXCEPT !.text = t, !.dirty = TRUE, !.synced = FALSE]
  <1>1. slot'[p][i] = r
    OBVIOUS
  <1>2. slot[p][i] \in Slot
    OBVIOUS
  <1>3. r \in Slot
    BY <1>2, Bounds DEF Slot
  <1>4. Updated(p, i)
    BY DEF Updated
  <1>5. Only(p, i)
    BY <1>1, <1>3, <1>4, UpdatedOnly
  <1>6. Has(r, slot[p][i].open, slot[p][i].file, slot[p][i].swap, t, TRUE, FALSE, slot[p][i].ro)
    BY <1>2, <1>3 DEF Slot, Has
  <1> QED
    BY <1>1, <1>5, <1>6

LEMMA SetsFile ==
    ASSUME slot \in [Pid -> [Index -> Slot]], NEW p \in Pid, NEW i \in Index, NEW f \in File,
           slot' = [slot EXCEPT ![p][i].file = f, ![p][i].dirty = FALSE]
    PROVE  LET s == slot[p][i] IN
           Only(p, i) /\ Has(slot'[p][i], s.open, f, s.swap, s.text, FALSE, s.synced, s.ro)
  <1> DEFINE r == [slot[p][i] EXCEPT !.file = f, !.dirty = FALSE]
  <1>1. slot'[p][i] = r
    OBVIOUS
  <1>2. slot[p][i] \in Slot
    OBVIOUS
  <1>3. r \in Slot
    BY <1>2, Bounds DEF Slot
  <1>4. Updated(p, i)
    BY DEF Updated
  <1>5. Only(p, i)
    BY <1>1, <1>3, <1>4, UpdatedOnly
  <1>6. Has(r, slot[p][i].open, f, slot[p][i].swap, slot[p][i].text, FALSE, slot[p][i].synced, slot[p][i].ro)
    BY <1>2, <1>3 DEF Slot, Has
  <1> QED
    BY <1>1, <1>5, <1>6

LEMMA SetsUnsynced ==
    ASSUME slot \in [Pid -> [Index -> Slot]], NEW p \in Pid, NEW i \in Index,
           slot' = [slot EXCEPT ![p][i].synced = FALSE]
    PROVE  LET s == slot[p][i] IN
           Only(p, i) /\ Has(slot'[p][i], s.open, s.file, s.swap, s.text, s.dirty, FALSE, s.ro)
  <1> DEFINE r == [slot[p][i] EXCEPT !.synced = FALSE]
  <1>1. slot'[p][i] = r
    OBVIOUS
  <1>2. slot[p][i] \in Slot
    OBVIOUS
  <1>3. r \in Slot
    BY <1>2, Bounds DEF Slot
  <1>4. Updated(p, i)
    BY DEF Updated
  <1>5. Only(p, i)
    BY <1>1, <1>3, <1>4, UpdatedOnly
  <1>6. Has(r, slot[p][i].open, slot[p][i].file, slot[p][i].swap, slot[p][i].text, slot[p][i].dirty, FALSE, slot[p][i].ro)
    BY <1>2, <1>3 DEF Slot, Has
  <1> QED
    BY <1>1, <1>5, <1>6

\* The buffer that write_swap_for_slot has written.
LEMMA WriteFacts ==
    ASSUME DiskTyped, ProcTyped, NEW p \in Pid, NEW i \in Index, WriteSwap(p, i)
    PROVE  LET s == slot[p][i]  n == Target(p, i) IN
           /\ n \in Names /\ Free(n, p)
           /\ clock' \in Nat /\ clock <= clock' /\ clock' <= MaxClock
           /\ swaps' = [swaps EXCEPT ![n] = [text |-> s.text, time |-> clock', pid |-> p, of |-> s.file]]
           /\ Only(p, i)
           /\ Has(slot'[p][i], s.open, s.file, n, s.text, s.dirty, TRUE, s.ro)
  <1> DEFINE s == slot[p][i]
             n == Target(p, i)
  <1>1. n \in Names
    BY SlotTyped, NamesOf DEF WriteSwap, Target
  <1>3. clock' \in Nat /\ clock <= clock' /\ clock' <= MaxClock
    BY Bounds DEF WriteSwap, Now, DiskTyped
  <1>4. slot' = [slot EXCEPT ![p][i].swap = n, ![p][i].synced = TRUE]
    BY DEF WriteSwap
  <1> HIDE DEF n
  <1>5. Only(p, i) /\ Has(slot'[p][i], s.open, s.file, n, s.text, s.dirty, TRUE, s.ro)
    BY <1>1, <1>4, SetsWritten DEF ProcTyped
  <1> QED
    BY <1>1, <1>3, <1>5 DEF WriteSwap, n
----------------------------------------------------------------------------
(***************************************************************************)
(* Each action's buffer.                                                   *)
(***************************************************************************)
LEMMA OpenFacts ==
    ASSUME SwapTyped, NEW p \in Pid, NEW f \in File \cup {NoName},
           slot' = [slot EXCEPT ![p][1] = Fresh(f)]
    PROVE  /\ Only(p, 1)
           /\ Has(slot'[p][1], TRUE, f, f, IF f = NoName THEN Blank ELSE disk[f].text,
                  FALSE, FALSE, FALSE)
  <1>1. Fresh(f) \in Slot
    BY FreshHas DEF Has, SwapTyped
  <1>2. Only(p, 1) /\ slot'[p][1] = Fresh(f)
    BY <1>1, PutOne, Bounds DEF SwapTyped
  <1> QED
    BY <1>2, FreshHas DEF SwapTyped

LEMMA RecoverFacts ==
    ASSUME SwapTyped, NEW p \in Pid, NEW i \in Index, NEW n \in Pid \X Index, RecoverOrphan(p, n, i)
    PROVE  /\ Only(p, i)
           /\ Has(slot'[p][i], TRUE, NoName, NoName, swaps[n].text, TRUE, FALSE, FALSE)
           /\ n \in Names
  <1>1. n \in Names /\ swaps[n].text \in Text
    BY DEF SwapTyped, DiskTyped, Names, Swap
  <1> DEFINE t == swaps[n].text
             r == [Closed EXCEPT !.open = TRUE, !.text = t, !.dirty = TRUE]
  <1>2. t \in Text /\ slot' = [slot EXCEPT ![p][i] = r]
    BY <1>1 DEF RecoverOrphan
  <1> HIDE DEF t
  <1>3. Has(r, TRUE, NoName, NoName, t, TRUE, FALSE, FALSE)
    BY <1>2, Bounds DEF Closed, Has, Slot
  <1>4. r \in Slot
    BY <1>3 DEF Has
  <1> HIDE DEF r
  <1>5. Only(p, i) /\ slot'[p][i] = r
    BY <1>2, <1>4, PutOne DEF SwapTyped
  <1> QED
    BY <1>1, <1>3, <1>5 DEF t

LEMMA ResetFacts ==
    ASSUME SwapTyped, NEW p \in Pid, NEW i \in Index,
           slot' = [slot EXCEPT ![p][i] = ResetSlot(slot[p][i])]
    PROVE  /\ Only(p, i)
           /\ Has(slot'[p][i], TRUE, NoName, slot[p][i].swap, Blank, FALSE, FALSE, FALSE)
  <1>1. slot[p][i] \in Slot
    BY SlotTyped DEF SwapTyped
  <1>2. Has(ResetSlot(slot[p][i]), TRUE, NoName, slot[p][i].swap, Blank, FALSE, FALSE, FALSE)
    BY <1>1, ResetHas
  <1>3. Only(p, i) /\ slot'[p][i] = ResetSlot(slot[p][i])
    BY <1>2, PutOne DEF SwapTyped, Has
  <1> QED
    BY <1>2, <1>3

LEMMA CloseFacts ==
    ASSUME SwapTyped, NEW p \in Pid, NEW i \in Index, slot' = [slot EXCEPT ![p][i] = Closed]
    PROVE  Only(p, i) /\ slot'[p][i] = Closed
  BY ClosedHas, PutOne DEF SwapTyped, Has

LEMMA AbortFacts ==
    ASSUME SwapTyped, NEW p \in Pid, AnswerAbort(p)
    PROVE  \/ slot' = [slot EXCEPT ![p][1] = ResetSlot(slot[p][1])]
           \/ slot' = [slot EXCEPT ![p][1] = Closed]
  <1>1. CASE Sole(p, 1)
    <2>1. slot' = [slot EXCEPT ![p][1] = ResetSlot(@)]
      BY <1>1 DEF AnswerAbort
    <2> QED
      BY <2>1, Bounds DEF SwapTyped, ProcTyped
  <1>2. CASE ~Sole(p, 1)
    <2>1. slot' = [slot EXCEPT ![p][1] = Closed]
      BY <1>2 DEF AnswerAbort
    <2> QED
      BY <2>1
  <1> QED
    BY <1>1, <1>2

LEMMA GoneFacts ==
    ASSUME SwapTyped, NEW p \in Pid, Gone(p)
    PROVE  /\ slot' \in [Pid -> [Index -> Slot]]
           /\ \A i \in Index : slot'[p][i] = Closed
           /\ \A q \in Pid \ {p} : slot'[q] = slot[q]
           /\ pc' = [pc EXCEPT ![p] = "dead"]
  <1>1. Closed \in Slot
    BY ClosedHas DEF Has
  <1>2. slot' = [slot EXCEPT ![p] = [i \in Index |-> Closed]]
    BY DEF Gone
  <1> HIDE DEF Closed
  <1> QED
    BY <1>1, <1>2 DEF SwapTyped, ProcTyped, Gone, Goto

\* Every step keeps the buffers typed.
LEMMA SlotsTypedStep ==
    ASSUME SwapTyped, NEW p \in Pid, Opening(p) \/ Startup(p) \/ Running(p)
    PROVE  slot' \in [Pid -> [Index -> Slot]]
  <1> USE Bounds
  <1>0. slot \in [Pid -> [Index -> Slot]] /\ DiskTyped /\ ProcTyped
    BY DEF SwapTyped, ProcTyped
  <1>1. CASE slot' = slot
    BY <1>0, <1>1
  <1>2. ASSUME NEW f \in File \cup {NoName}, Start(p, f) \/ OpenFile(p, f) PROVE slot' \in [Pid -> [Index -> Slot]]
    BY <1>2, OpenFacts DEF Start, OpenFile, Only
  <1>3. CASE OpenReadOnly(p)
    BY <1>0, <1>3, SetsReadOnly DEF OpenReadOnly, Only
  <1>4. CASE Arm(p)
    BY <1>0, <1>4, WriteFacts DEF Arm, Only
  <1>5. CASE Disable(p)
    BY <1>0, <1>5, SetsSwap DEF Disable, Only
  <1>6. ASSUME NEW n \in Pid \X Index, NEW i \in Index, RecoverOrphan(p, n, i)
        PROVE  slot' \in [Pid -> [Index -> Slot]]
    BY <1>6, RecoverFacts DEF Only
  <1>7. ASSUME NEW i \in Index, Type(p, i) PROVE slot' \in [Pid -> [Index -> Slot]]
    <2>1. typed + 1 \in Text
      BY <1>0, <1>7 DEF Type, DiskTyped, Text
    <2> QED
      BY <1>0, <1>7, <2>1, SetsText DEF Type, Only
  <1>8. ASSUME NEW i \in Index, IdleWrite(p, i) PROVE slot' \in [Pid -> [Index -> Slot]]
    BY <1>0, <1>8, WriteFacts DEF IdleWrite, Only
  <1>9. ASSUME NEW i \in Index, ExitClean(p, i) PROVE slot' \in [Pid -> [Index -> Slot]]
    BY <1>0, <1>9, SetsSwap DEF ExitClean, Only
  <1>10. ASSUME NEW i \in Index, NEW f \in File, NEW bang \in BOOLEAN, Save(p, i, f, bang)
         PROVE  slot' \in [Pid -> [Index -> Slot]]
    BY <1>0, <1>10, SetsFile DEF Save, Only
  <1>11. ASSUME NEW i \in Index, NEW bang \in BOOLEAN, CloseBuffer(p, i, bang)
         PROVE  slot' \in [Pid -> [Index -> Slot]]
    BY <1>11, ResetFacts, CloseFacts DEF CloseBuffer, Only
  <1>12. CASE SaveDone(p)
    <2>1. at[p] \in Index
      BY <1>0 DEF ProcTyped
    <2> QED
      BY <1>0, <1>12, <2>1, SetsUnsynced DEF SaveDone, Only
  <1>13. CASE AnswerYes(p)
    <2>1. pending[p] \in Text
      BY <1>0, <1>13 DEF AnswerYes, ProcTyped
    <2> QED
      BY <1>0, <1>13, <2>1, SetsText DEF AnswerYes, Only
  <1>14. CASE AnswerAbort(p)
    BY <1>14, AbortFacts, ResetFacts, CloseFacts DEF Only
  <1>15. CASE ExitDone(p) \/ Crash(p)
    BY <1>15, GoneFacts DEF ExitDone, Crash
  <1>16. CheckExists(p) \/ ForceRecover(p) \/ ReadSwap(p) \/ DropStale(p) \/ Prompt(p)
           \/ Scan(p) \/ EnterLoop(p) \/ AnswerNo(p) => slot' = slot
    BY DEF CheckExists, ForceRecover, ReadSwap, DropStale, Prompt, Scan, EnterLoop, AnswerNo
  <1>17. /\ \A n \in Pid \X Index : SkipOrphan(p, n) => slot' = slot
         /\ \A bang \in BOOLEAN : Quit(p, bang) => slot' = slot
    BY DEF SkipOrphan, Quit
  <1>18. CASE Opening(p)
    BY <1>1, <1>2, <1>3, <1>4, <1>16, <1>18 DEF Opening
  <1>19. CASE Startup(p)
    BY <1>1, <1>5, <1>6, <1>16, <1>17, <1>19 DEF Startup
  <1>20. CASE Running(p)
    BY <1>1, <1>7, <1>8, <1>9, <1>10, <1>11, <1>12, <1>13, <1>14, <1>15, <1>16, <1>17, <1>20
      DEF Running
  <1> QED
    BY <1>18, <1>19, <1>20

----------------------------------------------------------------------------
(***************************************************************************)
(* Types.                                                                  *)
(***************************************************************************)
Step(p) == Opening(p) \/ Startup(p) \/ Running(p)

\* A step of p leaves the other processes alone.
Frame(p) ==
    \A q \in Pid \ {p} :
        /\ pc'[q] = pc[q] /\ slot'[q] = slot[q] /\ seen'[q] = seen[q]
        /\ force'[q] = force[q] /\ pending'[q] = pending[q] /\ at'[q] = at[q]
        /\ cand'[q] = cand[q]

LEMMA NoWriterHas ==
    /\ NoWriter \in Swap
    /\ NoWriter.text = Blank /\ NoWriter.time = 0 /\ NoWriter.pid = NoName /\ NoWriter.of = NoName
  BY Bounds DEF NoWriter, Swap

\* A swap is written, removed or left alone, the first two under its lock.
OneSwap(p) ==
    \/ swaps' = swaps
    \/ \E n \in Names, w \in Swap : Free(n, p) /\ swaps' = [swaps EXCEPT ![n] = w]

ProcKept(p) ==
    /\ pc' \in [Pid -> Place] /\ seen' \in [Pid -> Swap]
    /\ pending' \in [Pid -> Text \cup {NoBody}] /\ cand' \in [Pid -> SUBSET (Pid \X Index)]
    /\ at' \in [Pid -> Index]
    /\ FlagsTyped'
    /\ Frame(p)

LEMMA OpeningProc ==
    ASSUME SwapTyped, NameInv, NEW p \in Pid, Opening(p)
    PROVE  ProcKept(p)
  <1> USE DEF ProcKept, Frame, SwapTyped, ProcTyped, FlagsTyped, Goto, Place, procVars
  <1>1. ASSUME NEW f \in File \cup {NoName}, Start(p, f) PROVE ProcKept(p)
    BY <1>1 DEF Start
  <1>2. ASSUME NEW f \in File \cup {NoName}, OpenFile(p, f) PROVE ProcKept(p)
    BY <1>2 DEF OpenFile
  <1>3. CASE CheckExists(p)
    BY <1>3 DEF CheckExists
  <1>4. CASE ForceRecover(p)
    BY <1>4 DEF ForceRecover
  <1>5. CASE ReadSwap(p)
    <2>1. slot[p][1].swap \in Names
      BY <1>5 DEF ReadSwap, NameInv, ProcNames, ChecksAFile
    <2>2. swaps[slot[p][1].swap] \in Swap
      BY <2>1 DEF DiskTyped
    <2> QED
      BY <1>5, <2>2 DEF ReadSwap
  <1>6. CASE OpenReadOnly(p)
    BY <1>6, NoWriterHas DEF OpenReadOnly, Checked, Opened
  <1>7. CASE DropStale(p)
    BY <1>7, NoWriterHas DEF DropStale, Checked
  <1>8. CASE Prompt(p)
    BY <1>8, NoWriterHas DEF Prompt, Checked, Opened, Swap
  <1>9. CASE Arm(p)
    BY <1>9 DEF Arm, Opened, WriteSwap
  <1> QED
    BY <1>1, <1>2, <1>3, <1>4, <1>5, <1>6, <1>7, <1>8, <1>9 DEF Opening

LEMMA StartupProc ==
    ASSUME SwapTyped, NEW p \in Pid, Startup(p)
    PROVE  ProcKept(p)
  <1> USE DEF ProcKept, Frame, SwapTyped, ProcTyped, FlagsTyped, Goto, Place
  <1>1. CASE Disable(p)
    BY <1>1 DEF Disable
  <1>2. CASE Scan(p)
    BY <1>2 DEF Scan, Orphans
  <1>3. CASE EnterLoop(p)
    BY <1>3 DEF EnterLoop
  <1>4. ASSUME NEW n \in Pid \X Index, SkipOrphan(p, n) PROVE ProcKept(p)
    BY <1>4 DEF SkipOrphan
  <1>5. ASSUME NEW n \in Pid \X Index, NEW i \in Index, RecoverOrphan(p, n, i) PROVE ProcKept(p)
    BY <1>5 DEF RecoverOrphan
  <1> QED
    BY <1>1, <1>2, <1>3, <1>4, <1>5 DEF Startup

LEMMA RunningProc ==
    ASSUME SwapTyped, NEW p \in Pid, Running(p)
    PROVE  ProcKept(p)
  <1> USE DEF ProcKept, Frame, SwapTyped, ProcTyped, FlagsTyped, Goto, Place, procVars
  <1>1. ASSUME NEW i \in Index, Type(p, i) PROVE ProcKept(p)
    BY <1>1 DEF Type
  <1>2. ASSUME NEW i \in Index, IdleWrite(p, i) PROVE ProcKept(p)
    BY <1>2 DEF IdleWrite, WriteSwap
  <1>3. ASSUME NEW i \in Index, ExitClean(p, i) PROVE ProcKept(p)
    BY <1>3 DEF ExitClean
  <1>4. ASSUME NEW i \in Index, NEW f \in File, NEW bang \in BOOLEAN, Save(p, i, f, bang)
        PROVE  ProcKept(p)
    BY <1>4 DEF Save
  <1>5. ASSUME NEW i \in Index, NEW bang \in BOOLEAN, CloseBuffer(p, i, bang) PROVE ProcKept(p)
    <2>1. UNCHANGED <<pc, procVars>> /\ \A q \in Pid \ {p} : slot'[q] = slot[q]
      BY <1>5 DEF CloseBuffer
    <2> QED
      BY <2>1
  <1>6. CASE SaveDone(p)
    BY <1>6, Bounds DEF SaveDone
  <1>7. CASE AnswerYes(p)
    BY <1>7 DEF AnswerYes
  <1>8. CASE AnswerNo(p)
    BY <1>8 DEF AnswerNo
  <1>9. CASE AnswerAbort(p)
    BY <1>9 DEF AnswerAbort
  <1>10. ASSUME NEW bang \in BOOLEAN, Quit(p, bang) PROVE ProcKept(p)
    BY <1>10 DEF Quit
  <1>11. CASE ExitDone(p) \/ Crash(p)
    <2>1. Gone(p)
      BY <1>11 DEF ExitDone, Crash
    <2>2. pc' \in [Pid -> Place] /\ pending' \in [Pid -> Text \cup {NoBody}]
            /\ cand' \in [Pid -> SUBSET (Pid \X Index)] /\ at' \in [Pid -> Index]
      BY <2>1, Bounds DEF Gone
    <2>3. seen' \in [Pid -> Swap] /\ FlagsTyped'
      BY <2>1, NoWriterHas DEF Gone
    <2>4. Frame(p)
      BY <2>1, GoneFacts DEF Gone
    <2> QED
      BY <2>2, <2>3, <2>4
  <1> QED
    BY <1>1, <1>2, <1>3, <1>4, <1>5, <1>6, <1>7, <1>8, <1>9, <1>10, <1>11 DEF Running

LEMMA ProcStep ==
    ASSUME SwapTyped, NameInv, NEW p \in Pid, Step(p)
    PROVE  ProcTyped' /\ FlagsTyped' /\ Frame(p)
  <1>1. ProcKept(p)
    BY OpeningProc, StartupProc, RunningProc DEF Step
  <1>2. slot' \in [Pid -> [Index -> Slot]]
    BY SlotsTypedStep DEF Step
  <1> QED
    BY <1>1, <1>2 DEF ProcKept, ProcTyped

\* What a step does to the files and the counters.
DiskKept ==
    /\ disk' \in [File -> [text : Text, mtime : 0..MaxClock]]
    /\ clock' \in 0..MaxClock /\ clock <= clock'
    /\ typed' \in Text /\ typed <= typed'
    /\ starts' \in 0..MaxStarts

LEMMA SharedGrows ==
    ASSUME Track, shared \subseteq File
    PROVE  shared \subseteq shared' /\ shared' \subseteq File
  BY DEF Track, Sharing

LEMMA StepTracks == ASSUME NEW p \in Pid, Step(p) PROVE Track
  <1>1. CASE Opening(p)
    BY <1>1 DEF Opening, Start, OpenFile, CheckExists, ForceRecover, ReadSwap, OpenReadOnly,
                DropStale, Prompt, Arm
  <1>2. CASE Startup(p)
    BY <1>2 DEF Startup, Disable, Scan, EnterLoop, SkipOrphan, RecoverOrphan
  <1>3. CASE Running(p)
    BY <1>3 DEF Running, Type, IdleWrite, ExitClean, Save, CloseBuffer, SaveDone, AnswerYes,
                AnswerNo, AnswerAbort, Quit, ExitDone, Crash, Gone
  <1> QED
    BY <1>1, <1>2, <1>3 DEF Step

\* No other action writes a file, tells the time or types.
LEMMA DiskStep ==
    ASSUME SwapTyped, NEW p \in Pid, Step(p)
    PROVE  DiskKept
  <1> DEFINE Calm == UNCHANGED <<disk, clock, typed, starts>>
  <1>0. /\ disk \in [File -> [text : Text, mtime : 0..MaxClock]]
        /\ clock \in 0..MaxClock /\ typed \in Text /\ starts \in 0..MaxStarts
    BY DEF SwapTyped, DiskTyped
  <1>1. CASE Calm
    BY <1>0, <1>1, Bounds DEF DiskKept, Text
  <1>2. ASSUME NEW f \in File \cup {NoName}, Start(p, f) PROVE DiskKept
    BY <1>0, <1>2, Bounds DEF Start, DiskKept, Text
  <1>3. ASSUME NEW i \in Index, WriteSwap(p, i), UNCHANGED <<disk, typed, starts>> PROVE DiskKept
    BY <1>0, <1>3, Bounds DEF WriteSwap, Now, DiskKept, Text
  <1>4. ASSUME NEW i \in Index, Type(p, i) PROVE DiskKept
    BY <1>0, <1>4, Bounds DEF Type, DiskKept, Text
  <1>5. ASSUME NEW i \in Index, NEW f \in File, NEW bang \in BOOLEAN, Save(p, i, f, bang)
        PROVE  DiskKept
    <2>1. clock' \in 0..MaxClock /\ clock <= clock'
      BY <1>0, <1>5, Bounds DEF Save, Now
    <2>2. slot[p][i].text \in Text
      BY SlotTyped DEF SwapTyped
    <2>3. disk' \in [File -> [text : Text, mtime : 0..MaxClock]]
      BY <1>0, <1>5, <2>1, <2>2 DEF Save
    <2> QED
      BY <1>0, <1>5, <2>1, <2>3, Bounds DEF Save, DiskKept, Text
  <1>6. CASE Opening(p)
    <2>1. CASE Arm(p)
      BY <1>1, <1>3, <2>1, Bounds DEF Arm
    <2> QED
      BY <1>1, <1>2, <1>6, <2>1 DEF Opening, OpenFile, CheckExists, ForceRecover, ReadSwap,
                  OpenReadOnly, DropStale, Prompt, Checked
  <1>7. CASE Startup(p)
    BY <1>1, <1>7 DEF Startup, Disable, Scan, EnterLoop, SkipOrphan, RecoverOrphan
  <1>8. CASE Running(p)
    <2>1. ASSUME NEW i \in Index, IdleWrite(p, i) PROVE DiskKept
      BY <1>3, <2>1 DEF IdleWrite
    <2> QED
      BY <1>1, <1>4, <1>5, <1>8, <2>1 DEF Running, ExitClean, CloseBuffer, SaveDone, AnswerYes,
                  AnswerNo, AnswerAbort, Quit, ExitDone, Crash, Gone
  <1> QED
    BY <1>6, <1>7, <1>8 DEF Step

LEMMA SwapStep ==
    ASSUME SwapTyped, NameInv, LockInv, NEW p \in Pid, Step(p)
    PROVE  OneSwap(p)
  <1>1. CASE swaps' = swaps
    BY <1>1 DEF OneSwap
  <1>2. ASSUME NEW n \in Names, Free(n, p), swaps' = Removed(n) PROVE OneSwap(p)
    BY <1>2, NoWriterHas DEF OneSwap, Removed
  <1>3. ASSUME NEW i \in Index, WriteSwap(p, i) PROVE OneSwap(p)
    <2> DEFINE w == [text |-> slot[p][i].text, time |-> clock', pid |-> p, of |-> slot[p][i].file]
               n == Target(p, i)
    <2>0. DiskTyped /\ ProcTyped
      BY DEF SwapTyped
    <2>1. /\ n \in Names /\ Free(n, p) /\ swaps' = [swaps EXCEPT ![n] = w]
          /\ clock' \in Nat /\ clock' <= MaxClock
      BY <1>3, <2>0, WriteFacts
    <2>2. slot[p][i].text \in Text /\ slot[p][i].file \in File \cup {NoName}
      BY SlotTyped DEF SwapTyped
    <2>3. w \in Swap
      BY <2>1, <2>2, Bounds DEF Swap
    <2> QED
      BY <2>1, <2>3 DEF OneSwap
  <1>4. ASSUME NEW i \in Index PROVE slot[p][i].swap # NoName => slot[p][i].swap \in Names
    BY SlotTyped DEF SwapTyped
  <1>5. CASE Opening(p)
    <2>1. CASE Arm(p)
      BY <1>1, <1>3, <2>1, Bounds DEF Arm
    <2>2. CASE DropStale(p)
      <3>1. slot[p][1].swap \in Names /\ Decides(p, slot[p][1].swap)
        BY <2>2 DEF DropStale, Checked, NameInv, ProcNames, ChecksAFile, Decides
      <3>2. Free(slot[p][1].swap, p)
        BY <3>1 DEF LockInv, Decides, Free
      <3> QED
        BY <1>2, <2>2, <3>1, <3>2 DEF DropStale
    <2> QED
      BY <1>1, <1>5, <2>1, <2>2 DEF Opening, Start, OpenFile, CheckExists, ForceRecover, ReadSwap,
                  OpenReadOnly, Prompt, Checked
  <1>6. CASE Startup(p)
    <2>1. CASE Disable(p)
      BY <1>1, <1>2, <1>4, <2>1, Bounds DEF Disable
    <2>2. ASSUME NEW n \in Pid \X Index, NEW i \in Index, RecoverOrphan(p, n, i) PROVE OneSwap(p)
      <3>1. n \in Names
        BY DEF Names
      <3> QED
        BY <1>2, <2>2, <3>1 DEF RecoverOrphan, OrphanGone
    <2> QED
      BY <1>1, <1>6, <2>1, <2>2 DEF Startup, Scan, EnterLoop, SkipOrphan
  <1>7. CASE Running(p)
    <2>1. ASSUME NEW i \in Index, IdleWrite(p, i) PROVE OneSwap(p)
      BY <1>3, <2>1 DEF IdleWrite
    <2>2. ASSUME NEW i \in Index, ExitClean(p, i) PROVE OneSwap(p)
      BY <1>2, <1>4, <2>2 DEF ExitClean
    <2>3. ASSUME NEW i \in Index, NEW bang \in BOOLEAN, CloseBuffer(p, i, bang) PROVE OneSwap(p)
      BY <1>1, <1>2, <1>4, <2>3 DEF CloseBuffer
    <2>4. CASE SaveDone(p)
      BY <1>1, <1>2, <1>4, <2>4 DEF SaveDone, SwapTyped, ProcTyped
    <2> QED
      BY <1>1, <1>7, <2>1, <2>2, <2>3, <2>4 DEF Running, Type, Save, AnswerYes, AnswerNo,
                  AnswerAbort, Quit, ExitDone, Crash, Gone
  <1> QED
    BY <1>5, <1>6, <1>7 DEF Step

LEMMA TypedStep ==
    ASSUME SwapTyped, NameInv, LockInv, NEW p \in Pid, Step(p)
    PROVE  SwapTyped' /\ Frame(p) /\ DiskKept /\ OneSwap(p) /\ shared \subseteq shared'
  <1>1. ProcTyped' /\ FlagsTyped' /\ Frame(p) /\ DiskKept /\ OneSwap(p)
    BY ProcStep, DiskStep, SwapStep
  <1>2. shared \subseteq shared' /\ shared' \subseteq File
    BY StepTracks, SharedGrows DEF SwapTyped, DiskTyped
  <1>3. swaps' \in [Names -> Swap]
    BY <1>1 DEF OneSwap, SwapTyped, DiskTyped
  <1>4. DiskTyped'
    BY <1>1, <1>2, <1>3 DEF DiskKept, DiskTyped
  <1> QED
    BY <1>1, <1>2, <1>4 DEF SwapTyped

----------------------------------------------------------------------------
(***************************************************************************)
(* What a step of p makes of one of its buffers, by the action that it is. *)
(***************************************************************************)
WasOpened(p, i, t) ==
    \E f \in File \cup {NoName} :
        /\ i = 1 /\ (Start(p, f) \/ (f \in File /\ OpenFile(p, f)))
        /\ Has(t, TRUE, f, f, IF f = NoName THEN Blank ELSE disk[f].text, FALSE, FALSE, FALSE)

WasWritten(p, i, s, t) ==
    /\ WriteSwap(p, i)
    /\ IdleWrite(p, i) \/ (Arm(p) /\ i = 1)
    /\ Has(t, s.open, s.file, Target(p, i), s.text, s.dirty, TRUE, s.ro)

WasSaved(p, i, s, t) ==
    \E f \in File, bang \in BOOLEAN :
        Save(p, i, f, bang) /\ Has(t, s.open, f, s.swap, s.text, FALSE, s.synced, s.ro)

\* Typed into, or given the text of the prompt.
WasChanged(p, i, s, t) ==
    \E b \in Text :
        /\ (Type(p, i) /\ b = typed + 1) \/ (AnswerYes(p) /\ i = 1 /\ b = pending[p])
        /\ Has(t, s.open, s.file, s.swap, b, TRUE, FALSE, s.ro)

WasRecovered(p, i, t) ==
    \E n \in Pid \X Index :
        RecoverOrphan(p, n, i) /\ Has(t, TRUE, NoName, NoName, swaps[n].text, TRUE, FALSE, FALSE)

LostSwap(s, t) ==
    \E r \in BOOLEAN : Has(t, s.open, s.file, NoName, s.text, s.dirty, s.synced, r)

\* reset_slot_to_scratch, or remove_swap after a save.
LostSync(s, t) ==
    \/ Has(t, TRUE, NoName, s.swap, Blank, FALSE, FALSE, FALSE)
    \/ Has(t, s.open, s.file, s.swap, s.text, s.dirty, FALSE, s.ro)

Becomes(p, i, s, t) ==
    \/ t = s
    \/ t = Closed
    \/ WasOpened(p, i, t)
    \/ WasWritten(p, i, s, t)
    \/ WasSaved(p, i, s, t)
    \/ WasChanged(p, i, s, t)
    \/ WasRecovered(p, i, t)
    \/ LostSwap(s, t)
    \/ LostSync(s, t)

LEMMA SlotStep ==
    ASSUME SwapTyped, NEW p \in Pid, NEW j \in Index, Step(p)
    PROVE  Becomes(p, j, slot[p][j], slot'[p][j])
  <1> USE Bounds
  <1> DEFINE Goal == Becomes(p, j, slot[p][j], slot'[p][j])
  <1>0. DiskTyped /\ ProcTyped /\ slot \in [Pid -> [Index -> Slot]]
    BY DEF SwapTyped, ProcTyped
  <1>1. CASE slot' = slot
    BY <1>1 DEF Becomes
  <1>2. ASSUME NEW i \in Index, Only(p, i), Becomes(p, i, slot[p][i], slot'[p][i]) PROVE Goal
    BY <1>2 DEF Only, Becomes
  <1>3. ASSUME NEW f \in File \cup {NoName}, Start(p, f) \/ (f \in File /\ OpenFile(p, f)) PROVE Goal
    <2>1. Only(p, 1) /\ WasOpened(p, 1, slot'[p][1])
      BY <1>3, OpenFacts DEF Start, OpenFile, WasOpened
    <2> QED
      BY <1>2, <2>1 DEF Becomes
  <1>4. ASSUME NEW i \in Index, WriteSwap(p, i), IdleWrite(p, i) \/ (Arm(p) /\ i = 1) PROVE Goal
    <2>1. Only(p, i) /\ WasWritten(p, i, slot[p][i], slot'[p][i])
      BY <1>0, <1>4, WriteFacts DEF WasWritten
    <2> QED
      BY <1>2, <2>1 DEF Becomes
  <1>5. ASSUME NEW i \in Index, NEW f \in File, NEW bang \in BOOLEAN, Save(p, i, f, bang) PROVE Goal
    <2>1. Only(p, i) /\ WasSaved(p, i, slot[p][i], slot'[p][i])
      BY <1>0, <1>5, SetsFile DEF Save, WasSaved
    <2> QED
      BY <1>2, <2>1 DEF Becomes
  <1>6. ASSUME NEW i \in Index, Type(p, i) PROVE Goal
    <2> DEFINE b == typed + 1
    <2>1. b \in Text /\ slot' = [slot EXCEPT ![p][i].text = b, ![p][i].dirty = TRUE,
                                            ![p][i].synced = FALSE]
      BY <1>0, <1>6 DEF Type, DiskTyped, Text
    <2>2. Type(p, i) /\ b = typed + 1
      BY <1>6
    <2> HIDE DEF b
    <2>3. Only(p, i) /\ WasChanged(p, i, slot[p][i], slot'[p][i])
      BY <1>0, <2>1, <2>2, SetsText DEF WasChanged
    <2> QED
      BY <1>2, <2>3 DEF Becomes
  <1>7. CASE AnswerYes(p)
    <2>1. pending[p] \in Text
      BY <1>0, <1>7 DEF AnswerYes, ProcTyped
    <2>2. Only(p, 1) /\ WasChanged(p, 1, slot[p][1], slot'[p][1])
      BY <1>0, <1>7, <2>1, SetsText DEF AnswerYes, WasChanged
    <2> QED
      BY <1>2, <2>2 DEF Becomes
  <1>8. ASSUME NEW n \in Pid \X Index, NEW i \in Index, RecoverOrphan(p, n, i) PROVE Goal
    <2>1. Only(p, i) /\ WasRecovered(p, i, slot'[p][i])
      BY <1>8, RecoverFacts DEF WasRecovered
    <2> QED
      BY <1>2, <2>1 DEF Becomes
  <1>9. CASE OpenReadOnly(p)
    <2>1. Only(p, 1) /\ LostSwap(slot[p][1], slot'[p][1])
      BY <1>0, <1>9, SetsReadOnly DEF OpenReadOnly, LostSwap
    <2> QED
      BY <1>2, <2>1 DEF Becomes
  <1>10. ASSUME NEW i \in Index, slot' = [slot EXCEPT ![p][i].swap = NoName] PROVE Goal
    <2>1. Only(p, i) /\ LostSwap(slot[p][i], slot'[p][i])
      <3>1. slot[p][i].ro \in BOOLEAN
        BY <1>0 DEF Slot
      <3> QED
        BY <1>0, <1>10, <3>1, SetsSwap DEF LostSwap
    <2> QED
      BY <1>2, <2>1 DEF Becomes
  <1>11. ASSUME NEW i \in Index, slot' = [slot EXCEPT ![p][i] = ResetSlot(slot[p][i])] PROVE Goal
    <2>1. Only(p, i) /\ LostSync(slot[p][i], slot'[p][i])
      BY <1>11, ResetFacts DEF LostSync
    <2> QED
      BY <1>2, <2>1 DEF Becomes
  <1>12. ASSUME NEW i \in Index, slot' = [slot EXCEPT ![p][i].synced = FALSE] PROVE Goal
    <2>1. Only(p, i) /\ LostSync(slot[p][i], slot'[p][i])
      BY <1>0, <1>12, SetsUnsynced DEF LostSync
    <2> QED
      BY <1>2, <2>1 DEF Becomes
  <1>13. ASSUME NEW i \in Index, slot' = [slot EXCEPT ![p][i] = Closed] PROVE Goal
    BY <1>2, <1>13, CloseFacts DEF Becomes
  <1>14. CASE ExitDone(p) \/ Crash(p)
    BY <1>14, GoneFacts DEF ExitDone, Crash, Becomes
  <1>15. CASE Opening(p)
    BY <1>1, <1>3, <1>4, <1>9, <1>15 DEF Opening, CheckExists, ForceRecover, ReadSwap, DropStale,
                                         Prompt, Arm
  <1>16. CASE Startup(p)
    BY <1>1, <1>8, <1>10, <1>16 DEF Startup, Disable, Scan, EnterLoop, SkipOrphan
  <1>17. CASE Running(p)
    <2>1. ASSUME NEW i \in Index, NEW bang \in BOOLEAN, CloseBuffer(p, i, bang) PROVE Goal
      BY <1>11, <1>13, <2>1 DEF CloseBuffer
    <2>2. CASE AnswerAbort(p)
      BY <1>11, <1>13, <2>2, AbortFacts
    <2>3. CASE SaveDone(p)
      <3>1. at[p] \in Index
        BY <1>0 DEF ProcTyped
      <3> QED
        BY <1>1, <1>12, <2>3, <3>1 DEF SaveDone
    <2>4. ASSUME NEW i \in Index, IdleWrite(p, i) \/ ExitClean(p, i) PROVE Goal
      BY <1>4, <1>10, <2>4 DEF IdleWrite, ExitClean
    <2> QED
      BY <1>1, <1>5, <1>6, <1>7, <1>14, <1>17, <2>1, <2>2, <2>3, <2>4
        DEF Running, AnswerNo, Quit
  <1> QED
    BY <1>15, <1>16, <1>17 DEF Step

----------------------------------------------------------------------------
(***************************************************************************)
(* The lock.                                                               *)
(***************************************************************************)
\* A process comes to its decision by reading the swap, and leaves it by the
\* decision; the swap it looks at is another one by then only.
LEMMA Deciding ==
    ASSUME SwapTyped, NameInv, NEW p \in Pid, Step(p), pc'[p] = "decide"
    PROVE  ReadSwap(p)
  <1> USE DEF Goto, SwapTyped, ProcTyped
  <1>1. CASE Opening(p)
    BY <1>1 DEF Opening, Start, OpenFile, CheckExists, ForceRecover, Attending,
                OpenReadOnly, DropStale, Prompt, Checked, Arm, Opened
  <1>2. CASE Startup(p)
    BY <1>2 DEF Startup, Disable, Scan, EnterLoop, SkipOrphan, RecoverOrphan
  <1>3. CASE Running(p)
    BY <1>3 DEF Running, Type, IdleWrite, ExitClean, Save, CloseBuffer, SaveDone, AnswerYes,
                AnswerNo, AnswerAbort, Quit, ExitDone, Crash, Gone, Attending
  <1> QED
    BY <1>1, <1>2, <1>3 DEF Step

LEMMA LockStep ==
    ASSUME SwapTyped, NameInv, LockInv, NEW p \in Pid, Step(p)
    PROVE  LockInv'
  <1> SUFFICES ASSUME NEW q \in Pid, NEW n \in Names, Decides(q, n)'
               PROVE  /\ seen'[q] = swaps'[n] /\ Exists(n)'
                      /\ \A r \in Pid : Decides(r, n)' => r = q
    BY DEF LockInv
  <1>1. SwapTyped' /\ Frame(p) /\ OneSwap(p)
    BY TypedStep
  <1>2. ASSUME NEW r \in Pid, r # p, Decides(r, n)'
        PROVE  Decides(r, n) /\ ~Free(n, p) /\ seen'[r] = seen[r]
    BY <1>1, <1>2 DEF Frame, Decides, Free
  <1>3. Decides(p, n)' => ReadSwap(p) /\ slot' = slot /\ swaps' = swaps
    BY Deciding DEF Decides, ReadSwap
  <1>4. Decides(p, n)' => Free(n, p) /\ seen'[p] = swaps'[n] /\ Exists(n)'
    BY <1>3 DEF ReadSwap, Decides, Exists, Goto, SwapTyped, ProcTyped
  <1>5. CASE q = p
    BY <1>2, <1>4, <1>5
  <1>6. CASE q # p
    <2>1. Decides(q, n) /\ ~Free(n, p) /\ seen'[q] = seen[q]
      BY <1>2, <1>6
    <2>2. swaps'[n] = swaps[n]
      BY <1>1, <2>1 DEF OneSwap, SwapTyped, DiskTyped
    <2> QED
      BY <1>2, <1>4, <2>1, <2>2 DEF LockInv, Exists
  <1> QED
    BY <1>5, <1>6

----------------------------------------------------------------------------
(***************************************************************************)
(* Names.                                                                  *)
(***************************************************************************)
\* A step that puts s in slot i of p and leaves the other slots.
LEMMA OneSlotNamed ==
    ASSUME NEW p \in Pid, NEW i \in Index, ProcNames(p), Only(p, i), NamedWell(slot'[p][i], p, i)
    PROVE  \A j \in Index : NamedWell(slot'[p][j], p, j)
  BY DEF ProcNames, Only

LEMMA OpeningNames ==
    ASSUME SwapTyped, NEW p \in Pid, ProcNames(p), Opening(p)
    PROVE  ProcNames(p)'
  <1> USE Bounds DEF Goto
  <1>0. /\ DiskTyped /\ ProcTyped /\ slot \in [Pid -> [Index -> Slot]] /\ pc \in [Pid -> Place]
        /\ pending \in [Pid -> Text \cup {NoBody}]
    BY DEF SwapTyped, ProcTyped
  <1>1. ASSUME NEW f \in File \cup {NoName}, Start(p, f) PROVE ProcNames(p)'
    <2>1. Only(p, 1) /\ Has(slot'[p][1], TRUE, f, f, IF f = NoName THEN Blank ELSE disk[f].text,
                            FALSE, FALSE, FALSE)
      BY <1>1, OpenFacts DEF Start
    <2>2. NamedWell(slot'[p][1], p, 1)
      BY <2>1 DEF Has, NamedWell
    <2>3. pending[p] = NoBody
      BY <1>1 DEF Start, ProcNames, ChecksAFile, DeadHoldsNothing, Closed
    <2>4. ChecksAFile(p)' /\ DeadHoldsNothing(p)'
      BY <1>0, <1>1, <2>1, <2>3 DEF Start, ChecksAFile, DeadHoldsNothing, Has, Names, procVars
    <2> QED
      BY <2>1, <2>2, <2>4, OneSlotNamed DEF ProcNames
  <1>2. ASSUME NEW f \in File, OpenFile(p, f) PROVE ProcNames(p)'
    <2>1. Only(p, 1) /\ Has(slot'[p][1], TRUE, f, f, IF f = NoName THEN Blank ELSE disk[f].text,
                            FALSE, FALSE, FALSE)
      BY <1>2, OpenFacts DEF OpenFile
    <2>2. NamedWell(slot'[p][1], p, 1)
      BY <2>1 DEF Has, NamedWell
    <2>3. ChecksAFile(p)' /\ DeadHoldsNothing(p)'
      BY <1>0, <1>2, <2>1 DEF OpenFile, ChecksAFile, DeadHoldsNothing, Has, Names
    <2> QED
      BY <2>1, <2>2, <2>3, OneSlotNamed DEF ProcNames
  <1>3. CASE CheckExists(p)
    BY <1>0, <1>3 DEF CheckExists, ProcNames, ChecksAFile, DeadHoldsNothing, procVars
  <1>4. CASE ForceRecover(p)
    <2>1. slot[p][1].file \in File /\ slot[p][1].swap \in Names /\ slot[p][1].open
      BY <1>0, <1>4, SlotTyped DEF ForceRecover, ProcNames, NamedWell
    <2> QED
      BY <1>0, <1>4, <2>1 DEF ForceRecover, ProcNames, ChecksAFile, DeadHoldsNothing
  <1>5. CASE ReadSwap(p)
    BY <1>0, <1>5 DEF ReadSwap, ProcNames, ChecksAFile, DeadHoldsNothing
  <1>6. CASE OpenReadOnly(p)
    <2> DEFINE s == slot[p][1]
    <2>1. Only(p, 1) /\ Has(slot'[p][1], s.open, s.file, NoName, s.text, s.dirty, s.synced, TRUE)
      BY <1>0, <1>6, SetsReadOnly DEF OpenReadOnly
    <2>2. NamedWell(s, p, 1) /\ s.file \in File
      BY <1>6 DEF ProcNames, ChecksAFile, OpenReadOnly, Checked
    <2>3. NamedWell(slot'[p][1], p, 1)
      BY <2>1, <2>2 DEF Has, NamedWell
    <2>4. ChecksAFile(p)' /\ DeadHoldsNothing(p)'
      BY <1>0, <1>6, <2>1, <2>2 DEF OpenReadOnly, Checked, ProcNames, ChecksAFile,
                                    DeadHoldsNothing, Has, Opened
    <2> QED
      BY <2>1, <2>3, <2>4, OneSlotNamed DEF ProcNames
  <1>7. CASE DropStale(p)
    BY <1>0, <1>7 DEF DropStale, Checked, ProcNames, ChecksAFile, DeadHoldsNothing
  <1>8. CASE Prompt(p)
    BY <1>0, <1>8 DEF Prompt, Checked, Opened, ProcNames, ChecksAFile, DeadHoldsNothing
  <1>9. CASE Arm(p)
    <2> DEFINE s == slot[p][1]
               n == Target(p, 1)
    <2>1. CASE off[p]
      BY <1>0, <1>9, <2>1 DEF Arm, Opened, ProcNames, ChecksAFile, DeadHoldsNothing, procVars
    <2>2. CASE ~off[p]
      <3>1. n \in Names /\ Only(p, 1)
              /\ Has(slot'[p][1], s.open, s.file, n, s.text, s.dirty, TRUE, s.ro)
        BY <1>0, <1>9, <2>2, WriteFacts DEF Arm
      <3>2. NamedWell(s, p, 1) /\ s.file \in File /\ n = s.swap
        BY <1>9 DEF ProcNames, ChecksAFile, Arm, Target
      <3>3. NamedWell(slot'[p][1], p, 1)
        BY <3>1, <3>2 DEF Has, NamedWell
      <3>4. ChecksAFile(p)' /\ DeadHoldsNothing(p)'
        BY <1>0, <1>9, <3>1, <3>2 DEF Arm, ProcNames, ChecksAFile, DeadHoldsNothing, Has,
                                      Opened, procVars
      <3> QED
        BY <3>1, <3>3, <3>4, OneSlotNamed DEF ProcNames
    <2> QED
      BY <2>1, <2>2
  <1> QED
    BY <1>1, <1>2, <1>3, <1>4, <1>5, <1>6, <1>7, <1>8, <1>9 DEF Opening

LEMMA StartupNames ==
    ASSUME SwapTyped, NEW p \in Pid, ProcNames(p), Startup(p)
    PROVE  ProcNames(p)'
  <1> USE Bounds DEF Goto
  <1>0. /\ DiskTyped /\ ProcTyped /\ slot \in [Pid -> [Index -> Slot]] /\ pc \in [Pid -> Place]
        /\ pending \in [Pid -> Text \cup {NoBody}]
    BY DEF SwapTyped, ProcTyped
  <1>1. CASE Disable(p)
    <2> DEFINE s == slot[p][1]
    <2>1. Only(p, 1) /\ Has(slot'[p][1], s.open, s.file, NoName, s.text, s.dirty, s.synced, s.ro)
      BY <1>0, <1>1, SetsSwap DEF Disable
    <2>2. NamedWell(slot'[p][1], p, 1)
      BY <2>1 DEF Has, NamedWell, ProcNames
    <2>3. ChecksAFile(p)' /\ DeadHoldsNothing(p)'
      BY <1>0, <1>1, <2>1 DEF Disable, ProcNames, ChecksAFile, DeadHoldsNothing, Has
    <2> QED
      BY <2>1, <2>2, <2>3, OneSlotNamed DEF ProcNames
  <1>2. CASE Scan(p)
    BY <1>0, <1>2 DEF Scan, ProcNames, ChecksAFile, DeadHoldsNothing
  <1>3. CASE EnterLoop(p)
    BY <1>0, <1>3 DEF EnterLoop, ProcNames, ChecksAFile, DeadHoldsNothing
  <1>4. ASSUME NEW n \in Pid \X Index, SkipOrphan(p, n) PROVE ProcNames(p)'
    BY <1>0, <1>4 DEF SkipOrphan, ProcNames, ChecksAFile, DeadHoldsNothing
  <1>5. ASSUME NEW n \in Pid \X Index, NEW i \in Index, RecoverOrphan(p, n, i) PROVE ProcNames(p)'
    <2>1. Only(p, i) /\ Has(slot'[p][i], TRUE, NoName, NoName, swaps[n].text, TRUE, FALSE, FALSE)
      BY <1>5, RecoverFacts
    <2>2. i # 1
      BY <1>5 DEF RecoverOrphan, ProcNames, ChecksAFile
    <2>3. NamedWell(slot'[p][i], p, i)
      BY <2>1 DEF Has, NamedWell
    <2>4. slot'[p][1] = slot[p][1] /\ pc'[p] = "orphans"
      BY <1>0, <1>5, <2>1, <2>2 DEF Only, RecoverOrphan
    <2>5. ChecksAFile(p)' /\ DeadHoldsNothing(p)'
      BY <1>5, <2>4 DEF RecoverOrphan, ProcNames, ChecksAFile, DeadHoldsNothing
    <2> QED
      BY <2>1, <2>3, <2>5, OneSlotNamed DEF ProcNames
  <1> QED
    BY <1>1, <1>2, <1>3, <1>4, <1>5 DEF Startup

LEMMA RunningNames ==
    ASSUME SwapTyped, NEW p \in Pid, ProcNames(p), Running(p)
    PROVE  ProcNames(p)'
  <1> USE Bounds DEF Goto
  <1>0. /\ DiskTyped /\ ProcTyped /\ slot \in [Pid -> [Index -> Slot]] /\ pc \in [Pid -> Place]
        /\ pending \in [Pid -> Text \cup {NoBody}]
    BY DEF SwapTyped, ProcTyped
  <1>1. ASSUME NEW i \in Index, Only(p, i), NamedWell(slot'[p][i], p, i),
               pc[p] \in {"run", "saved", "exit"}, pc'[p] \in {"run", "saved", "exit"},
               pending'[p] # NoBody => pending'[p] = pending[p],
               pending'[p] = NoBody \/ i # 1 \/ slot'[p][i].file = slot[p][i].file
        PROVE  ProcNames(p)'
    <2>1. i # 1 => slot'[p][1] = slot[p][1]
      BY <1>1 DEF Only
    <2>2. ChecksAFile(p)' /\ DeadHoldsNothing(p)'
      BY <1>1, <2>1 DEF ProcNames, ChecksAFile, DeadHoldsNothing
    <2> QED
      BY <1>1, <2>2, OneSlotNamed DEF ProcNames
  <1>2. ASSUME NEW i \in Index, Type(p, i) PROVE ProcNames(p)'
    <2> DEFINE s == slot[p][i]
    <2>1. typed + 1 \in Text
      BY <1>0, <1>2 DEF Type, DiskTyped, Text
    <2>2. Only(p, i) /\ Has(slot'[p][i], s.open, s.file, s.swap, typed + 1, TRUE, FALSE, s.ro)
      BY <1>0, <1>2, <2>1, SetsText DEF Type
    <2>3. NamedWell(slot'[p][i], p, i)
      BY <1>2, <2>2 DEF Has, NamedWell, ProcNames, Type
    <2> QED
      BY <1>1, <1>2, <2>2, <2>3 DEF Type, Attending, procVars
  <1>3. ASSUME NEW i \in Index, IdleWrite(p, i) PROVE ProcNames(p)'
    <2> DEFINE s == slot[p][i]
               n == Target(p, i)
    <2>1. n \in Names /\ Only(p, i)
            /\ Has(slot'[p][i], s.open, s.file, n, s.text, s.dirty, TRUE, s.ro)
      BY <1>0, <1>3, WriteFacts DEF IdleWrite
    <2>2. NamedWell(s, p, i) /\ s.file \in File \cup {NoName}
      BY <1>0, SlotTyped DEF ProcNames
    <2>3. n = s.swap \/ (n = <<p, i>> /\ s.file = NoName)
      BY DEF Target
    <2>4. NamedWell(slot'[p][i], p, i)
      BY <2>1, <2>2, <2>3, NamesOf DEF Has, NamedWell
    <2> QED
      BY <1>1, <1>3, <2>1, <2>4 DEF IdleWrite, Has, procVars
  <1>4. ASSUME NEW i \in Index, ExitClean(p, i) PROVE ProcNames(p)'
    <2> DEFINE s == slot[p][i]
    <2>1. Only(p, i) /\ Has(slot'[p][i], s.open, s.file, NoName, s.text, s.dirty, s.synced, s.ro)
      BY <1>0, <1>4, SetsSwap DEF ExitClean
    <2>2. NamedWell(slot'[p][i], p, i)
      BY <2>1 DEF Has, NamedWell, ProcNames
    <2> QED
      BY <1>1, <1>4, <2>1, <2>2 DEF ExitClean, Has, procVars
  <1>5. ASSUME NEW i \in Index, NEW f \in File, NEW bang \in BOOLEAN, Save(p, i, f, bang)
        PROVE  ProcNames(p)'
    <2> DEFINE s == slot[p][i]
    <2>1. Only(p, i) /\ Has(slot'[p][i], s.open, f, s.swap, s.text, FALSE, s.synced, s.ro)
      BY <1>0, <1>5, SetsFile DEF Save
    <2>2. NamedWell(slot'[p][i], p, i)
      BY <1>5, <2>1 DEF Has, NamedWell, ProcNames, Save
    <2> QED
      BY <1>0, <1>1, <1>5, <2>1, <2>2 DEF Save, Attending
  <1>6. ASSUME NEW i \in Index, NEW bang \in BOOLEAN, CloseBuffer(p, i, bang) PROVE ProcNames(p)'
    <2>1. pc[p] = "run" /\ pending[p] = NoBody /\ pc' = pc /\ pending' = pending
      BY <1>6 DEF CloseBuffer, Attending, procVars
    <2>2. Only(p, i) /\ NamedWell(slot'[p][i], p, i)
      <3>1. CASE slot' = [slot EXCEPT ![p][i] = ResetSlot(slot[p][i])]
        <4>1. /\ Only(p, i)
              /\ Has(slot'[p][i], TRUE, NoName, slot[p][i].swap, Blank, FALSE, FALSE, FALSE)
          BY <3>1, ResetFacts
        <4>2. NamedWell(slot[p][i], p, i)
          BY DEF ProcNames
        <4> QED
          BY <4>1, <4>2 DEF Has, NamedWell
      <3>2. CASE slot' = [slot EXCEPT ![p][i] = Closed]
        BY <3>2, CloseFacts, ClosedHas DEF Has, NamedWell
      <3> QED
        BY <1>6, <3>1, <3>2 DEF CloseBuffer
    <2> QED
      BY <1>1, <2>1, <2>2
  <1>7. CASE SaveDone(p)
    <2> DEFINE i == at[p]
               s == slot[p][i]
    <2>1. i \in Index
      BY <1>0 DEF ProcTyped
    <2>2. CASE s.swap = NoName
      BY <1>0, <1>7, <2>2 DEF SaveDone, ProcNames, ChecksAFile, DeadHoldsNothing
    <2>3. CASE s.swap # NoName
      <3> HIDE DEF i
      <3>1. Only(p, i) /\ Has(slot'[p][i], s.open, s.file, s.swap, s.text, s.dirty, FALSE, s.ro)
        BY <1>0, <1>7, <2>1, <2>3, SetsUnsynced DEF SaveDone, i
      <3>2. NamedWell(slot'[p][i], p, i)
        BY <2>1, <3>1 DEF Has, NamedWell, ProcNames
      <3> QED
        BY <1>0, <1>1, <1>7, <2>1, <3>1, <3>2 DEF SaveDone, Has
    <2> QED
      BY <2>2, <2>3
  <1>8. CASE AnswerYes(p)
    <2> DEFINE s == slot[p][1]
    <2>1. pending[p] \in Text /\ s.file \in File /\ pending'[p] = NoBody
      BY <1>0, <1>8 DEF AnswerYes, ProcNames, ChecksAFile
    <2>2. Only(p, 1) /\ Has(slot'[p][1], s.open, s.file, s.swap, pending[p], TRUE, FALSE, s.ro)
      BY <1>0, <1>8, <2>1, SetsText DEF AnswerYes
    <2>3. NamedWell(slot'[p][1], p, 1)
      BY <2>1, <2>2 DEF Has, NamedWell, ProcNames
    <2> QED
      BY <1>1, <1>8, <2>1, <2>2, <2>3 DEF AnswerYes
  <1>9. CASE AnswerNo(p)
    BY <1>0, <1>9 DEF AnswerNo, ProcNames, ChecksAFile, DeadHoldsNothing
  <1>10. CASE AnswerAbort(p)
    <2>1. pc[p] = "run" /\ pc' = pc /\ pending'[p] = NoBody
      BY <1>0, <1>10 DEF AnswerAbort
    <2>2. Only(p, 1) /\ NamedWell(slot'[p][1], p, 1)
      <3>1. CASE slot' = [slot EXCEPT ![p][1] = ResetSlot(slot[p][1])]
        <4>1. /\ Only(p, 1)
              /\ Has(slot'[p][1], TRUE, NoName, slot[p][1].swap, Blank, FALSE, FALSE, FALSE)
          BY <3>1, ResetFacts
        <4>2. NamedWell(slot[p][1], p, 1)
          BY DEF ProcNames
        <4> QED
          BY <4>1, <4>2 DEF Has, NamedWell
      <3>2. CASE slot' = [slot EXCEPT ![p][1] = Closed]
        BY <3>2, CloseFacts, ClosedHas DEF Has, NamedWell
      <3> QED
        BY <1>10, <3>1, <3>2, AbortFacts
    <2> QED
      BY <1>1, <2>1, <2>2
  <1>11. ASSUME NEW bang \in BOOLEAN, Quit(p, bang) PROVE ProcNames(p)'
    BY <1>0, <1>11 DEF Quit, ProcNames, ChecksAFile, DeadHoldsNothing, procVars
  <1>12. CASE ExitDone(p) \/ Crash(p)
    <2>1. Gone(p)
      BY <1>12 DEF ExitDone, Crash
    <2>2. pc'[p] = "dead" /\ pending'[p] = NoBody /\ \A i \in Index : slot'[p][i] = Closed
      BY <1>0, <2>1, GoneFacts DEF Gone
    <2> QED
      BY <2>2, ClosedHas DEF ProcNames, ChecksAFile, DeadHoldsNothing, NamedWell, Has
  <1> QED
    BY <1>2, <1>3, <1>4, <1>5, <1>6, <1>7, <1>8, <1>9, <1>10, <1>11, <1>12 DEF Running

\* write_swap_for_slot puts slot i at n, when the file is opened or later.
Writes(p, i, n) ==
    /\ Target(p, i) = n /\ WriteSwap(p, i)
    /\ IdleWrite(p, i) \/ (Arm(p) /\ i = 1)

\* Every other change of a swap is its removal: by the check, by recovery, or
\* with the buffer's claim to it.
Removes(p, n) ==
    /\ swaps'[n] = NoWriter
    /\ \/ DropStale(p) /\ slot[p][1].swap = n
       \/ \E i \in Index : n \in Pid \X Index /\ RecoverOrphan(p, n, i)
       \/ \E i \in Index : /\ slot[p][i].swap = n /\ pc[p] \in {"startup", "run", "saved", "exit"}
                           /\ slot'[p][i].swap = NoName \/ ~slot'[p][i].synced

LEMMA Touches ==
    ASSUME SwapTyped, NameInv, NEW p \in Pid, Step(p), NEW n \in Names, swaps'[n] # swaps[n]
    PROVE  (\E i \in Index : Writes(p, i, n)) \/ Removes(p, n)
  <1> USE Bounds
  <1>0. /\ DiskTyped /\ ProcTyped /\ slot \in [Pid -> [Index -> Slot]]
        /\ swaps \in [Names -> Swap]
    BY DEF SwapTyped, ProcTyped, DiskTyped
  <1>1. ASSUME NEW i \in Index, WriteSwap(p, i), IdleWrite(p, i) \/ (Arm(p) /\ i = 1)
        PROVE  Writes(p, i, n)
    BY <1>0, <1>1 DEF WriteSwap, Writes
  <1>2. ASSUME NEW m, swaps' = Removed(m) PROVE m = n /\ swaps'[n] = NoWriter
    BY <1>0, <1>2 DEF Removed
  <1>3. CASE Opening(p)
    BY <1>1, <1>2, <1>3 DEF Opening, Start, OpenFile, CheckExists, ForceRecover, ReadSwap,
                OpenReadOnly, DropStale, Prompt, Checked, Arm, Removes
  <1>4. CASE Startup(p)
    <2>1. CASE Disable(p)
      <3>1. slot'[p][1].swap = NoName
        BY <1>0, <2>1, SetsSwap DEF Disable, Has
      <3> QED
        BY <1>2, <2>1, <3>1 DEF Disable, Removes
    <2>2. ASSUME NEW m \in Pid \X Index, NEW i \in Index, RecoverOrphan(p, m, i)
          PROVE  Removes(p, n)
      <3>1. m = n /\ swaps'[n] = NoWriter
        BY <1>2, <2>2 DEF RecoverOrphan, OrphanGone
      <3> QED
        BY <2>2, <3>1 DEF Removes
    <2> QED
      BY <1>4, <2>1, <2>2 DEF Startup, Scan, EnterLoop, SkipOrphan
  <1>5. CASE Running(p)
    <2>1. ASSUME NEW i \in Index, ExitClean(p, i) PROVE Removes(p, n)
      <3>1. slot'[p][i].swap = NoName
        BY <1>0, <2>1, SetsSwap DEF ExitClean, Has
      <3> QED
        BY <1>2, <2>1, <3>1 DEF ExitClean, Removes
    <2>2. ASSUME NEW i \in Index, NEW bang \in BOOLEAN, CloseBuffer(p, i, bang) PROVE Removes(p, n)
      <3>1. slot' = [slot EXCEPT ![p][i] = Closed] /\ swaps' = Removed(slot[p][i].swap)
        BY <2>2 DEF CloseBuffer
      <3>2. slot'[p][i].swap = NoName
        BY <3>1, CloseFacts, ClosedHas DEF Has
      <3> QED
        BY <1>2, <2>2, <3>1, <3>2 DEF CloseBuffer, Attending, Removes
    <2>3. CASE SaveDone(p)
      <3>1. at[p] \in Index
        BY <1>0 DEF ProcTyped
      <3>2. ~slot'[p][at[p]].synced
        BY <1>0, <2>3, <3>1, SetsUnsynced DEF SaveDone, Has
      <3> QED
        BY <1>2, <2>3, <3>1, <3>2 DEF SaveDone, Removes
    <2> QED
      BY <1>1, <1>5, <2>1, <2>2, <2>3 DEF Running, Type, IdleWrite, Save, AnswerYes, AnswerNo,
                  AnswerAbort, Quit, ExitDone, Crash, Gone
  <1> QED
    BY <1>3, <1>4, <1>5 DEF Step

\* A swap of an unnamed buffer is written by the process it names, or removed.
LEMMA ScratchStep ==
    ASSUME SwapTyped, NameInv, NEW p \in Pid, Step(p), NEW n \in Pid \X Index,
           swaps'[n] # swaps[n]
    PROVE  \/ swaps'[n] = NoWriter
           \/ \E i \in Index : n = <<p, i>> /\ Writes(p, i, n)
  <1>1. n \in Names
    BY DEF Names
  <1>2. ASSUME NEW i \in Index, Writes(p, i, n) PROVE n = <<p, i>>
    BY <1>2, Bounds DEF Writes, Target, NameInv, ProcNames, NamedWell
  <1> QED
    BY <1>1, <1>2, Touches DEF Removes

LEMMA NamesStep ==
    ASSUME SwapTyped, NameInv, LockInv, NEW p \in Pid, Step(p)
    PROVE  NameInv'
  <1>1. Frame(p)
    BY TypedStep
  <1>2. ProcNames(p)'
    BY OpeningNames, StartupNames, RunningNames DEF NameInv, Step
  <1>3. ASSUME NEW q \in Pid, q # p PROVE ProcNames(q)'
    BY <1>1, <1>3 DEF NameInv, Frame, ProcNames, NamedWell, ChecksAFile, DeadHoldsNothing
  <1>4. ASSUME NEW q \in Pid, NEW i \in Index, swaps'[<<q, i>>] # NoWriter
        PROVE  swaps'[<<q, i>>].pid = q
    <2> DEFINE n == <<q, i>>
    <2>1. CASE swaps'[n] = swaps[n]
      BY <1>4, <2>1 DEF NameInv, ScratchPids
    <2>2. CASE swaps'[n] # swaps[n]
      <3>1. PICK j \in Index : n = <<p, j>> /\ Writes(p, j, n)
        BY <1>4, <2>2, ScratchStep
      <3>2. q = p /\ n \in Names
        BY <3>1, NamesOf
      <3> QED
        BY <3>1, <3>2 DEF Writes, WriteSwap, SwapTyped, DiskTyped
    <2> QED
      BY <2>1, <2>2
  <1> QED
    BY <1>2, <1>3, <1>4 DEF NameInv, ScratchPids

----------------------------------------------------------------------------
(***************************************************************************)
(* Unnamed texts.                                                          *)
(***************************************************************************)
\* An unnamed text is in the slot after the step only if it was there before.
NoNewScratch(p) ==
    \A i \in Index :
        LET s == slot[p][i]  t == slot'[p][i] IN
        t.dirty /\ t.file = NoName => s.dirty /\ s.file = NoName /\ t.text = s.text

LEMMA ScratchKept ==
    ASSUME SwapTyped, NameInv, NEW p \in Pid, Step(p),
           \A i \in Index : ~Type(p, i),
           \A n \in Pid \X Index, i \in Index : ~RecoverOrphan(p, n, i)
    PROVE  NoNewScratch(p)
  <1> SUFFICES ASSUME NEW i \in Index
               PROVE  LET s == slot[p][i]  t == slot'[p][i] IN
                      t.dirty /\ t.file = NoName => s.dirty /\ s.file = NoName /\ t.text = s.text
    BY DEF NoNewScratch
  <1>1. AnswerYes(p) => slot[p][1].file # NoName
    BY Bounds DEF AnswerYes, NameInv, ProcNames, ChecksAFile
  <1>2. Becomes(p, i, slot[p][i], slot'[p][i])
    BY SlotStep
  <1> QED
    BY <1>1, <1>2, ClosedHas, Bounds
      DEF Becomes, WasOpened, WasWritten, WasSaved, WasChanged, WasRecovered, LostSwap, LostSync, Has

\* The swap of an unnamed text is new only when its buffer has been written to it.
LEMMA LooseKept ==
    ASSUME SwapTyped, NameInv, LockInv, NEW p \in Pid, Step(p), NEW n \in Pid \X Index, Loose(n)'
    PROVE  \/ Loose(n) /\ swaps'[n] = swaps[n]
           \/ \E i \in Index : IdleWrite(p, i) /\ Scratch(n) /\ swaps'[n].text = TextOf(n)
  <1>1. CASE swaps'[n] = swaps[n]
    BY <1>1 DEF Loose, Exists
  <1>2. CASE swaps'[n] # swaps[n]
    <2>1. PICK i \in Index : n = <<p, i>> /\ Writes(p, i, n)
      BY <1>2, ScratchStep DEF Loose, Exists
    <2>2. n \in Names /\ n \notin File
      BY <2>1, NamesOf
    <2>3. swaps'[n].text = slot[p][i].text /\ slot[p][i].file = NoName
      BY <2>1, <2>2 DEF Writes, Loose, WriteSwap, SwapTyped, DiskTyped
    <2>4. IdleWrite(p, i)
      BY <2>1, <2>3, Bounds DEF Writes, Arm, NameInv, ProcNames, ChecksAFile
    <2>5. slot[p][i].dirty
      BY <2>3, <2>4 DEF IdleWrite, SwapPending, NameInv, ProcNames, NamedWell
    <2> QED
      BY <2>1, <2>3, <2>4, <2>5 DEF Scratch, TextOf
  <1> QED
    BY <1>1, <1>2

LEMMA TextsAreNat ==
    ASSUME SwapTyped
    PROVE  /\ typed \in Nat
           /\ \A x \in Pid \X Index : TextOf(x) \in Nat
           /\ \A n \in Pid \X Index : swaps[n].text \in Nat
  <1>1. ASSUME NEW x \in Pid \X Index PROVE TextOf(x) \in Nat
    BY SlotTyped, Bounds DEF SwapTyped, TextOf, Text
  <1>2. typed \in Nat
    BY Bounds DEF SwapTyped, DiskTyped, Text
  <1>3. \A n \in Pid \X Index : swaps[n].text \in Nat
    BY Bounds DEF SwapTyped, DiskTyped, Swap, Names, Text
  <1> QED
    BY <1>1, <1>2, <1>3

\* What is unique stays so while texts only move from a buffer to its own swap.
LEMMA UniqueKept ==
    ASSUME UniqueInv,
           \A x \in Pid \X Index : Scratch(x)' => Scratch(x) /\ TextOf(x)' = TextOf(x),
           \A n \in Pid \X Index : Loose(n)' =>
               \/ Loose(n) /\ swaps'[n].text = swaps[n].text
               \/ Scratch(n) /\ swaps'[n].text = TextOf(n)
    PROVE  UniqueInv'
  BY DEF UniqueInv

\* A slot of another process, or another slot of p.
LEMMA OthersScratch ==
    ASSUME SwapTyped, NEW p \in Pid, NEW i \in Index, Only(p, i), NEW x \in Pid \X Index,
           x # <<p, i>>
    PROVE  (Scratch(x)' <=> Scratch(x)) /\ TextOf(x)' = TextOf(x)
  <1>1. slot'[x[1]][x[2]] = slot[x[1]][x[2]]
    BY DEF Only
  <1> QED
    BY <1>1 DEF Scratch, TextOf

LEMMA UniqueStep ==
    ASSUME SwapTyped, NameInv, LockInv, TextsTyped, UniqueInv, NEW p \in Pid, Step(p)
    PROVE  UniqueInv'
  <1>0. Frame(p) /\ DiskTyped /\ ProcTyped /\ slot \in [Pid -> [Index -> Slot]]
    BY TypedStep DEF SwapTyped, ProcTyped
  <1>1. CASE \E i \in Index : Type(p, i)
    <2>1. PICK i \in Index : Type(p, i)
      BY <1>1
    <2> DEFINE x == <<p, i>>
    <2> DEFINE t == typed + 1
    <2>2. t \in Text /\ t \in Nat /\ typed' = t /\ swaps' = swaps /\ t > typed
      BY <1>0, <2>1, Bounds DEF Type, DiskTyped, Text
    <2>8. slot' = [slot EXCEPT ![p][i].text = t, ![p][i].dirty = TRUE, ![p][i].synced = FALSE]
      BY <2>1 DEF Type
    <2> HIDE DEF t
    <2>3. Only(p, i) /\ LET s == slot[p][i] IN
                         Has(slot'[p][i], s.open, s.file, s.swap, t, TRUE, FALSE, s.ro)
      BY <1>0, <2>2, <2>8, SetsText
    <2>4. x \in Pid \X Index /\ TextOf(x)' = t
      BY <2>3 DEF TextOf, Has
    <2>5. \A n \in Pid \X Index : Loose(n)' <=> Loose(n)
      BY <2>2 DEF Loose, Exists
    <2>6. \A y \in Pid \X Index : y # x => (Scratch(y)' <=> Scratch(y)) /\ TextOf(y)' = TextOf(y)
      BY <2>3, OthersScratch
    <2>7. /\ \A y \in Pid \X Index : TextOf(y) <= typed
          /\ \A n \in Pid \X Index : swaps[n].text <= typed
      BY DEF TextsTyped, TextOf, Names
    <2> HIDE DEF x
    <2> QED
      BY <2>2, <2>4, <2>5, <2>6, <2>7, TextsAreNat DEF UniqueInv
  <1>2. CASE \E n \in Pid \X Index, i \in Index : RecoverOrphan(p, n, i)
    <2>1. PICK n \in Pid \X Index, i \in Index : RecoverOrphan(p, n, i)
      BY <1>2
    <2> DEFINE x == <<p, i>>
    <2>2. Only(p, i) /\ slot'[p][i].text = swaps[n].text /\ n \in Names
      BY <2>1, RecoverFacts DEF Has
    <2>3. x \in Pid \X Index /\ TextOf(x)' = swaps[n].text
      BY <2>2 DEF TextOf
    <2>4. Loose(n) /\ ~Alive(swaps[n].pid) /\ swaps' = [swaps EXCEPT ![n] = NoWriter]
      BY <2>1 DEF RecoverOrphan, StillOrphan, Orphan, Loose, OrphanGone, Removed
    <2>5. ~Scratch(n)
      <3>1. PICK q \in Pid, j \in Index : n = <<q, j>>
        OBVIOUS
      <3>2. swaps[n].pid = q
        BY <2>4, <3>1 DEF NameInv, ScratchPids, Loose, Exists
      <3>3. slot[q][j] = Closed
        BY <2>4, <3>2, Bounds DEF NameInv, ProcNames, DeadHoldsNothing, Alive
      <3> QED
        BY <3>1, <3>3, ClosedHas DEF Scratch, Has
    <2>6. \A m \in Pid \X Index : m # n => (Loose(m)' <=> Loose(m)) /\ swaps'[m] = swaps[m]
      BY <1>0, <2>2, <2>4 DEF Loose, Exists, DiskTyped, Names
    <2>7. ~Loose(n)'
      BY <1>0, <2>2, <2>4 DEF Loose, Exists, DiskTyped
    <2>8. \A y \in Pid \X Index : y # x => (Scratch(y)' <=> Scratch(y)) /\ TextOf(y)' = TextOf(y)
      BY <2>2, OthersScratch
    <2> HIDE DEF x
    <2> QED
      BY <2>3, <2>4, <2>5, <2>6, <2>7, <2>8 DEF UniqueInv
  <1>3. CASE /\ \A i \in Index : ~Type(p, i)
             /\ \A n \in Pid \X Index, i \in Index : ~RecoverOrphan(p, n, i)
    <2>1. NoNewScratch(p)
      BY <1>3, ScratchKept
    <2>2. ASSUME NEW x \in Pid \X Index, Scratch(x)'
          PROVE  Scratch(x) /\ TextOf(x)' = TextOf(x)
      BY <1>0, <2>1, <2>2 DEF Frame, NoNewScratch, Scratch, TextOf
    <2>3. ASSUME NEW n \in Pid \X Index, Loose(n)'
          PROVE  \/ Loose(n) /\ swaps'[n].text = swaps[n].text
                 \/ Scratch(n) /\ swaps'[n].text = TextOf(n)
      BY <2>3, LooseKept
    <2> QED
      BY <2>2, <2>3, UniqueKept
  <1> QED
    BY <1>1, <1>2, <1>3

----------------------------------------------------------------------------
(***************************************************************************)
(* Sharing.                                                                *)
(***************************************************************************)
LEMMA TwoOfMany ==
    ASSUME NEW S, IsFiniteSet(S), NEW T \in SUBSET S, NEW x \in T, NEW y \in T, x # y
    PROVE  Cardinality(T) > 1
  <1>1. IsFiniteSet(T) /\ Cardinality(T) \in Nat
    BY FS_Subset, FS_CardinalityType
  <1>2. Cardinality({x}) = 1 /\ {x} \subseteq T /\ {x} # T
    BY FS_Singleton
  <1>3. Cardinality({x}) <= Cardinality(T) /\ Cardinality({x}) # Cardinality(T)
    BY <1>1, <1>2, FS_Subset
  <1> QED
    BY <1>1, <1>2, <1>3

LEMMA SlotsFinite == IsFiniteSet(Pid \X Index)
  <1>1. IsFiniteSet(Index)
    BY Bounds, FS_Interval DEF Index
  <1>2. IsFiniteSet(Pid)
    BY SwapBounds DEF SwapBounds
  <1> QED
    BY <1>1, <1>2, FS_Product

\* The file or the swap of slot i of p, after the step, is f.
About(p, i, f) == f \in {slot'[p][i].file, slot'[p][i].swap}

LEMMA OneWriter ==
    ASSUME Track, NEW f \in File, f \notin shared', NEW p \in Pid, NEW q \in Pid,
           NEW i \in Index, NEW j \in Index,
           About(p, i, f), ~slot'[p][i].ro, pc'[p] \notin Checking,
           About(q, j, f), ~slot'[q][j].ro, pc'[q] \notin Checking
    PROVE  p = q /\ i = j
  <1> DEFINE S(x) == slot'[x[1]][x[2]]
             Open == {x \in Pid \X Index : f \in {S(x).file, S(x).swap}}
             ToWrite == {x \in Open : /\ ~S(x).ro
                                      /\ pc'[x[1]] \notin {"check", "wait", "decide"}}
  <1>1. <<p, i>> \in ToWrite /\ <<q, j>> \in ToWrite
    BY DEF About, Checking
  <1>2. ~(Cardinality(ToWrite) > 1)
    BY DEF Track, Sharing
  <1>3. ToWrite \subseteq Pid \X Index
    OBVIOUS
  <1> HIDE DEF ToWrite
  <1>4. <<p, i>> = <<q, j>>
    BY <1>1, <1>2, <1>3, SlotsFinite, TwoOfMany
  <1> QED
    BY <1>4

LEMMA SavedAlone ==
    ASSUME Track, NEW f \in File, f \notin shared', NEW p \in Pid, NEW q \in Pid,
           NEW i \in Index, NEW j \in Index,
           slot'[p][i].file = f, pc'[p] = "saved", at'[p] = i, About(q, j, f)
    PROVE  p = q /\ i = j
  <1> DEFINE S(x) == slot'[x[1]][x[2]]
             Open == {x \in Pid \X Index : f \in {S(x).file, S(x).swap}}
             Saving == {x \in Open : pc'[x[1]] = "saved" /\ at'[x[1]] = x[2] /\ S(x).file = f}
  <1>1. <<p, i>> \in Saving /\ <<p, i>> \in Open /\ <<q, j>> \in Open
    BY DEF About
  <1>2. ~(Saving # {} /\ Cardinality(Open) > 1)
    BY DEF Track, Sharing
  <1>3. Open \subseteq Pid \X Index
    OBVIOUS
  <1> HIDE DEF Open, Saving
  <1>4. <<p, i>> = <<q, j>>
    BY <1>1, <1>2, <1>3, SlotsFinite, TwoOfMany
  <1> QED
    BY <1>4

LEMMA NotRenamed ==
    ASSUME Track, NEW f \in File, f \notin shared', NEW p \in Pid, NEW i \in Index,
           slot'[p][i].swap = f
    PROVE  slot'[p][i].file \in {f, NoName}
  <1> DEFINE S(x) == slot'[x[1]][x[2]]
             Open == {x \in Pid \X Index : f \in {S(x).file, S(x).swap}}
             Renamed == {x \in Open : S(x).swap = f /\ S(x).file \notin {f, NoName}}
  <1>1. Renamed = {}
    BY DEF Track, Sharing
  <1>2. <<p, i>> \in Open
    OBVIOUS
  <1> QED
    BY <1>1, <1>2

----------------------------------------------------------------------------
(***************************************************************************)
(* Who owns a swap.                                                        *)
(***************************************************************************)
LEMMA AsOpenedStep ==
    ASSUME SwapTyped, NameInv, NEW p \in Pid, AsOpened(p), Step(p)
    PROVE  AsOpened(p)'
  <1> USE Bounds DEF Goto, Checking
  <1>0. /\ slot \in [Pid -> [Index -> Slot]] /\ pc \in [Pid -> Place]
        /\ force \in [Pid -> BOOLEAN]
    BY DEF SwapTyped, ProcTyped, FlagsTyped
  <1>1. ASSUME NEW f \in File \cup {NoName}, Start(p, f) \/ OpenFile(p, f) PROVE AsOpened(p)'
    <2>1. Only(p, 1) /\ Has(slot'[p][1], TRUE, f, f, IF f = NoName THEN Blank ELSE disk[f].text,
                            FALSE, FALSE, FALSE)
      BY <1>1, OpenFacts DEF Start, OpenFile
    <2>2. ~force[p] /\ force' = force
      BY <1>1 DEF AsOpened, Start, OpenFile, Attending, procVars
    <2> QED
      BY <2>1, <2>2 DEF AsOpened, Has
  <1>2. CASE Opening(p)
    <2>1. CASE CheckExists(p)
      BY <1>0, <2>1 DEF CheckExists, AsOpened, procVars
    <2>2. CASE ForceRecover(p)
      BY <1>0, <2>2 DEF ForceRecover, AsOpened
    <2>3. CASE ReadSwap(p)
      BY <1>0, <2>3 DEF ReadSwap, AsOpened
    <2>4. CASE OpenReadOnly(p) \/ DropStale(p) \/ Prompt(p)
      BY <1>0, <2>4 DEF OpenReadOnly, DropStale, Prompt, Checked, Opened, AsOpened
    <2>5. CASE Arm(p)
      BY <1>0, <2>5 DEF Arm, Opened, AsOpened, procVars
    <2> QED
      BY <1>1, <1>2, <2>1, <2>2, <2>3, <2>4, <2>5 DEF Opening
  <1>3. CASE Startup(p)
    BY <1>0, <1>3 DEF Startup, Disable, Scan, EnterLoop, SkipOrphan, RecoverOrphan, AsOpened
  <1>4. CASE Running(p)
    <2>1. CASE ExitDone(p) \/ Crash(p)
      BY <1>0, <2>1 DEF ExitDone, Crash, Gone, AsOpened
    <2> QED
      BY <1>0, <1>4, <2>1 DEF Running, Type, IdleWrite, ExitClean, Save, CloseBuffer, SaveDone,
                  AnswerYes, AnswerNo, AnswerAbort, Quit, Attending, AsOpened, procVars
  <1> QED
    BY <1>2, <1>3, <1>4 DEF Step

\* What the idle writer may take for done after a step.
StaysSynced(p, i) ==
    LET s == slot[p][i]  t == slot'[p][i] IN
    s.synced /\ t.swap = s.swap /\ t.text = s.text /\ (t.file = NoName => s.file = NoName)

Settles(p, i) ==
    slot'[p][i].synced /\ slot'[p][i].swap \in Names =>
        (WriteSwap(p, i) /\ pc'[p] \notin Checking) \/ StaysSynced(p, i)

LEMMA SyncStep ==
    ASSUME SwapTyped, NEW p \in Pid, NEW i \in Index, Step(p)
    PROVE  Settles(p, i)
  <1>1. IdleWrite(p, i) \/ Arm(p) => pc'[p] \notin Checking
    BY DEF IdleWrite, Arm, Goto, Opened, Checking, SwapTyped, ProcTyped
  <1>2. Becomes(p, i, slot[p][i], slot'[p][i])
    BY SlotStep
  <1> QED
    BY <1>1, <1>2, ClosedHas, Bounds
      DEF Settles, StaysSynced, Becomes, WasOpened, WasWritten, WasSaved, WasChanged, WasRecovered,
          LostSwap, LostSync, Has

\* A file's swap comes to a buffer when the file is opened in it.
LEMMA SwapKept ==
    ASSUME SwapTyped, NameInv, NEW p \in Pid, Step(p), slot'[p][1].swap \in File
    PROVE  \/ slot'[p][1].swap = slot[p][1].swap
           \/ \E f \in File : Start(p, f) \/ OpenFile(p, f)
  <1>1. Target(p, 1) \in File => Target(p, 1) = slot[p][1].swap
    BY NamesOf, Bounds DEF Target
  <1>2. Becomes(p, 1, slot[p][1], slot'[p][1])
    BY SlotStep, Bounds
  <1> QED
    BY <1>1, <1>2, ClosedHas, Bounds
      DEF Becomes, WasOpened, WasWritten, WasSaved, WasChanged, WasRecovered, LostSwap, LostSync, Has

\* The check is passed with the swap only if there was none, or none of another.
LEMMA Passes ==
    ASSUME SwapTyped, NameInv, NEW p \in Pid, Step(p), pc[p] \in Checking, pc'[p] \notin Checking,
           slot'[p][1].swap \in File
    PROVE  ~Exists(slot[p][1].swap) \/ (pc[p] = "decide" /\ ~Locked(p))
  <1> USE Bounds DEF Checking, Goto
  <1>0. slot \in [Pid -> [Index -> Slot]] /\ pc \in [Pid -> Place] /\ ProcTyped
    BY DEF SwapTyped, ProcTyped
  <1>1. CASE OpenReadOnly(p)
    BY <1>0, <1>1, SetsReadOnly DEF OpenReadOnly, Has
  <1>2. CASE ExitDone(p) \/ Crash(p)
    BY <1>2, GoneFacts, ClosedHas DEF ExitDone, Crash, Has
  <1>3. CASE Opening(p)
    BY <1>0, <1>1, <1>3 DEF Opening, Start, OpenFile, CheckExists, ForceRecover, Attending, ReadSwap,
                DropStale, Prompt, Checked, Arm
  <1>4. CASE Startup(p)
    BY <1>4 DEF Startup, Disable, Scan, EnterLoop, SkipOrphan, RecoverOrphan
  <1>5. CASE Running(p)
    BY <1>2, <1>5 DEF Running, Type, IdleWrite, ExitClean, Save, CloseBuffer, SaveDone, AnswerYes,
                AnswerNo, AnswerAbort, Quit, Attending
  <1> QED
    BY <1>3, <1>4, <1>5 DEF Step

\* The writer of a swap that is up to date is alive.
LEMMA SyncedIsAlive ==
    ASSUME NameInv, OwnerInv, NEW q \in Pid, NEW j \in Index, slot[q][j].synced,
           Private(slot[q][j].swap)
    PROVE  /\ Alive(q) /\ swaps[slot[q][j].swap].pid = q /\ Exists(slot[q][j].swap)
  <1>1. swaps[slot[q][j].swap].pid = q
    BY DEF OwnerInv, SyncedIsOnDisk
  <1>2. slot[q][j] # Closed
    BY ClosedHas DEF Has
  <1>3. pc[q] # "dead"
    BY <1>2 DEF NameInv, ProcNames, DeadHoldsNothing
  <1> QED
    BY <1>1, <1>3, Bounds, NoWriterHas DEF Alive, Exists

\* A swap that is up to date is touched by its own buffer only.
LEMMA Owned ==
    ASSUME SwapTyped, NameInv, LockInv, OwnerInv, NEW p \in Pid, Step(p),
           NEW q \in Pid, NEW j \in Index, slot[q][j].synced, Private(slot[q][j].swap),
           swaps'[slot[q][j].swap] # swaps[slot[q][j].swap]
    PROVE  /\ p = q
           /\ Writes(p, j, slot[q][j].swap) \/ slot'[q][j].swap = NoName \/ ~slot'[q][j].synced
  <1> DEFINE n == slot[q][j].swap
  <1>0. /\ n \in Names /\ Alive(q) /\ swaps[n].pid = q /\ n \notin shared
        /\ n \in File \/ n = <<q, j>>
        /\ n \in File => j = 1
    BY SyncedIsAlive, Bounds DEF Private, NameInv, ProcNames, NamedWell
  <1>1. ASSUME NEW i \in Index, slot[p][i].swap = n, pc[p] \notin Checking
        PROVE  p = q /\ i = j
    <2>1. n \in File => i = 1
      BY <1>1 DEF NameInv, ProcNames, NamedWell
    <2>2. n \notin File => n = <<p, i>>
      BY <1>0, <1>1, Bounds DEF NameInv, ProcNames, NamedWell
    <2>3. n \in File => p = q
      BY <1>0, <1>1, <2>1 DEF OwnerInv, NoRival
    <2> QED
      BY <1>0, <2>1, <2>2, <2>3
  <1>2. ASSUME NEW i \in Index, Writes(p, i, n) PROVE p = q /\ i = j
    <2>1. n = <<p, i>> \/ slot[p][i].swap = n
      BY <1>2 DEF Writes, Target
    <2>2. pc[p] \notin Checking
      BY <1>2 DEF Writes, IdleWrite, Arm, Checking
    <2>3. CASE n = <<p, i>>
      <3>1. n = <<q, j>>
        BY <1>0, <2>3, NamesOf
      <3> QED
        BY <2>3, <3>1
    <2>4. CASE slot[p][i].swap = n
      BY <1>1, <2>2, <2>4
    <2> QED
      BY <2>1, <2>3, <2>4
  <1>3. ASSUME DropStale(p), slot[p][1].swap = n PROVE FALSE
    <2>1. seen[p] = swaps[n]
      BY <1>0, <1>3 DEF DropStale, Checked, LockInv, Decides
    <2>2. p = q
      BY <1>0, <1>3, <2>1 DEF DropStale, Locked
    <2>3. ~slot[p][1].synced
      BY <1>3 DEF OwnerInv, AsOpened, DropStale, Checked, Stale, Checking
    <2>4. j = 1
      BY <1>0, <1>3, <2>2, Bounds DEF NameInv, ProcNames, NamedWell
    <2> QED
      BY <2>2, <2>3, <2>4
  <1>4. ASSUME NEW i \in Index, RecoverOrphan(p, n, i) PROVE FALSE
    BY <1>0, <1>4 DEF RecoverOrphan, StillOrphan, Orphan
  <1>5. (\E i \in Index : Writes(p, i, n)) \/ Removes(p, n)
    BY <1>0, Touches
  <1> QED
    BY <1>1, <1>2, <1>3, <1>4, <1>5 DEF Removes, Checking

LEMMA SyncedStep ==
    ASSUME SwapTyped, NameInv, LockInv, OwnerInv, NEW p \in Pid, Step(p)
    PROVE  SyncedIsOnDisk'
  <1>0. SwapTyped' /\ Frame(p) /\ shared \subseteq shared' /\ DiskTyped /\ ProcTyped
    BY TypedStep DEF SwapTyped
  <1> SUFFICES ASSUME NEW q \in Pid, NEW j \in Index, slot'[q][j].synced, Private(slot[q][j].swap)'
               PROVE  LET s == slot'[q][j] IN
                      /\ swaps'[s.swap].text = s.text /\ swaps'[s.swap].pid = q
                      /\ s.file = NoName => swaps'[s.swap].of = NoName
    BY DEF SyncedIsOnDisk
  <1>1. slot'[q][j].swap \in Names /\ slot'[q][j].swap \notin shared
    BY <1>0 DEF Private
  <1>2. ASSUME StaysSynced(q, j), ~WriteSwap(p, j) \/ p # q
        PROVE  LET s == slot'[q][j] IN
               /\ swaps'[s.swap].text = s.text /\ swaps'[s.swap].pid = q
               /\ s.file = NoName => swaps'[s.swap].of = NoName
    <2> DEFINE n == slot[q][j].swap
    <2>1. slot[q][j].synced /\ Private(n) /\ slot'[q][j].swap = n
      BY <1>1, <1>2 DEF StaysSynced, Private
    <2>2. n # NoName
      BY <1>1, <2>1, Bounds
    <2>3. swaps'[n] = swaps[n]
      BY <1>2, <2>1, <2>2, Owned DEF Writes
    <2> QED
      BY <1>2, <2>1, <2>3 DEF StaysSynced, OwnerInv, SyncedIsOnDisk
  <1>3. ASSUME p = q, WriteSwap(p, j)
        PROVE  LET s == slot'[q][j] IN
               /\ swaps'[s.swap].text = s.text /\ swaps'[s.swap].pid = q
               /\ s.file = NoName => swaps'[s.swap].of = NoName
    <2> DEFINE n == Target(p, j)
               w == [text |-> slot[p][j].text, time |-> clock', pid |-> p, of |-> slot[p][j].file]
    <2>1. /\ n \in Names /\ swaps' = [swaps EXCEPT ![n] = w]
          /\ slot'[p][j].swap = n /\ slot'[p][j].text = slot[p][j].text
          /\ slot'[p][j].file = slot[p][j].file
      <3>1. LET t == slot[p][j] IN
            /\ n \in Names /\ swaps' = [swaps EXCEPT ![n] = w]
            /\ Has(slot'[p][j], t.open, t.file, n, t.text, t.dirty, TRUE, t.ro)
        BY <1>0, <1>3, WriteFacts
      <3> QED
        BY <3>1 DEF Has
    <2>2. swaps'[n] = w
      BY <1>0, <2>1 DEF DiskTyped
    <2> QED
      BY <1>3, <2>1, <2>2
  <1>4. CASE p = q
    <2>1. WriteSwap(p, j) \/ StaysSynced(p, j)
      BY <1>1, <1>4, SyncStep DEF Settles
    <2> QED
      BY <1>2, <1>3, <1>4, <2>1
  <1>5. CASE p # q
    <2>1. slot'[q] = slot[q]
      BY <1>0, <1>5 DEF Frame
    <2>2. StaysSynced(q, j)
      BY <2>1 DEF StaysSynced
    <2> QED
      BY <1>2, <1>5, <2>2
  <1> QED
    BY <1>4, <1>5

LEMMA NoRivalStep ==
    ASSUME SwapTyped, NameInv, LockInv, OwnerInv, NEW p \in Pid, Step(p)
    PROVE  NoRival'
  <1>0. SwapTyped' /\ Frame(p) /\ shared \subseteq shared' /\ NameInv' /\ Track
    BY TypedStep, NamesStep, StepTracks
  <1> SUFFICES ASSUME NEW a \in Pid, NEW b \in Pid,
                      slot'[a][1].synced, slot'[a][1].swap \in File, Private(slot[a][1].swap)',
                      b # a, slot'[b][1].swap = slot'[a][1].swap, pc'[b] \notin Checking
               PROVE  FALSE
    BY DEF NoRival
  <1> DEFINE f == slot'[a][1].swap
  <1>1. f \in File /\ f \in Names /\ f \notin shared' /\ f \notin shared /\ 1 \in Index
    BY <1>0, Bounds DEF Private
  <1>2. ASSUME slot[a][1].synced, slot[a][1].swap = f PROVE p = b
    <2>1. p # b => slot'[b] = slot[b] /\ pc'[b] = pc[b]
      BY <1>0 DEF Frame
    <2> QED
      BY <1>1, <1>2, <2>1 DEF OwnerInv, NoRival, Private
  <1>3. CASE p = a
    <2>1. CASE WriteSwap(p, 1) /\ pc'[p] \notin Checking
      <3>1. ~slot'[a][1].ro /\ ~slot'[b][1].ro
        BY <1>0, <1>1, Bounds DEF NameInv, ProcNames, NamedWell
      <3>2. About(a, 1, f) /\ About(b, 1, f)
        BY DEF About
      <3> QED
        BY <1>0, <1>1, <1>3, <2>1, <3>1, <3>2, OneWriter
    <2>2. CASE StaysSynced(p, 1)
      BY <1>2, <1>3, <2>2 DEF StaysSynced
    <2> QED
      BY <1>1, <1>3, <2>1, <2>2, SyncStep DEF Settles
  <1>4. CASE p # a
    <2>1. slot[a][1].synced /\ slot[a][1].swap = f
      BY <1>0, <1>4 DEF Frame
    <2>2. p = b
      BY <1>2, <2>1
    <2>3. Alive(a) /\ swaps[f].pid = a /\ Exists(f)
      BY <1>1, <2>1, SyncedIsAlive DEF Private
    <2>4. slot[b][1].swap = f
      <3>1. \A g \in File : Start(p, g) \/ OpenFile(p, g) => pc'[p] = "check"
        BY Bounds DEF Start, OpenFile, Goto, SwapTyped, ProcTyped
      <3> QED
        BY <1>1, <2>2, <3>1, SwapKept DEF Checking
    <2>5. pc[b] \in Checking
      BY <1>1, <2>1, <2>4 DEF OwnerInv, NoRival, Private
    <2>6. pc[b] = "decide" /\ ~Locked(b)
      BY <1>1, <2>2, <2>3, <2>4, <2>5, Passes
    <2>7. seen[b] = swaps[f]
      BY <1>1, <2>4, <2>6 DEF LockInv, Decides
    <2> QED
      BY <2>3, <2>6, <2>7 DEF Locked
  <1> QED
    BY <1>3, <1>4

LEMMA OwnerStep ==
    ASSUME SwapTyped, NameInv, LockInv, OwnerInv, NEW p \in Pid, Step(p)
    PROVE  OwnerInv'
  <1>1. ASSUME NEW q \in Pid PROVE AsOpened(q)'
    <2>1. CASE q = p
      BY <2>1, AsOpenedStep DEF OwnerInv
    <2>2. CASE q # p
      BY <2>2, TypedStep DEF OwnerInv, Frame, AsOpened
    <2> QED
      BY <2>1, <2>2
  <1> QED
    BY <1>1, SyncedStep, NoRivalStep DEF OwnerInv

----------------------------------------------------------------------------
(***************************************************************************)
(* Age.                                                                    *)
(***************************************************************************)
\* Only a save writes a file.
LEMMA FileWritten ==
    ASSUME SwapTyped, NEW p \in Pid, Step(p), NEW f \in File, disk'[f] # disk[f]
    PROVE  \E i \in Index, bang \in BOOLEAN : Save(p, i, f, bang)
  <1>1. CASE Opening(p)
    BY <1>1 DEF Opening, Start, OpenFile, CheckExists, ForceRecover, ReadSwap, OpenReadOnly,
                DropStale, Prompt, Checked, Arm
  <1>2. CASE Startup(p)
    BY <1>2 DEF Startup, Disable, Scan, EnterLoop, SkipOrphan, RecoverOrphan
  <1>3. CASE Running(p)
    <2>1. ASSUME NEW i \in Index, NEW g \in File, NEW bang \in BOOLEAN, Save(p, i, g, bang)
          PROVE  g = f
      BY <2>1 DEF Save, SwapTyped, DiskTyped
    <2> QED
      BY <1>3, <2>1 DEF Running, Type, IdleWrite, ExitClean, CloseBuffer, SaveDone, AnswerYes,
                  AnswerNo, AnswerAbort, Quit, ExitDone, Crash, Gone
  <1> QED
    BY <1>1, <1>2, <1>3 DEF Step

\* Only the prompt has a text to offer.
LEMMA PromptSet ==
    ASSUME SwapTyped, NEW p \in Pid, Step(p), pending'[p] # pending[p], pending'[p] # NoBody
    PROVE  Prompt(p)
  <1> USE DEF procVars, SwapTyped, ProcTyped
  <1>1. CASE Opening(p)
    BY <1>1 DEF Opening, Start, OpenFile, CheckExists, ForceRecover, ReadSwap, OpenReadOnly,
                DropStale, Checked, Arm
  <1>2. CASE Startup(p)
    BY <1>2 DEF Startup, Disable, Scan, EnterLoop, SkipOrphan, RecoverOrphan
  <1>3. CASE Running(p)
    BY <1>3 DEF Running, Type, IdleWrite, ExitClean, Save, CloseBuffer, SaveDone, AnswerYes,
                AnswerNo, AnswerAbort, Quit, ExitDone, Crash, Gone
  <1> QED
    BY <1>1, <1>2, <1>3 DEF Step

\* What is offered was read from the swap, and is there still.
LEMMA Offered ==
    ASSUME SwapTyped, NameInv, LockInv, NEW p \in Pid, Prompt(p)
    PROVE  LET n == slot[p][1].swap IN
           /\ n \in Names /\ Exists(n) /\ seen[p] = swaps[n] /\ pending'[p] = swaps[n].text
           /\ slot' = slot /\ swaps' = swaps /\ disk' = disk /\ ~Stale(p)
           /\ slot[p][1].file \in File
  <1>1. slot[p][1].swap \in Names /\ slot[p][1].file \in File
    BY DEF Prompt, Checked, NameInv, ProcNames, ChecksAFile
  <1>2. seen[p] = swaps[slot[p][1].swap] /\ Exists(slot[p][1].swap)
    BY <1>1 DEF Prompt, Checked, LockInv, Decides
  <1> QED
    BY <1>1, <1>2 DEF Prompt, Checked, SwapTyped, ProcTyped

LEMMA Numbers ==
    ASSUME SwapTyped
    PROVE  /\ typed \in Nat /\ clock \in Nat
           /\ \A p \in Pid, i \in Index : slot[p][i].text \in Nat
           /\ \A n \in Names : swaps[n].text \in Nat /\ swaps[n].time \in Nat
           /\ \A f \in File : disk[f].text \in Nat /\ disk[f].mtime \in Nat
           /\ \A p \in Pid : pending[p] \in Nat
  <1>1. \A p \in Pid, i \in Index : slot[p][i].text \in Text
    BY SlotTyped DEF SwapTyped
  <1>2. \A n \in Names : swaps[n].text \in Text /\ swaps[n].time \in 0..MaxClock
    BY DEF SwapTyped, DiskTyped, Swap
  <1>3. \A f \in File : disk[f].text \in Text /\ disk[f].mtime \in 0..MaxClock
    BY DEF SwapTyped, DiskTyped
  <1>4. \A p \in Pid : pending[p] \in Nat
    BY Bounds DEF SwapTyped, ProcTyped, Text, NoBody
  <1>5. typed \in Nat /\ clock \in Nat
    BY Bounds DEF SwapTyped, DiskTyped, Text
  <1> QED
    BY <1>1, <1>2, <1>3, <1>4, <1>5, Bounds DEF Text

LEMMA TextsStep ==
    ASSUME SwapTyped, NameInv, LockInv, TextsTyped, NEW p \in Pid, Step(p)
    PROVE  TextsTyped'
  <1>0. SwapTyped' /\ Frame(p) /\ typed <= typed' /\ DiskTyped /\ ProcTyped
    BY TypedStep DEF DiskKept, SwapTyped
  <1>1. typed \in Nat /\ typed' \in Nat
    BY <1>0, Bounds DEF SwapTyped, DiskTyped, Text
  <1>2. ASSUME NEW q \in Pid, NEW i \in Index PROVE slot'[q][i].text <= typed'
    <2> DEFINE s == slot[q][i]
               t == slot'[q][i]
    <2>0. t \in Slot
      BY <1>0 DEF SwapTyped, ProcTyped
    <2>1. s.text \in Nat /\ t.text \in Nat /\ s.text <= typed
      BY <2>0, Numbers, Bounds DEF TextsTyped, Slot, Text
    <2>2. CASE q # p
      <3>1. t = s
        BY <1>0, <2>2 DEF Frame
      <3> QED
        BY <1>0, <1>1, <2>1, <3>1
    <2>3. CASE q = p
      <3>1. Becomes(p, i, s, t)
        BY <2>3, SlotStep
      <3>2. t.text \in {s.text, Blank} \/ WasOpened(p, i, t) \/ WasChanged(p, i, s, t)
              \/ WasRecovered(p, i, t)
        BY <3>1, ClosedHas DEF Becomes, WasWritten, WasSaved, LostSwap, LostSync, Has
      <3>3. ASSUME WasOpened(p, i, t) PROVE t.text <= typed
        BY <1>1, <3>3, Bounds DEF WasOpened, Has, TextsTyped, Blank
      <3>4. ASSUME WasRecovered(p, i, t) PROVE t.text <= typed
        BY <3>4 DEF WasRecovered, Has, TextsTyped, Names
      <3>5. ASSUME WasChanged(p, i, s, t) PROVE t.text <= typed'
        <4>1. CASE Type(p, i)
          BY <1>1, <3>5, <4>1, Bounds DEF WasChanged, Has, Type, AnswerYes, Attending, Blank
        <4>2. CASE AnswerYes(p)
          BY <1>1, <3>5, <4>2, Bounds DEF WasChanged, Has, Type, AnswerYes, Attending, TextsTyped
        <4> QED
          BY <3>5, <4>1, <4>2 DEF WasChanged
      <3> QED
        BY <1>0, <1>1, <2>1, <3>2, <3>3, <3>4, <3>5 DEF Blank
    <2> QED
      BY <2>2, <2>3
  <1>3. ASSUME NEW n \in Names PROVE swaps'[n].text <= typed'
    <2>1. swaps[n].text <= typed /\ swaps[n].text \in Nat
      BY Numbers DEF TextsTyped
    <2>2. CASE swaps'[n] = swaps[n]
      BY <1>0, <1>1, <2>1, <2>2
    <2>3. ASSUME NEW i \in Index, Writes(p, i, n) PROVE swaps'[n].text <= typed'
      <3>1. swaps'[n].text = slot[p][i].text
        BY <1>0, <2>3 DEF Writes, WriteSwap, DiskTyped
      <3>2. slot[p][i].text <= typed /\ slot[p][i].text \in Nat
        BY Numbers DEF TextsTyped
      <3> QED
        BY <1>0, <1>1, <3>1, <3>2
    <2>4. CASE Removes(p, n)
      BY <1>1, <2>4, NoWriterHas DEF Removes, Blank
    <2> QED
      BY <2>2, <2>3, <2>4, Touches
  <1>4. ASSUME NEW f \in File PROVE disk'[f].text <= typed'
    <2>1. disk[f].text <= typed /\ disk[f].text \in Nat
      BY Numbers DEF TextsTyped
    <2>2. CASE disk'[f] = disk[f]
      BY <1>0, <1>1, <2>1, <2>2
    <2>3. ASSUME NEW i \in Index, NEW bang \in BOOLEAN, Save(p, i, f, bang)
          PROVE  disk'[f].text <= typed'
      <3>1. disk'[f].text = slot[p][i].text
        BY <1>0, <2>3 DEF Save, DiskTyped
      <3>2. slot[p][i].text <= typed /\ slot[p][i].text \in Nat
        BY Numbers DEF TextsTyped
      <3> QED
        BY <1>0, <1>1, <3>1, <3>2
    <2> QED
      BY <2>2, <2>3, FileWritten
  <1>5. ASSUME NEW q \in Pid, pending'[q] # NoBody PROVE pending'[q] <= typed'
    <2>1. CASE pending'[q] = pending[q]
      BY <1>0, <1>1, <1>5, <2>1, Numbers DEF TextsTyped
    <2>2. CASE pending'[q] # pending[q]
      <3>1. q = p /\ Prompt(p)
        BY <1>0, <1>5, <2>2, PromptSet DEF Frame
      <3>2. PICK n \in Names : pending'[p] = swaps[n].text
        BY <3>1, Offered
      <3>3. swaps[n].text <= typed /\ swaps[n].text \in Nat
        BY Numbers DEF TextsTyped
      <3> QED
        BY <1>0, <1>1, <3>1, <3>2, <3>3
    <2> QED
      BY <2>1, <2>2
  <1> QED
    BY <1>2, <1>3, <1>4, <1>5 DEF TextsTyped

\* The time of a write is not before any other.
LEMMA TimesStep ==
    ASSUME SwapTyped, NameInv, LockInv, TimesBounded, NEW p \in Pid, Step(p)
    PROVE  TimesBounded'
  <1>0. SwapTyped' /\ clock <= clock' /\ DiskTyped /\ clock \in Nat /\ clock' \in Nat
    BY TypedStep, Bounds DEF DiskKept, SwapTyped, DiskTyped
  <1>1. ASSUME NEW n \in Names PROVE swaps'[n].time <= clock'
    <2>1. swaps[n].time <= clock /\ swaps[n].time \in Nat
      BY Numbers DEF TimesBounded
    <2>2. CASE swaps'[n] = swaps[n]
      BY <1>0, <2>1, <2>2
    <2>3. ASSUME NEW i \in Index, Writes(p, i, n) PROVE swaps'[n].time <= clock'
      BY <1>0, <2>3 DEF Writes, WriteSwap, DiskTyped
    <2>4. CASE Removes(p, n)
      BY <1>0, <2>4, NoWriterHas DEF Removes
    <2> QED
      BY <2>2, <2>3, <2>4, Touches
  <1>2. ASSUME NEW f \in File PROVE disk'[f].mtime <= clock'
    <2>1. disk[f].mtime <= clock /\ disk[f].mtime \in Nat
      BY Numbers DEF TimesBounded
    <2>2. CASE disk'[f] = disk[f]
      BY <1>0, <2>1, <2>2
    <2>3. ASSUME NEW i \in Index, NEW bang \in BOOLEAN, Save(p, i, f, bang)
          PROVE  disk'[f].mtime <= clock'
      BY <1>0, <2>3 DEF Save, DiskTyped
    <2> QED
      BY <2>2, <2>3, FileWritten
  <1> QED
    BY <1>1, <1>2 DEF TimesBounded

\* A save of a file that is not shared is the save of the buffer with its swap.
LEMMA SavedByItself ==
    ASSUME SwapTyped, NEW p \in Pid, Step(p), NEW f \in File, f \notin shared', NEW q \in Pid,
           slot'[q][1].swap = f, disk'[f] # disk[f]
    PROVE  /\ q = p
           /\ \E bang \in BOOLEAN : Save(p, 1, f, bang)
  <1>1. PICK i \in Index, bang \in BOOLEAN : Save(p, i, f, bang)
    BY FileWritten
  <1>2. slot'[p][i].file = f /\ pc'[p] = "saved" /\ at'[p] = i
    BY <1>1, SetsFile DEF Save, Has, Goto, SwapTyped, ProcTyped
  <1>3. About(q, 1, f)
    BY DEF About
  <1>4. p = q /\ i = 1
    BY <1>2, <1>3, StepTracks, SavedAlone, Bounds
  <1> QED
    BY <1>1, <1>4

\* What is written to the swap of a file is not older than the file.
LEMMA WritesNewer ==
    ASSUME SwapTyped, NameInv, AgeInv, NEW p \in Pid, NEW i \in Index, NEW f \in File,
           Writes(p, i, f), f \notin shared
    PROVE  swaps'[f].text >= disk[f].text /\ disk' = disk
  <1>1. slot[p][i].swap = f
    BY NamesOf DEF Writes, Target
  <1>2. i = 1
    BY <1>1 DEF NameInv, ProcNames, NamedWell
  <1>3. ~(slot[p][i].file = NoName /\ slot[p][i].text = Blank)
    BY <1>2, Bounds DEF Writes, IdleWrite, SwapPending, Arm, NameInv, ProcNames, ChecksAFile
  <1>4. slot[p][i].text >= disk[f].text
    BY <1>1, <1>2, <1>3 DEF AgeInv, SlotNotOlder
  <1>5. swaps'[f].text = slot[p][i].text
    BY DEF Writes, WriteSwap, SwapTyped, DiskTyped, Names
  <1>6. disk' = disk
    BY DEF Writes, IdleWrite, Arm
  <1> QED
    BY <1>4, <1>5, <1>6

LEMMA SwapAgeStep ==
    ASSUME SwapTyped, NameInv, LockInv, AgeInv, NEW p \in Pid, Step(p)
    PROVE  SwapNotOlder'
  <1>0. SwapTyped' /\ shared \subseteq shared' /\ clock <= clock' /\ clock \in Nat /\ clock' \in Nat
    BY TypedStep, Bounds DEF DiskKept, SwapTyped, DiskTyped
  <1> SUFFICES ASSUME NEW f \in File, f \notin shared', Exists(f)', swaps'[f].time > disk'[f].mtime
               PROVE  swaps'[f].text >= disk'[f].text
    BY DEF SwapNotOlder
  <1>1. f \notin shared /\ f \in Names /\ swaps'[f] # NoWriter
    BY <1>0 DEF Names, Exists
  <1>2. disk'[f] = disk[f]
    <2>1. ASSUME NEW i \in Index, NEW bang \in BOOLEAN, Save(p, i, f, bang) PROVE FALSE
      <3>1. disk'[f].mtime = clock' /\ swaps' = swaps
        BY <2>1 DEF Save, SwapTyped, DiskTyped
      <3>2. swaps[f].time <= clock /\ swaps[f].time \in Nat
        BY <1>1, Numbers DEF AgeInv, TimesBounded
      <3> QED
        BY <1>0, <3>1, <3>2
    <2> QED
      BY <2>1, FileWritten
  <1>3. CASE swaps'[f] = swaps[f]
    BY <1>1, <1>2, <1>3 DEF AgeInv, SwapNotOlder, Exists
  <1>4. ASSUME NEW i \in Index, Writes(p, i, f) PROVE swaps'[f].text >= disk'[f].text
    BY <1>1, <1>2, <1>4, WritesNewer
  <1> QED
    BY <1>1, <1>3, <1>4, Touches DEF Removes

LEMMA SlotAgeStep ==
    ASSUME SwapTyped, NameInv, LockInv, TextsTyped, OwnerInv, AgeInv, NEW p \in Pid, Step(p),
           NEW q \in Pid
    PROVE  SlotNotOlder(q)'
  <1> DEFINE s == slot[q][1]
             t == slot'[q][1]
             f == slot'[q][1].swap
  <1>0. SwapTyped' /\ Frame(p) /\ shared \subseteq shared' /\ NameInv' /\ Track /\ 1 \in Index
    BY TypedStep, NamesStep, StepTracks, Bounds
  <1> SUFFICES ASSUME f \in File, f \notin shared'
               PROVE  /\ t.file \in {f, NoName}
                      /\ t.text >= disk'[f].text \/ (t.file = NoName /\ t.text = Blank)
                      /\ pending'[q] # NoBody => pending'[q] >= disk'[f].text
    BY DEF SlotNotOlder
  <1>1. f \notin shared /\ t.file \in {f, NoName}
    BY <1>0, NotRenamed
  <1>2. disk[f].text \in Nat /\ s.text \in Nat /\ typed \in Nat /\ disk[f].text <= typed
    BY Numbers, Bounds DEF TextsTyped
  <1>3. CASE q = p /\ \E g \in File, bang \in BOOLEAN : Save(p, 1, g, bang)
    <2>1. PICK g \in File, bang \in BOOLEAN : Save(p, 1, g, bang)
      BY <1>3
    <2>2. t.file = g /\ t.text = s.text
      <3>1. slot \in [Pid -> [Index -> Slot]]
        BY DEF SwapTyped, ProcTyped
      <3>2. Has(slot'[p][1], slot[p][1].open, g, slot[p][1].swap, slot[p][1].text, FALSE,
                slot[p][1].synced, slot[p][1].ro)
        BY <1>0, <2>1, <3>1, SetsFile DEF Save
      <3> QED
        BY <1>3, <3>2 DEF Has
    <2>3. g = f /\ disk'[f].text = s.text
      BY <1>1, <1>3, <2>1, <2>2, Bounds DEF Save, SwapTyped, DiskTyped
    <2>4. pending'[q] = NoBody
      BY <1>3, <2>1 DEF Save, Attending
    <2> QED
      BY <1>1, <1>2, <2>2, <2>3, <2>4
  <1>4. CASE ~(q = p /\ \E g \in File, bang \in BOOLEAN : Save(p, 1, g, bang))
    <2>1. disk'[f] = disk[f]
      BY <1>4, SavedByItself
    <2>2. CASE q # p
      <3>1. t = s /\ pending'[q] = pending[q]
        BY <1>0, <2>2 DEF Frame
      <3> QED
        BY <1>1, <2>1, <3>1 DEF AgeInv, SlotNotOlder
    <2>3. CASE q = p
      <3>1. CASE WasOpened(p, 1, t)
        <4>1. t.text = disk[f].text /\ pending[p] = NoBody /\ pending' = pending
          BY <2>3, <3>1, Bounds, ClosedHas
            DEF WasOpened, Has, Start, OpenFile, Attending, procVars, NameInv, ProcNames, ChecksAFile,
                DeadHoldsNothing
        <4> QED
          BY <1>1, <1>2, <2>1, <2>3, <4>1
      <3>2. CASE ~WasOpened(p, 1, t)
        <4>1. Target(p, 1) \in File => Target(p, 1) = s.swap
          BY <2>3, NamesOf, Bounds DEF Target
        <4>2. Becomes(p, 1, s, t) /\ ~WasSaved(p, 1, s, t)
          BY <1>4, <2>3, SlotStep, Bounds DEF WasSaved
        <4>3. /\ s.swap = f
              /\ \/ t.text = s.text /\ (t.file = s.file)
                 \/ t.file = NoName /\ t.text = Blank
                 \/ WasChanged(p, 1, s, t)
          BY <3>2, <4>1, <4>2, Bounds, ClosedHas
            DEF Becomes, WasWritten, WasChanged, WasRecovered, LostSwap, LostSync, Has
        <4>4. SlotNotOlder(p) /\ s.file \in {f, NoName}
          BY <1>1, <2>3, <4>3 DEF AgeInv, SlotNotOlder
        <4>5. ASSUME WasChanged(p, 1, s, t) PROVE t.text >= disk[f].text
          <5>1. CASE Type(p, 1) /\ t.text = typed + 1
            BY <1>2, <5>1
          <5>2. CASE AnswerYes(p) /\ t.text = pending[p]
            BY <1>1, <2>3, <4>3, <4>4, <5>2 DEF AnswerYes, SlotNotOlder
          <5> QED
            BY <4>5, <5>1, <5>2 DEF WasChanged, Has
        <4>6. t.text >= disk[f].text \/ (t.file = NoName /\ t.text = Blank)
          BY <1>1, <2>3, <4>3, <4>4, <4>5 DEF SlotNotOlder
        <4>7. ASSUME pending'[p] # NoBody PROVE pending'[p] >= disk[f].text
          <5>1. CASE pending'[p] = pending[p]
            BY <1>1, <2>3, <4>3, <4>4, <4>7, <5>1 DEF SlotNotOlder
          <5>2. CASE pending'[p] # pending[p]
            <6>1. Prompt(p)
              BY <4>7, <5>2, PromptSet
            <6>2. /\ Exists(f) /\ seen[p] = swaps[f] /\ pending'[p] = swaps[f].text
                  /\ ~Stale(p) /\ s.file \in File
              BY <2>3, <4>3, <6>1, Offered
            <6>3. s.file = f
              BY <4>4, <6>2, Bounds
            <6>4. CASE force[p]
              <7>1. Settled(p)
                BY <6>1, <6>4 DEF Prompt, Checked, Settled
              <7> QED
                BY <1>1, <2>3, <4>3, <6>2, <7>1 DEF AgeInv, SettledNotOlder
            <6>5. CASE ~force[p]
              <7>1. swaps[f].time > disk[f].mtime
                BY <2>3, <6>2, <6>3, <6>5, Numbers DEF Stale, Names
              <7> QED
                BY <1>1, <6>2, <7>1 DEF AgeInv, SwapNotOlder
            <6> QED
              BY <6>4, <6>5
          <5> QED
            BY <5>1, <5>2
        <4> QED
          BY <1>1, <2>1, <2>3, <4>6, <4>7
      <3> QED
        BY <3>1, <3>2
    <2> QED
      BY <2>2, <2>3
  <1> QED
    BY <1>3, <1>4

\* A buffer settles when its swap is gone, or when the prompt offers the swap.
LEMMA SettlesDown ==
    ASSUME SwapTyped, NameInv, NEW p \in Pid, AsOpened(p), Step(p), Settled(p)',
           slot'[p][1].swap = slot[p][1].swap, slot[p][1].swap \in File
    PROVE  Settled(p) \/ ~Exists(slot[p][1].swap)' \/ Prompt(p)
  <1> USE Bounds DEF Goto, Settled
  <1>0. /\ pc \in [Pid -> Place] /\ force \in [Pid -> BOOLEAN] /\ at \in [Pid -> Index]
        /\ swaps \in [Names -> Swap] /\ slot[p][1].swap \in Names
    BY DEF SwapTyped, ProcTyped, FlagsTyped, DiskTyped, Names
  <1>1. CASE Opening(p)
    <2>1. ASSUME NEW f \in File \cup {NoName}, Start(p, f) PROVE ~Settled(p)'
      <3>1. slot'[p][1].swap = f
        BY <2>1, OpenFacts DEF Start, Has
      <3> QED
        BY <1>0, <2>1, <3>1 DEF Start
    <2>2. CASE CheckExists(p)
      BY <1>0, <2>2 DEF CheckExists, Exists, AsOpened, procVars
    <2>3. CASE ReadSwap(p)
      BY <1>0, <2>3 DEF ReadSwap, Exists
    <2>4. CASE DropStale(p)
      BY <1>0, <2>4 DEF DropStale, Removed, Exists
    <2>5. CASE OpenReadOnly(p)
      BY <2>5, SetsReadOnly DEF OpenReadOnly, Has, SwapTyped, ProcTyped
    <2> QED
      BY <1>0, <1>1, <2>1, <2>2, <2>3, <2>4, <2>5
        DEF Opening, OpenFile, ForceRecover, Arm, Attending
  <1>2. CASE Startup(p)
    BY <1>2 DEF Startup, Disable, Scan, EnterLoop, SkipOrphan, RecoverOrphan
  <1>3. CASE Running(p)
    <2>1. CASE SaveDone(p)
      BY <1>0, <2>1 DEF SaveDone, Removed, Exists
    <2>2. CASE ExitDone(p) \/ Crash(p)
      BY <2>2, GoneFacts, ClosedHas DEF ExitDone, Crash, Has
    <2> QED
      BY <1>3, <2>1, <2>2 DEF Running, Type, IdleWrite, ExitClean, Save, CloseBuffer, AnswerYes,
                AnswerNo, AnswerAbort, Quit, Attending
  <1> QED
    BY <1>1, <1>2, <1>3 DEF Step

LEMMA SettledAgeStep ==
    ASSUME SwapTyped, NameInv, LockInv, OwnerInv, AgeInv, NEW p \in Pid, Step(p), NEW q \in Pid
    PROVE  SettledNotOlder(q)'
  <1> DEFINE f == slot'[q][1].swap
  <1>0. SwapTyped' /\ Frame(p) /\ shared \subseteq shared' /\ 1 \in Index
    BY TypedStep, Bounds
  <1> SUFFICES ASSUME f \in File, f \notin shared', Settled(q)', swaps'[f] # NoWriter
               PROVE  swaps'[f].text >= disk'[f].text
    BY DEF SettledNotOlder, Exists
  <1>1. f \notin shared /\ f \in Names
    BY <1>0 DEF Names
  <1>2. slot[q][1].swap = f
    <2>1. CASE q # p
      BY <1>0, <2>1 DEF Frame
    <2>2. CASE q = p
      <3>1. \A g \in File : Start(p, g) \/ OpenFile(p, g) => pc'[p] = "check"
        BY Bounds DEF Start, OpenFile, Goto, SwapTyped, ProcTyped
      <3> QED
        BY <2>2, <3>1, SwapKept DEF Settled
    <2> QED
      BY <2>1, <2>2
  <1>3. disk'[f] = disk[f]
    <2>1. SUFFICES ASSUME disk'[f] # disk[f] PROVE FALSE
      OBVIOUS
    <2>2. q = p /\ \E bang \in BOOLEAN : Save(p, 1, f, bang)
      BY <2>1, SavedByItself
    <2> QED
      BY <2>2 DEF Save, Goto, Settled, SwapTyped, ProcTyped
  <1>4. ASSUME NEW i \in Index, Writes(p, i, f) PROVE swaps'[f].text >= disk'[f].text
    BY <1>1, <1>3, <1>4, WritesNewer
  <1>5. CASE swaps'[f] = swaps[f]
    <2>1. Exists(f)
      BY <1>5 DEF Exists
    <2>2. Settled(q) \/ (q = p /\ Prompt(p))
      <3>1. CASE q # p
        BY <1>0, <3>1 DEF Frame, Settled
      <3>2. CASE q = p
        BY <1>1, <1>2, <3>2, SettlesDown DEF OwnerInv, Exists
      <3> QED
        BY <3>1, <3>2
    <2>3. CASE Settled(q)
      BY <1>1, <1>2, <1>3, <1>5, <2>1, <2>3 DEF AgeInv, SettledNotOlder
    <2>4. CASE q = p /\ Prompt(p) /\ ~Settled(q)
      <3>1. ~force[p]
        BY <2>4 DEF Prompt, Checked, Settled
      <3>2. seen[p] = swaps[f] /\ ~Stale(p)
        BY <1>2, <2>4, Offered
      <3>3. slot[p][1].file = f
        BY <1>2, <2>4, <3>1 DEF OwnerInv, AsOpened, Prompt, Checked, Checking
      <3>4. swaps[f].time > disk[f].mtime
        BY <1>1, <3>1, <3>2, <3>3, Numbers DEF Stale
      <3> QED
        BY <1>1, <1>3, <1>5, <2>1, <3>4 DEF AgeInv, SwapNotOlder
    <2> QED
      BY <2>2, <2>3, <2>4
  <1> QED
    BY <1>1, <1>4, <1>5, Touches DEF Removes

LEMMA AgeStep ==
    ASSUME SwapTyped, NameInv, LockInv, TextsTyped, OwnerInv, AgeInv, NEW p \in Pid, Step(p)
    PROVE  AgeInv'
  <1>1. TimesBounded'
    BY TimesStep DEF AgeInv
  <1> QED
    BY <1>1, SwapAgeStep, SlotAgeStep, SettledAgeStep DEF AgeInv

----------------------------------------------------------------------------
(***************************************************************************)
(* The invariant.                                                          *)
(***************************************************************************)
LEMMA InvInit == Init => SwapInv
  <1> SUFFICES ASSUME Init PROVE SwapInv
    OBVIOUS
  <1> USE Bounds
  <1>1. PICK p \in Pid, f \in File \cup {NoName} :
           swaps = [n \in Names |->
              IF n \in {<<p, 1>>, f}
              THEN [text |-> IF n = f THEN 1 ELSE 2, time |-> 0, pid |-> p,
                    of |-> IF n = f THEN f ELSE NoName]
              ELSE NoWriter]
    BY DEF Init
  <1>2. ASSUME NEW n \in Names
        PROVE  \/ swaps[n] = NoWriter
               \/ n = <<p, 1>> /\ swaps[n] = [text |-> 2, time |-> 0, pid |-> p, of |-> NoName]
               \/ n \in File /\ n = f /\ swaps[n] = [text |-> 1, time |-> 0, pid |-> p, of |-> f]
    BY <1>1, NamesOf
  <1>3. 0 \in Text /\ 1 \in Text /\ 2 \in Text /\ 0 \in 0..MaxClock
    BY DEF Text
  <1>4. swaps \in [Names -> Swap]
    <2>1. ASSUME NEW n \in Names PROVE swaps[n] \in Swap
      BY <1>2, <1>3, NoWriterHas DEF Swap
    <2> QED
      BY <1>1, <2>1
  <1>5. /\ disk = [g \in File |-> [text |-> 1, mtime |-> 0]] /\ clock = 0 /\ typed = 2
        /\ starts = 0 /\ shared = {}
    BY DEF Init
  <1>6. DiskTyped
    BY <1>3, <1>4, <1>5 DEF DiskTyped
  <1>7. /\ slot \in [Pid -> [Index -> Slot]]
        /\ \A q \in Pid, i \in Index : slot[q][i] = Closed
        /\ pc = [q \in Pid |-> "dead"] /\ pending = [q \in Pid |-> NoBody]
        /\ force = [q \in Pid |-> FALSE]
    BY ClosedHas DEF Init, Has
  <1>8. ProcTyped /\ FlagsTyped
    BY <1>7, NoWriterHas DEF Init, ProcTyped, FlagsTyped, Place
  <1>9. NameInv
    <2>1. ScratchPids
      BY <1>2, NamesOf DEF ScratchPids
    <2>2. ASSUME NEW q \in Pid PROVE ProcNames(q)
      BY <1>7, ClosedHas DEF ProcNames, NamedWell, ChecksAFile, DeadHoldsNothing, Has
    <2> QED
      BY <2>1, <2>2 DEF NameInv
  <1>10. LockInv
    BY <1>7 DEF LockInv, Decides
  <1>11. \A n \in Names : swaps[n].text <= 2 /\ swaps[n].time <= 0
    BY <1>2, NoWriterHas DEF Blank
  <1>12. TextsTyped
    BY <1>5, <1>7, <1>11, ClosedHas DEF TextsTyped, Has, Blank
  <1>13. UniqueInv
    <2>1. \A x \in Pid \X Index : ~Scratch(x)
      BY <1>7, ClosedHas DEF Scratch, Has
    <2>2. \A n \in Pid \X Index : Loose(n) => n = <<p, 1>>
      BY <1>2, NamesOf DEF Loose, Exists, Names
    <2> QED
      BY <2>1, <2>2 DEF UniqueInv
  <1>14. OwnerInv
    BY <1>7, ClosedHas DEF OwnerInv, AsOpened, SyncedIsOnDisk, NoRival, Checking, Has
  <1>15. AgeInv
    <2>1. TimesBounded
      BY <1>5, <1>11 DEF TimesBounded
    <2>2. SwapNotOlder
      <3>1. ASSUME NEW g \in File PROVE ~(swaps[g].time > disk[g].mtime)
        <4>1. g \in Names /\ swaps[g].time \in 0..MaxClock
          BY <1>4 DEF Names, Swap
        <4>2. disk[g].mtime = 0 /\ swaps[g].time <= 0
          BY <1>5, <1>11, <4>1
        <4> QED
          BY <4>1, <4>2, Bounds
      <3> QED
        BY <3>1 DEF SwapNotOlder
    <2>3. \A q \in Pid : slot[q][1].swap \notin File
      BY <1>7, ClosedHas DEF Has
    <2> QED
      BY <2>1, <2>2, <2>3 DEF AgeInv, SlotNotOlder, SettledNotOlder
  <1> QED
    BY <1>6, <1>8, <1>9, <1>10, <1>12, <1>13, <1>14, <1>15 DEF SwapInv, SwapTyped

LEMMA InvNext == SwapInv /\ [Next]_vars => SwapInv'
  <1> SUFFICES ASSUME SwapInv, [Next]_vars PROVE SwapInv'
    OBVIOUS
  <1>1. CASE Next
    <2>1. PICK p \in Pid : Step(p)
      BY <1>1 DEF Next, Step
    <2> QED
      BY <2>1, TypedStep, NamesStep, LockStep, TextsStep, UniqueStep, OwnerStep, AgeStep
        DEF SwapInv
  <1>2. CASE UNCHANGED vars
    <2> USE <1>2 DEF vars, procVars
    <2>1. SwapTyped' /\ LockInv'
      BY DEF SwapInv, SwapTyped, DiskTyped, ProcTyped, FlagsTyped, LockInv, Decides, Exists
    <2>2. NameInv'
      BY DEF SwapInv, NameInv, ScratchPids, ProcNames, NamedWell, ChecksAFile, DeadHoldsNothing
    <2>3. TextsTyped' /\ UniqueInv'
      BY DEF SwapInv, TextsTyped, UniqueInv, Scratch, TextOf, Loose, Exists
    <2>4. OwnerInv'
      BY DEF SwapInv, OwnerInv, AsOpened, SyncedIsOnDisk, NoRival, Private
    <2>5. AgeInv'
      BY DEF SwapInv, AgeInv, TimesBounded, SwapNotOlder, SlotNotOlder, SettledNotOlder, Settled,
             Exists
    <2> QED
      BY <2>1, <2>2, <2>3, <2>4, <2>5 DEF SwapInv
  <1> QED
    BY <1>1, <1>2

\* The parts of SwapInv hold together in every state, for any number of processes,
\* files and buffers and any bounds: names, locks, owners and ages of swaps.
THEOREM SwapInvariant == Spec => []SwapInv
  BY InvInit, InvNext, PTL DEF Spec

\* Every variable of SwapFiles has its type in every reachable state.
THEOREM SwapTypes == Spec => []SwapTypeOK
  <1>1. SwapTyped => SwapTypeOK
    BY DEF SwapTyped, DiskTyped, ProcTyped, FlagsTyped, SwapTypeOK, Swap, Slot, Place
  <1> QED
    BY <1>1, SwapInvariant, PTL DEF SwapInv

\* No two buffers hold the same unsaved unnamed text: recover_one_orphan_locked
\* gives an orphan to one process, and its swap is gone before another looks.
THEOREM SwapOrphanRecoveredOnce == Spec => []OrphanRecoveredOnce
  <1>1. UniqueInv => OrphanRecoveredOnce
    <2> SUFFICES ASSUME UniqueInv, NEW p \in Pid, NEW q \in Pid, NEW i \in Index, NEW j \in Index,
                        <<p, i>> # <<q, j>>,
                        \A s \in {slot[p][i], slot[q][j]} : s.dirty /\ s.file = NoName
                 PROVE  slot[p][i].text # slot[q][j].text
      BY DEF OrphanRecoveredOnce
    <2>1. Scratch(<<p, i>>) /\ Scratch(<<q, j>>)
      BY DEF Scratch
    <2>2. TextOf(<<p, i>>) # TextOf(<<q, j>>)
      BY <2>1 DEF UniqueInv
    <2> QED
      BY <2>2 DEF TextOf
  <1> QED
    BY <1>1, SwapInvariant, PTL DEF SwapInv

\* While no two processes write a file, what the idle writer takes for done is
\* on disk, under its process's pid and the name where recovery looks.
THEOREM SwapSyncedWorkIsFindable == Spec => []SyncedWorkIsFindable
  <1>1. SwapTyped /\ SyncedIsOnDisk => SyncedWorkIsFindable
    <2> SUFFICES ASSUME SwapTyped, SyncedIsOnDisk, NEW p \in Pid, NEW i \in Index,
                        slot[p][i].synced, slot[p][i].swap = Home(p, i), slot[p][i].swap \notin shared
                 PROVE  LET s == slot[p][i] IN
                        /\ swaps[s.swap].text = s.text
                        /\ swaps[s.swap].pid = p
                        /\ s.file = NoName => swaps[s.swap].of = NoName
      BY DEF SyncedWorkIsFindable
    <2>1. slot[p][i].file \in File \cup {NoName}
      BY SlotTyped DEF SwapTyped
    <2>2. Private(slot[p][i].swap)
      BY <2>1, NamesOf DEF Home, Private, Names
    <2> QED
      BY <2>2 DEF SyncedIsOnDisk
  <1> QED
    BY <1>1, SwapInvariant, PTL DEF SwapInv, OwnerInv

\* Recovery acts on a header and on a scan that may be old by then, but it never
\* removes the swap of another process that is alive.
THEOREM SwapRecoverySparesTheLive == Spec => RecoverySparesTheLive
  <1> DEFINE Spares ==
        \A p \in Pid, n \in Names :
          /\ pc[p] \in {"decide", "orphans"}
          /\ pc'[p] # pc[p] \/ cand'[p] # cand[p]
          /\ swaps[n].pid # p /\ Alive(swaps[n].pid)
          => swaps'[n] = swaps[n]
  <1>1. ASSUME SwapInv, Next PROVE Spares
    <2> SUFFICES ASSUME NEW p \in Pid, NEW n \in Names, pc[p] \in {"decide", "orphans"},
                        pc'[p] # pc[p] \/ cand'[p] # cand[p],
                        swaps[n].pid # p, Alive(swaps[n].pid), swaps'[n] # swaps[n]
                 PROVE  FALSE
      OBVIOUS
    <2>0. SwapTyped /\ NameInv /\ LockInv
      BY <1>1 DEF SwapInv
    <2>1. PICK r \in Pid : Step(r)
      BY <1>1 DEF Next, Step
    <2>2. r = p
      BY <2>0, <2>1, TypedStep DEF Frame
    <2>3. (\E i \in Index : Writes(p, i, n)) \/ Removes(p, n)
      BY <2>0, <2>1, <2>2, Touches
    <2>4. ~\E i \in Index : Writes(p, i, n)
      BY DEF Writes, IdleWrite, Arm
    <2>5. ~(DropStale(p) /\ slot[p][1].swap = n)
      BY <2>0 DEF DropStale, Checked, Locked, LockInv, Decides
    <2>6. ~\E i \in Index : RecoverOrphan(p, n, i)
      BY DEF RecoverOrphan, StillOrphan, Orphan
    <2> QED
      BY <2>3, <2>4, <2>5, <2>6 DEF Removes
  <1>2. SwapInv /\ [Next]_vars => [Spares]_vars
    BY <1>1
  <1>3. RecoverySparesTheLive <=> [][Spares]_vars
    BY DEF RecoverySparesTheLive
  <1> QED
    BY <1>2, <1>3, SwapInvariant, PTL DEF Spec

\* While no two processes write a file, the prompt on opening it never offers a
\* text older than the one saved, whatever crashed in between.
THEOREM SwapRecoveryNeverGoesBack == Spec => RecoveryNeverGoesBack
  <1> DEFINE Forward ==
        \A p \in Pid : LET f == slot[p][1].file IN
          pc[p] = "decide" /\ ~force[p] /\ pending'[p] # pending[p] /\ f \notin shared
          => pending'[p] >= disk[f].text
  <1>1. ASSUME SwapInv, Next PROVE Forward
    <2> SUFFICES ASSUME NEW p \in Pid, pc[p] = "decide", ~force[p], pending'[p] # pending[p],
                        slot[p][1].file \notin shared
                 PROVE  pending'[p] >= disk[slot[p][1].file].text
      OBVIOUS
    <2>0. SwapTyped /\ NameInv /\ LockInv /\ OwnerInv /\ AgeInv
      BY <1>1 DEF SwapInv
    <2>1. PICK r \in Pid : Step(r)
      BY <1>1 DEF Next, Step
    <2>2. r = p
      BY <2>0, <2>1, TypedStep DEF Frame
    <2>3. slot[p][1].file \in File /\ slot[p][1].swap = slot[p][1].file
      BY <2>0 DEF NameInv, ProcNames, ChecksAFile, OwnerInv, AsOpened, Checking
    <2>4. CASE pending'[p] = NoBody
      <3>1. disk[slot[p][1].file].text \in 0..MaxText
        BY <2>0, <2>3 DEF SwapTyped, DiskTyped, Text
      <3> QED
        BY <2>4, <3>1, Bounds DEF NoBody
    <2>5. CASE pending'[p] # NoBody
      <3>1. Prompt(p)
        BY <2>0, <2>1, <2>2, <2>5, PromptSet
      <3> DEFINE g == slot[p][1].file
      <3>2. Exists(g) /\ seen[p] = swaps[g] /\ pending'[p] = swaps[g].text /\ ~Stale(p)
        BY <2>0, <2>3, <3>1, Offered
      <3>3. swaps[g].time > disk[g].mtime
        BY <2>0, <2>3, <3>2, Numbers DEF Stale, Names
      <3> QED
        BY <2>0, <2>3, <3>2, <3>3 DEF AgeInv, SwapNotOlder
    <2> QED
      BY <2>4, <2>5
  <1>2. SwapInv /\ [Next]_vars => [Forward]_vars
    BY <1>1
  <1>3. RecoveryNeverGoesBack <=> [][Forward]_vars
    BY DEF RecoveryNeverGoesBack
  <1> QED
    BY <1>2, <1>3, SwapInvariant, PTL DEF Spec
=============================================================================
