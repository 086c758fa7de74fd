--------------------------- MODULE StateFileProofs ---------------------------
(***************************************************************************)
(* Proofs about FileLock, for every set of processes and threads, and then *)
(* about StateFile, which runs on it: the file-state index survives its    *)
(* writers, for any number of processes, threads and files, every cap and  *)
(* every failure.                                                          *)
(***************************************************************************)
EXTENDS StateFile, SequenceTheorems, FiniteSetTheorems, TLAPS

-----------------------------------------------------------------------------
(***************************************************************************)
(* The lock.                                                               *)
(***************************************************************************)
\* A thread that is acquiring or holding the path has its process's claim, and a
\* claim belongs to such a thread.
Owns(a) == Holds(a) \/ pc[a] \in {"open", "lock"}

ClaimExact ==
    /\ \A a \in Actor : Owns(a) => Claimed(a[1]) /\ holder[a[1]].thread = a[2]
    /\ \A p \in Proc : Claimed(p) => \E a \in Actor : a[1] = p /\ Owns(a)

\* What each phase says of the thread's handle and of its claim.
PhaseExact ==
    \A a \in Actor :
        /\ pc[a] /= "run" => guards[a] = <<>>
        /\ os[a] /= "none" => Holds(a) \/ pc[a] \in {"notify", "unlock"}
        /\ pc[a] \in {"open", "lock"} =>
              /\ holder[a[1]].depth = 1
              /\ holder[a[1]].exclusive = (want[a] = "exclusive")
        /\ Holds(a) =>
              /\ holder[a[1]].exclusive = (os[a] = "exclusive")

\* The kernel's half of the exclusion.
OsExact ==
    \A a, b \in Actor : a /= b /\ os[a] = "exclusive" => os[b] = "none"

LockInv ==
    /\ LockTypeOK
    /\ ClaimExact
    /\ PhaseExact
    /\ OsExact
    /\ NestIsCovered
    /\ SleeperHasWaker

-----------------------------------------------------------------------------
\* A nest that loses its last guard is one shorter, the others in place.
LEMMA FrontOfNest ==
    ASSUME NEW s \in Seq(Mode), s /= <<>>
    PROVE  /\ SubSeq(s, 1, Len(s) - 1) \in Seq(Mode)
           /\ Len(SubSeq(s, 1, Len(s) - 1)) = Len(s) - 1
           /\ \A i \in 1..(Len(s) - 1) : SubSeq(s, 1, Len(s) - 1)[i] = s[i]
           /\ SubSeq(s, 1, Len(s) - 1) = <<>> <=> Len(s) = 1
           /\ Len(s) \in Nat \ {0}
  <1> DEFINE n == Len(s) - 1
             f == SubSeq(s, 1, n)
  <1>1. Len(s) \in Nat \ {0} /\ n \in Nat /\ Len(s) = n + 1
    BY EmptySeq
  <1>2. \A i \in 1..n : s[i] \in Mode
    BY <1>1, ElementOfSeq
  <1> HIDE DEF n
  <1>3. /\ f \in Seq(Mode)
        /\ Len(f) = IF 1 <= n THEN n - 1 + 1 ELSE 0
        /\ \A i \in 1..(n - 1 + 1) : f[i] = s[1 + i - 1]
    BY <1>1, <1>2, SubSeqProperties
  <1> HIDE DEF f
  <1>4. Len(f) = n
    BY <1>1, <1>3
  <1>5. \A i \in 1..n : f[i] = s[i]
    BY <1>1, <1>3
  <1>6. f = <<>> <=> Len(s) = 1
    BY <1>1, <1>3, <1>4, EmptySeq
  <1> QED
    BY <1>1, <1>3, <1>4, <1>5, <1>6 DEF f, n

\* An actor is its process and its thread.
LEMMA ActorIsPair ==
    ASSUME NEW a \in Actor
    PROVE  a[1] \in Proc /\ a[2] \in Thread /\ a = <<a[1], a[2]>>
  BY DEF Actor

\* A nest that gains a guard is one longer, the others in place.
LEMMA NestGrows ==
    ASSUME NEW s \in Seq(Mode), NEW m \in Mode
    PROVE  /\ Append(s, m) \in Seq(Mode)
           /\ Append(s, m) /= <<>>
           /\ Len(s) \in Nat
           /\ Len(Append(s, m)) = Len(s) + 1
           /\ \A i \in 1..Len(s) : Append(s, m)[i] = s[i]
           /\ Append(s, m)[Len(s) + 1] = m
  BY AppendProperties, LenProperties, EmptySeq

\* One thread of a process at a time acquires or holds the path.
LEMMA OneOwner ==
    ASSUME ClaimExact, NEW a \in Actor, NEW b \in Actor, Owns(a), Owns(b), a[1] = b[1]
    PROVE  a = b
  BY ActorIsPair DEF ClaimExact

LEMMA LockInvInit == LockInit => LockInv
  BY LockBounds DEF LockInit, LockInv, LockTypeOK, ClaimExact, Owns, PhaseExact,
     OsExact, NestIsCovered, SleeperHasWaker, Claimed, Holds, Mode, Phase, NoHolder

\* A step after which the same threads own the path keeps the claims exact.
LEMMA SameOwners ==
    ASSUME ClaimExact,
           \A b \in Actor : Owns(b)' <=> Owns(b),
           \A p \in Proc : /\ Claimed(p)' <=> Claimed(p)
                           /\ Claimed(p) => holder'[p].thread = holder[p].thread
    PROVE  ClaimExact'
  <1>1. ASSUME NEW b \in Actor, Owns(b)'
        PROVE  Claimed(b[1])' /\ holder'[b[1]].thread = b[2]
    BY <1>1, ActorIsPair DEF ClaimExact
  <1>2. ASSUME NEW p \in Proc, Claimed(p)'
        PROVE  \E b \in Actor : b[1] = p /\ Owns(b)'
    BY <1>2 DEF ClaimExact
  <1> QED
    BY <1>1, <1>2 DEF ClaimExact

\* A sleeper keeps its waker over a step that puts nobody to sleep and after
\* which every waker still is one.
LEMMA SameWakers ==
    ASSUME SleeperHasWaker,
           \A b \in Actor : pc'[b] = "asleep" => pc[b] = "asleep",
           \A b \in Actor : Owns(b) \/ pc[b] = "notify" => Owns(b)' \/ pc'[b] = "notify"
    PROVE  SleeperHasWaker'
  <1> SUFFICES ASSUME NEW b \in Actor, pc'[b] = "asleep"
               PROVE  \E c \in Peers(b) : Holds(c)' \/ pc'[c] \in {"open", "lock", "notify"}
    BY DEF SleeperHasWaker
  <1>1. PICK c \in Peers(b) : Holds(c) \/ pc[c] \in {"open", "lock", "notify"}
    BY DEF SleeperHasWaker
  <1>2. c \in Actor /\ (Owns(c) \/ pc[c] = "notify")
    BY <1>1 DEF Peers, Owns
  <1> QED
    BY <1>2 DEF Owns

LEMMA ClaimFreeKeeps ==
    ASSUME LockInv, NEW a \in Actor, NEW m \in Mode, ClaimFree(a, m)
    PROVE  LockInv'
  <1> USE ActorIsPair DEF LockInv, Mode, NoHolder
  <1>lockTypeOK. LockTypeOK'
    BY DEF ClaimFree, Arrives, Call, LockTypeOK, Holder, Phase
  <1>claimExact. ClaimExact'
    <2>1. ASSUME NEW b \in Actor, Owns(b)'
          PROVE  Claimed(b[1])' /\ holder'[b[1]].thread = b[2]
      <3>1. CASE b = a
        BY <3>1 DEF ClaimFree, Claimed, LockTypeOK
      <3>2. CASE b /= a
        <4>1. Owns(b)
          BY <2>1, <3>2 DEF ClaimFree, Owns, Holds, LockTypeOK
        <4>2. b[1] /= a[1]
          BY <4>1 DEF ClaimFree, ClaimExact
        <4> QED
          BY <4>1, <4>2 DEF ClaimFree, ClaimExact, Claimed, LockTypeOK
      <3> QED
        BY <3>1, <3>2
    <2>2. ASSUME NEW p \in Proc, Claimed(p)'
          PROVE  \E b \in Actor : b[1] = p /\ Owns(b)'
      <3>1. CASE p = a[1]
        BY <3>1 DEF ClaimFree, Owns, LockTypeOK
      <3>2. CASE p /= a[1]
        <4>1. Claimed(p)
          BY <2>2, <3>2 DEF ClaimFree, Claimed, LockTypeOK
        <4>2. PICK b \in Actor : b[1] = p /\ Owns(b)
          BY <4>1 DEF ClaimExact
        <4> QED
          BY <4>2, <3>2 DEF ClaimFree, Owns, Holds, LockTypeOK
      <3> QED
        BY <3>1, <3>2
    <2> QED
      BY <2>1, <2>2 DEF ClaimExact
  <1>phaseExact. PhaseExact'
    BY DEF ClaimFree, Arrives, Call, LockTypeOK, ClaimExact, Owns, PhaseExact, Claimed, Holds
  <1>osExact. OsExact'
    BY DEF ClaimFree, Arrives, Call, LockTypeOK, OsExact
  <1>nestIsCovered. NestIsCovered'
    BY DEF ClaimFree, Arrives, Call, LockTypeOK, ClaimExact, Owns, PhaseExact, NestIsCovered, Claimed, Holds
  <1>sleeperHasWaker. SleeperHasWaker'
    <2>1. \A b \in Actor : pc'[b] = "asleep" => pc[b] = "asleep"
      BY DEF ClaimFree, Arrives, Call, LockTypeOK
    <2>2. \A b \in Actor : Owns(b) \/ pc[b] = "notify" => Owns(b)' \/ pc'[b] = "notify"
      BY DEF ClaimFree, Arrives, Call, Owns, Holds, LockTypeOK, PhaseExact
    <2> QED
      BY <2>1, <2>2, SameWakers
  <1> QED
    BY <1>lockTypeOK, <1>claimExact, <1>phaseExact, <1>osExact, <1>nestIsCovered,
       <1>sleeperHasWaker

LEMMA WaitKeeps ==
    ASSUME LockInv, NEW a \in Actor, NEW m \in Mode, Wait(a, m)
    PROVE  LockInv'
  <1> USE ActorIsPair DEF LockInv, Mode, NoHolder
  <1>lockTypeOK. LockTypeOK'
    <2>1. calls' \in [Actor -> Nat]
      BY DEF Wait, Arrives, Call, LockTypeOK
    <2> QED
      BY <2>1 DEF Wait, LockTypeOK, Phase
  <1>claimExact. ClaimExact'
    <2>1. \A b \in Actor : Owns(b)' <=> Owns(b)
      BY DEF Wait, Arrives, Call, Owns, Holds, LockTypeOK, PhaseExact
    <2>2. \A p \in Proc : /\ Claimed(p)' <=> Claimed(p)
                          /\ Claimed(p) => holder'[p].thread = holder[p].thread
      BY DEF Wait, Arrives, Call, Claimed, LockTypeOK, Holder
    <2> QED
      BY <2>1, <2>2, SameOwners
  <1>phaseExact. PhaseExact'
    BY DEF Wait, Arrives, Call, LockTypeOK, ClaimExact, Owns, PhaseExact, Claimed, Holds
  <1>osExact. OsExact'
    BY DEF Wait, Arrives, Call, LockTypeOK, OsExact
  <1>nestIsCovered. NestIsCovered'
    BY DEF Wait, Arrives, Call, LockTypeOK, ClaimExact, Owns, PhaseExact, NestIsCovered, Claimed, Holds
  <1>sleeperHasWaker. SleeperHasWaker'
    <2>1. \A b \in Actor : Owns(b) \/ pc[b] = "notify" => Owns(b)' \/ pc'[b] = "notify"
      BY DEF Wait, Arrives, Call, Owns, Holds, LockTypeOK, PhaseExact
    <2> SUFFICES ASSUME NEW b \in Actor, pc'[b] = "asleep"
                 PROVE  \E c \in Actor : c[1] = b[1] /\ (Owns(c)' \/ pc'[c] = "notify")
      BY DEF SleeperHasWaker, Peers, Owns
    <2>2. CASE b = a
      <3>1. PICK c \in Actor : c[1] = a[1] /\ Owns(c)
        BY DEF Wait, ClaimExact
      <3> QED
        BY <2>1, <2>2, <3>1
    <2>3. CASE b /= a
      <3>1. pc[b] = "asleep"
        BY <2>3 DEF Wait, LockTypeOK
      <3>2. PICK c \in Actor : c[1] = b[1] /\ (Owns(c) \/ pc[c] = "notify")
        BY <3>1 DEF SleeperHasWaker, Peers, Owns
      <3> QED
        BY <2>1, <3>2
    <2> QED
      BY <2>2, <2>3
  <1> QED
    BY <1>lockTypeOK, <1>claimExact, <1>phaseExact, <1>osExact, <1>nestIsCovered,
       <1>sleeperHasWaker

LEMMA ClaimAgainKeeps ==
    ASSUME LockInv, NEW a \in Actor, NEW m \in Mode, ClaimAgain(a, m)
    PROVE  LockInv'
  <1> USE ActorIsPair DEF LockInv, Mode, NoHolder
  <1> DEFINE h == holder[a[1]]
             k == [h EXCEPT !.depth = @ + 1]
  <1>a. guards[a] \in Seq(Mode) /\ guards[a] /= <<>>
    BY DEF ClaimAgain, LockTypeOK
  <1>b. Len(guards[a]) \in Nat \ {0}
    BY <1>a, EmptySeq
  <1>c. h \in Holder
    BY DEF ClaimAgain, LockTypeOK, Claimed
  <1>d. guards' = [guards EXCEPT ![a] = Append(guards[a], m)]
    BY DEF ClaimAgain
  <1>e. holder' = [holder EXCEPT ![a[1]] = k]
    BY DEF ClaimAgain
  <1>f. /\ k \in Holder /\ k /= NoHolder /\ k.depth = h.depth + 1
        /\ k.thread = h.thread /\ k.exclusive = h.exclusive
    BY <1>c DEF Holder
  <1> HIDE DEF k
  <1>1. guards[a] \in Seq(Mode) /\ guards[a] /= <<>> /\ Len(guards[a]) \in Nat \ {0} /\ h \in Holder
    BY <1>a, <1>b, <1>c
  <1> DEFINE g == Append(guards[a], m)
  <1>2. /\ g \in Seq(Mode) /\ g /= <<>>
        /\ Len(g) = Len(guards[a]) + 1
        /\ \A i \in 1..Len(guards[a]) : g[i] = guards[a][i]
        /\ g[Len(guards[a]) + 1] = m
    BY <1>1, NestGrows
  <1>4. guards' = [guards EXCEPT ![a] = g]
    BY <1>d
  <1> HIDE DEF g
  <1>3. \A b \in Actor : b /= a /\ b[1] = a[1] => ~Owns(b)
    BY <1>1, OneOwner DEF Owns, Holds
  <1>5. holder' \in [Proc -> Holder \cup {NoHolder}]
    BY <1>e, <1>f DEF LockTypeOK
  <1>6. /\ holder'[a[1]].depth = holder[a[1]].depth + 1
        /\ holder'[a[1]].thread = holder[a[1]].thread
        /\ holder'[a[1]].exclusive = holder[a[1]].exclusive
        /\ holder'[a[1]] /= NoHolder
        /\ \A p \in Proc : p /= a[1] => holder'[p] = holder[p]
    BY <1>e, <1>f DEF LockTypeOK
  <1>7. UNCHANGED <<os, pc, want, crashes>> /\ calls' \in [Actor -> Nat]
    BY DEF ClaimAgain, Call, LockTypeOK
  <1>lockTypeOK. LockTypeOK'
    BY <1>2, <1>4, <1>5, <1>7 DEF LockTypeOK
  <1>claimExact. ClaimExact'
    <2>1. \A b \in Actor : Owns(b)' <=> Owns(b)
      BY <1>1, <1>2, <1>4, <1>7 DEF Owns, Holds, LockTypeOK
    <2>2. \A p \in Proc : /\ Claimed(p)' <=> Claimed(p)
                          /\ Claimed(p) => holder'[p].thread = holder[p].thread
      BY <1>1, <1>6 DEF Claimed, Holder
    <2> QED
      BY <2>1, <2>2, SameOwners
  <1>phaseExact. PhaseExact'
    <2> SUFFICES ASSUME NEW b \in Actor PROVE PhaseExact!(b)'
      BY DEF PhaseExact
    <2>1. CASE b = a
      BY <2>1, <1>1, <1>2, <1>4, <1>6, <1>7 DEF ClaimAgain, Call, PhaseExact, Holds, LockTypeOK
    <2>2. CASE b /= a
      BY <2>2, <1>3, <1>4, <1>6, <1>7 DEF PhaseExact, Owns, Holds, LockTypeOK
    <2> QED
      BY <2>1, <2>2
  <1>osExact. OsExact'
    BY <1>7 DEF OsExact
  <1>nestIsCovered. NestIsCovered'
    <2> SUFFICES ASSUME NEW b \in Actor PROVE NestIsCovered!(b)'
      BY DEF NestIsCovered
    <2>1. CASE b = a
      <3>1. NestIsCovered!(a) /\ Holds(a)
        BY <1>1 DEF NestIsCovered, Holds
      <3>2. (\E i \in DOMAIN g : g[i] = "exclusive") => os[a] = "exclusive"
        <4>1. DOMAIN g = 1..(Len(guards[a]) + 1) /\ DOMAIN guards[a] = 1..Len(guards[a])
          BY <1>1, <1>2, LenProperties
        <4>2. ASSUME NEW i \in DOMAIN g, g[i] = "exclusive" PROVE os[a] = "exclusive"
          <5>1. CASE i = Len(guards[a]) + 1
            BY <5>1, <4>2, <1>2, <3>1 DEF ClaimAgain, PhaseExact
          <5>2. CASE i \in 1..Len(guards[a])
            BY <5>2, <4>1, <4>2, <1>2, <3>1
          <5> QED
            BY <5>1, <5>2, <4>1, <1>1
        <4> QED
          BY <4>2
      <3>3. 1 \in 1..Len(guards[a])
        BY <1>1
      <3>4. guards'[a] = g /\ g[1] = guards[a][1]
        BY <3>3, <1>2, <1>4 DEF LockTypeOK
      <3> QED
        BY <2>1, <1>1, <1>2, <3>1, <3>2, <3>4, <1>6, <1>7 DEF Claimed, Holds
    <2>2. CASE b /= a
      <3>1. guards'[b] = guards[b] /\ (Holds(b) => b[1] /= a[1])
        BY <2>2, <1>3, <1>4 DEF Owns, Holds, LockTypeOK
      <3> QED
        BY <3>1, <1>6, <1>7 DEF NestIsCovered, Claimed, Holds
    <2> QED
      BY <2>1, <2>2
  <1>sleeperHasWaker. SleeperHasWaker'
    <2>1. \A b \in Actor : Owns(b) => Owns(b)'
      BY <1>1, <1>2, <1>4, <1>7 DEF Owns, Holds, LockTypeOK
    <2> QED
      BY <2>1, <1>7, SameWakers
  <1> QED
    BY <1>lockTypeOK, <1>claimExact, <1>phaseExact, <1>osExact, <1>nestIsCovered,
       <1>sleeperHasWaker

LEMMA OpenLockFileKeeps ==
    ASSUME LockInv, NEW a \in Actor, OpenLockFile(a)
    PROVE  LockInv'
  <1> USE ActorIsPair DEF LockInv, Mode, NoHolder
  <1>lockTypeOK. LockTypeOK'
    BY DEF OpenLockFile, LockTypeOK, Holder, Phase
  <1>claimExact. ClaimExact'
    <2>1. \A b \in Actor : Owns(b)' <=> Owns(b)
      BY DEF OpenLockFile, Owns, Holds, LockTypeOK, PhaseExact
    <2>2. \A p \in Proc : /\ Claimed(p)' <=> Claimed(p)
                          /\ Claimed(p) => holder'[p].thread = holder[p].thread
      BY DEF OpenLockFile, Claimed, LockTypeOK, Holder
    <2> QED
      BY <2>1, <2>2, SameOwners
  <1>phaseExact. PhaseExact'
    BY DEF OpenLockFile, LockTypeOK, ClaimExact, Owns, PhaseExact, Claimed, Holds
  <1>osExact. OsExact'
    BY DEF OpenLockFile, LockTypeOK, OsExact
  <1>nestIsCovered. NestIsCovered'
    BY DEF OpenLockFile, LockTypeOK, ClaimExact, Owns, PhaseExact, NestIsCovered, Claimed, Holds
  <1>sleeperHasWaker. SleeperHasWaker'
    <2>1. \A b \in Actor : pc'[b] = "asleep" => pc[b] = "asleep"
      BY DEF OpenLockFile, LockTypeOK
    <2>2. \A b \in Actor : Owns(b) \/ pc[b] = "notify" => Owns(b)' \/ pc'[b] = "notify"
      BY DEF OpenLockFile, Owns, Holds, LockTypeOK, PhaseExact
    <2> QED
      BY <2>1, <2>2, SameWakers
  <1> QED
    BY <1>lockTypeOK, <1>claimExact, <1>phaseExact, <1>osExact, <1>nestIsCovered,
       <1>sleeperHasWaker

LEMMA OsLockKeeps ==
    ASSUME LockInv, NEW a \in Actor, OsLock(a)
    PROVE  LockInv'
  <1> USE ActorIsPair DEF LockInv, Mode, NoHolder
  <1>lockTypeOK. LockTypeOK'
    BY DEF OsLock, Compatible, LockTypeOK, Holder, Phase
  <1>claimExact. ClaimExact'
    <2>1. \A b \in Actor : Owns(b)' <=> Owns(b)
      BY DEF OsLock, Compatible, Owns, Holds, LockTypeOK, PhaseExact
    <2>2. \A p \in Proc : /\ Claimed(p)' <=> Claimed(p)
                          /\ Claimed(p) => holder'[p].thread = holder[p].thread
      BY DEF OsLock, Compatible, Claimed, LockTypeOK, Holder
    <2> QED
      BY <2>1, <2>2, SameOwners
  <1>phaseExact. PhaseExact'
    BY DEF OsLock, Compatible, LockTypeOK, ClaimExact, Owns, PhaseExact, Claimed, Holds
  <1>osExact. OsExact'
    BY DEF OsLock, Compatible, LockTypeOK, OsExact
  <1>nestIsCovered. NestIsCovered'
    BY DEF OsLock, Compatible, LockTypeOK, ClaimExact, Owns, PhaseExact, NestIsCovered, Claimed, Holds
  <1>sleeperHasWaker. SleeperHasWaker'
    <2>1. \A b \in Actor : pc'[b] = "asleep" => pc[b] = "asleep"
      BY DEF OsLock, Compatible, LockTypeOK
    <2>2. \A b \in Actor : Owns(b) \/ pc[b] = "notify" => Owns(b)' \/ pc'[b] = "notify"
      BY DEF OsLock, Compatible, Owns, Holds, LockTypeOK, PhaseExact
    <2> QED
      BY <2>1, <2>2, SameWakers
  <1> QED
    BY <1>lockTypeOK, <1>claimExact, <1>phaseExact, <1>osExact, <1>nestIsCovered,
       <1>sleeperHasWaker

\* The step in which a thread gives up the last level of its claim.
LEMMA LastReleaseKeeps ==
    ASSUME LockInv, NEW a \in Actor, Owns(a),
           holder' = [holder EXCEPT ![a[1]] = NoHolder],
           pc' = [pc EXCEPT ![a] = "notify"],
           guards' = [guards EXCEPT ![a] = <<>>],
           UNCHANGED <<os, want, calls, crashes>>
    PROVE  LockInv'
  <1> USE ActorIsPair DEF LockInv
  <1>1. \A b \in Actor : b /= a /\ b[1] = a[1] => ~Owns(b)
    BY OneOwner
  <1>2. /\ holder'[a[1]] = NoHolder
        /\ \A p \in Proc : p /= a[1] => holder'[p] = holder[p]
        /\ pc'[a] = "notify" /\ guards'[a] = <<>>
        /\ \A b \in Actor : b /= a => pc'[b] = pc[b] /\ guards'[b] = guards[b]
    BY DEF LockTypeOK
  <1>3. ~Owns(a)' /\ \A b \in Actor : b /= a => (Owns(b)' <=> Owns(b)) /\ (Holds(b)' <=> Holds(b))
    BY <1>2 DEF Owns, Holds
  <1>4. LockTypeOK'
    BY EmptySeq DEF LockTypeOK, Phase
  <1>5. ClaimExact'
    <2>1. ASSUME NEW b \in Actor, Owns(b)'
          PROVE  Claimed(b[1])' /\ holder'[b[1]].thread = b[2]
      BY <2>1, <1>1, <1>2, <1>3 DEF ClaimExact, Claimed
    <2>2. ASSUME NEW p \in Proc, Claimed(p)'
          PROVE  \E b \in Actor : b[1] = p /\ Owns(b)'
      <3>1. p /= a[1] /\ Claimed(p)
        BY <2>2, <1>2 DEF Claimed
      <3>2. PICK b \in Actor : b[1] = p /\ Owns(b)
        BY <3>1 DEF ClaimExact
      <3> QED
        BY <3>1, <3>2, <1>3
    <2> QED
      BY <2>1, <2>2 DEF ClaimExact
  <1>6. PhaseExact'
    <2> SUFFICES ASSUME NEW b \in Actor PROVE PhaseExact!(b)'
      BY DEF PhaseExact
    <2>1. CASE b = a
      BY <2>1, <1>2, <1>3 DEF PhaseExact, Holds
    <2>2. CASE b /= a
      BY <2>2, <1>1, <1>2, <1>3 DEF PhaseExact, Owns, Holds
    <2> QED
      BY <2>1, <2>2
  <1>7. OsExact'
    BY DEF OsExact
  <1>8. NestIsCovered'
    <2> SUFFICES ASSUME NEW b \in Actor, Holds(b)' PROVE NestIsCovered!(b)'
      BY DEF NestIsCovered
    <2>1. b /= a /\ Holds(b) /\ b[1] /= a[1]
      BY <1>1, <1>2, <1>3 DEF Owns, Holds
    <2>2. guards'[b] = guards[b] /\ holder'[b[1]] = holder[b[1]] /\ os'[b] = os[b]
      BY <2>1, <1>2
    <2> QED
      BY <2>1, <2>2 DEF NestIsCovered, Claimed
  <1>9. SleeperHasWaker'
    <2>1. \A b \in Actor : pc'[b] = "asleep" => pc[b] = "asleep"
      BY <1>2
    <2>2. \A b \in Actor : Owns(b) \/ pc[b] = "notify" => Owns(b)' \/ pc'[b] = "notify"
      BY <1>2, <1>3
    <2> QED
      BY <2>1, <2>2, SameWakers
  <1> QED
    BY <1>4, <1>5, <1>6, <1>7, <1>8, <1>9

LEMMA AcquireFailsKeeps ==
    ASSUME LockInv, NEW a \in Actor, AcquireFails(a)
    PROVE  LockInv'
  <1> USE ActorIsPair DEF LockInv
  <1>1. Owns(a) /\ holder[a[1]].depth = 1 /\ guards[a] = <<>>
    BY DEF AcquireFails, Owns, PhaseExact
  <1>2. FullyReleased(holder[a[1]]) /\ Released(holder[a[1]]) = NoHolder
    BY <1>1 DEF FullyReleased, Released
  <1>3. /\ holder' = [holder EXCEPT ![a[1]] = NoHolder]
        /\ pc' = [pc EXCEPT ![a] = "notify"]
    BY <1>2 DEF AcquireFails, Release
  <1>4. guards' = [guards EXCEPT ![a] = <<>>] /\ UNCHANGED <<os, want, calls, crashes>>
    BY <1>1 DEF AcquireFails, LockTypeOK
  <1> QED
    BY <1>1, <1>3, <1>4, LastReleaseKeeps

LEMMA DropGuardKeeps ==
    ASSUME LockInv, NEW a \in Actor, DropGuard(a)
    PROVE  LockInv'
  <1> USE ActorIsPair DEF LockInv
  <1> DEFINE s == guards[a]
             f == SubSeq(s, 1, Len(s) - 1)
             h == holder[a[1]]
  <1>1. /\ s \in Seq(Mode) /\ s /= <<>> /\ Holds(a) /\ Owns(a) /\ pc[a] = "run"
        /\ NestIsCovered!(a)
        /\ h \in Holder /\ h.depth = Len(s)
    BY DEF DropGuard, LockTypeOK, NestIsCovered, Claimed, Holds, Owns
  <1>2. /\ f \in Seq(Mode) /\ Len(f) = Len(s) - 1
        /\ \A i \in 1..(Len(s) - 1) : f[i] = s[i]
        /\ f = <<>> <=> Len(s) = 1
        /\ Len(s) \in Nat \ {0}
    BY <1>1, FrontOfNest
  <1>3. guards' = [guards EXCEPT ![a] = f] /\ UNCHANGED <<os, want, calls, crashes>>
    BY DEF DropGuard
  <1> HIDE DEF f
  <1>4. CASE Len(s) = 1
    <2>1. FullyReleased(h) /\ Released(h) = NoHolder
      BY <1>1, <1>4 DEF FullyReleased, Released
    <2>2. /\ holder' = [holder EXCEPT ![a[1]] = NoHolder]
          /\ pc' = [pc EXCEPT ![a] = "notify"]
      BY <2>1 DEF DropGuard, Release
    <2>3. guards' = [guards EXCEPT ![a] = <<>>]
      BY <1>2, <1>3, <1>4
    <2> QED
      BY <1>1, <1>3, <2>2, <2>3, LastReleaseKeeps
  <1>5. CASE Len(s) /= 1
    <2> DEFINE k == [h EXCEPT !.depth = @ - 1]
    <2>1. ~FullyReleased(h) /\ Released(h) = k
      BY <1>1, <1>2, <1>5 DEF FullyReleased, Released
    <2>2. /\ k \in Holder /\ k /= NoHolder
          /\ k.depth = Len(s) - 1 /\ k.thread = h.thread /\ k.exclusive = h.exclusive
      BY <1>1, <1>2, <1>5 DEF Holder, NoHolder
    <2>3. holder' = [holder EXCEPT ![a[1]] = k] /\ pc' = [pc EXCEPT ![a] = "run"]
      BY <2>1 DEF DropGuard, Release
    <2> HIDE DEF k
    <2>4. /\ holder'[a[1]] = k
          /\ \A p \in Proc : p /= a[1] => holder'[p] = holder[p]
          /\ pc' = pc
          /\ guards'[a] = f /\ f /= <<>>
          /\ \A b \in Actor : b /= a => guards'[b] = guards[b]
      BY <1>1, <1>2, <1>3, <1>5, <2>3 DEF LockTypeOK
    <2>5. \A b \in Actor : (Owns(b)' <=> Owns(b)) /\ (Holds(b)' <=> Holds(b))
      BY <1>1, <2>4 DEF Owns, Holds
    <2>6. \A b \in Actor : b /= a /\ b[1] = a[1] => ~Owns(b)
      BY <1>1, OneOwner
    <2>7. LockTypeOK'
      BY <1>2, <1>3, <2>2, <2>3, <2>4 DEF LockTypeOK
    <2>8. ClaimExact'
      <3>1. \A p \in Proc : /\ Claimed(p)' <=> Claimed(p)
                            /\ Claimed(p) => holder'[p].thread = holder[p].thread
        BY <1>1, <2>2, <2>4 DEF Claimed
      <3> QED
        BY <3>1, <2>5, SameOwners
    <2>9. PhaseExact'
      <3> SUFFICES ASSUME NEW b \in Actor PROVE PhaseExact!(b)'
        BY DEF PhaseExact
      <3>1. CASE b = a
        BY <3>1, <1>1, <1>3, <2>2, <2>4, <2>5 DEF PhaseExact
      <3>2. CASE b /= a
        BY <3>2, <1>3, <2>4, <2>5, <2>6 DEF PhaseExact, Owns
      <3> QED
        BY <3>1, <3>2
    <2>10. OsExact'
      BY <1>3 DEF OsExact
    <2>11. NestIsCovered'
      <3> SUFFICES ASSUME NEW b \in Actor, Holds(b)' PROVE NestIsCovered!(b)'
        BY DEF NestIsCovered
      <3>1. CASE b = a
        <4>1. DOMAIN f = 1..(Len(s) - 1) /\ DOMAIN s = 1..Len(s)
          BY <1>1, <1>2, LenProperties
        <4>2. f[1] = s[1]
          BY <1>2, <1>5
        <4>3. (\E i \in DOMAIN f : f[i] = "exclusive") => os[a] = "exclusive"
          BY <1>1, <1>2, <4>1
        <4> QED
          BY <3>1, <1>1, <1>2, <1>3, <2>2, <2>4, <4>2, <4>3 DEF Claimed
      <3>2. CASE b /= a
        <4>1. Holds(b) /\ b[1] /= a[1]
          BY <3>2, <2>5, <2>6 DEF Owns
        <4>2. guards'[b] = guards[b] /\ holder'[b[1]] = holder[b[1]] /\ os'[b] = os[b]
          BY <3>2, <4>1, <2>4, <1>3
        <4> QED
          BY <4>1, <4>2 DEF NestIsCovered, Claimed
      <3> QED
        BY <3>1, <3>2
    <2>12. SleeperHasWaker'
      BY <2>4, <2>5, SameWakers
    <2> QED
      BY <2>7, <2>8, <2>9, <2>10, <2>11, <2>12
  <1> QED
    BY <1>4, <1>5

LEMMA NotifyKeeps ==
    ASSUME LockInv, NEW a \in Actor, Notify(a)
    PROVE  LockInv'
  <1> USE ActorIsPair DEF LockInv, Mode, NoHolder
  <1>lockTypeOK. LockTypeOK'
    BY DEF Notify, WakeAll, LockTypeOK, Holder, Phase
  <1>claimExact. ClaimExact'
    <2>1. \A b \in Actor : Owns(b)' <=> Owns(b)
      BY DEF Notify, WakeAll, Owns, Holds, LockTypeOK, PhaseExact
    <2>2. \A p \in Proc : /\ Claimed(p)' <=> Claimed(p)
                          /\ Claimed(p) => holder'[p].thread = holder[p].thread
      BY DEF Notify, WakeAll, Claimed, LockTypeOK, Holder
    <2> QED
      BY <2>1, <2>2, SameOwners
  <1>phaseExact. PhaseExact'
    BY DEF Notify, WakeAll, LockTypeOK, ClaimExact, Owns, PhaseExact, Claimed, Holds
  <1>osExact. OsExact'
    BY DEF Notify, WakeAll, LockTypeOK, OsExact
  <1>nestIsCovered. NestIsCovered'
    BY DEF Notify, WakeAll, LockTypeOK, ClaimExact, Owns, PhaseExact, NestIsCovered, Claimed, Holds
  <1>sleeperHasWaker. SleeperHasWaker'
    <2> SUFFICES ASSUME NEW b \in Actor, pc'[b] = "asleep"
                 PROVE  \E c \in Actor : c[1] = b[1] /\ (Owns(c)' \/ pc'[c] = "notify")
      BY DEF SleeperHasWaker, Peers, Owns
    <2>1. pc[b] = "asleep" /\ b[1] /= a[1]
      BY DEF Notify, WakeAll, Peers, LockTypeOK
    <2>2. PICK c \in Actor : c[1] = b[1] /\ (Owns(c) \/ pc[c] = "notify")
      BY <2>1 DEF SleeperHasWaker, Peers, Owns
    <2>3. c /= a /\ pc'[c] = pc[c] /\ guards' = guards
      BY <2>1, <2>2 DEF Notify, WakeAll, Peers, LockTypeOK
    <2> QED
      BY <2>2, <2>3 DEF Owns, Holds
  <1> QED
    BY <1>lockTypeOK, <1>claimExact, <1>phaseExact, <1>osExact, <1>nestIsCovered,
       <1>sleeperHasWaker

LEMMA UnlockKeeps ==
    ASSUME LockInv, NEW a \in Actor, Unlock(a)
    PROVE  LockInv'
  <1> USE ActorIsPair DEF LockInv, Mode, NoHolder
  <1>lockTypeOK. LockTypeOK'
    BY DEF Unlock, LockTypeOK, Holder, Phase
  <1>claimExact. ClaimExact'
    <2>1. \A b \in Actor : Owns(b)' <=> Owns(b)
      BY DEF Unlock, Owns, Holds, LockTypeOK, PhaseExact
    <2>2. \A p \in Proc : /\ Claimed(p)' <=> Claimed(p)
                          /\ Claimed(p) => holder'[p].thread = holder[p].thread
      BY DEF Unlock, Claimed, LockTypeOK, Holder
    <2> QED
      BY <2>1, <2>2, SameOwners
  <1>phaseExact. PhaseExact'
    BY DEF Unlock, LockTypeOK, ClaimExact, Owns, PhaseExact, Claimed, Holds
  <1>osExact. OsExact'
    BY DEF Unlock, LockTypeOK, OsExact
  <1>nestIsCovered. NestIsCovered'
    BY DEF Unlock, LockTypeOK, ClaimExact, Owns, PhaseExact, NestIsCovered, Claimed, Holds
  <1>sleeperHasWaker. SleeperHasWaker'
    <2>1. \A b \in Actor : pc'[b] = "asleep" => pc[b] = "asleep"
      BY DEF Unlock, LockTypeOK
    <2>2. \A b \in Actor : Owns(b) \/ pc[b] = "notify" => Owns(b)' \/ pc'[b] = "notify"
      BY DEF Unlock, Owns, Holds, LockTypeOK, PhaseExact
    <2> QED
      BY <2>1, <2>2, SameWakers
  <1> QED
    BY <1>lockTypeOK, <1>claimExact, <1>phaseExact, <1>osExact, <1>nestIsCovered,
       <1>sleeperHasWaker

LEMMA SpuriousWakeKeeps ==
    ASSUME LockInv, NEW a \in Actor, SpuriousWake(a)
    PROVE  LockInv'
  <1> USE ActorIsPair DEF LockInv, Mode, NoHolder
  <1>lockTypeOK. LockTypeOK'
    BY DEF SpuriousWake, LockTypeOK, Holder, Phase
  <1>claimExact. ClaimExact'
    <2>1. \A b \in Actor : Owns(b)' <=> Owns(b)
      BY DEF SpuriousWake, Owns, Holds, LockTypeOK, PhaseExact
    <2>2. \A p \in Proc : /\ Claimed(p)' <=> Claimed(p)
                          /\ Claimed(p) => holder'[p].thread = holder[p].thread
      BY DEF SpuriousWake, Claimed, LockTypeOK, Holder
    <2> QED
      BY <2>1, <2>2, SameOwners
  <1>phaseExact. PhaseExact'
    BY DEF SpuriousWake, LockTypeOK, ClaimExact, Owns, PhaseExact, Claimed, Holds
  <1>osExact. OsExact'
    BY DEF SpuriousWake, LockTypeOK, OsExact
  <1>nestIsCovered. NestIsCovered'
    BY DEF SpuriousWake, LockTypeOK, ClaimExact, Owns, PhaseExact, NestIsCovered, Claimed, Holds
  <1>sleeperHasWaker. SleeperHasWaker'
    <2>1. \A b \in Actor : pc'[b] = "asleep" => pc[b] = "asleep"
      BY DEF SpuriousWake, LockTypeOK
    <2>2. \A b \in Actor : Owns(b) \/ pc[b] = "notify" => Owns(b)' \/ pc'[b] = "notify"
      BY DEF SpuriousWake, Owns, Holds, LockTypeOK, PhaseExact
    <2> QED
      BY <2>1, <2>2, SameWakers
  <1> QED
    BY <1>lockTypeOK, <1>claimExact, <1>phaseExact, <1>osExact, <1>nestIsCovered,
       <1>sleeperHasWaker

LEMMA CrashKeeps ==
    ASSUME LockInv, NEW p \in Proc, Crash(p)
    PROVE  LockInv'
  <1> USE ActorIsPair DEF LockInv, Mode, NoHolder
  <1>lockTypeOK. LockTypeOK'
    BY DEF Crash, LockTypeOK, Holder, Phase
  <1>claimExact. ClaimExact'
    <2>1. \A q \in Proc : holder'[q] = IF q = p THEN NoHolder ELSE holder[q]
      BY DEF Crash, LockTypeOK
    <2>2. \A b \in Actor : Owns(b)' <=> b[1] /= p /\ Owns(b)
      BY DEF Crash, Owns, Holds
    <2>3. ASSUME NEW b \in Actor, Owns(b)'
          PROVE  Claimed(b[1])' /\ holder'[b[1]].thread = b[2]
      BY <2>1, <2>2, <2>3 DEF ClaimExact, Claimed
    <2>4. ASSUME NEW q \in Proc, Claimed(q)'
          PROVE  \E b \in Actor : b[1] = q /\ Owns(b)'
      <3>1. q /= p /\ Claimed(q)
        BY <2>1, <2>4 DEF Claimed
      <3>2. PICK b \in Actor : b[1] = q /\ Owns(b)
        BY <3>1 DEF ClaimExact
      <3> QED
        BY <3>1, <3>2, <2>2
    <2> QED
      BY <2>3, <2>4 DEF ClaimExact
  <1>phaseExact. PhaseExact'
    BY DEF Crash, LockTypeOK, ClaimExact, Owns, PhaseExact, Claimed, Holds
  <1>osExact. OsExact'
    BY DEF Crash, LockTypeOK, OsExact
  <1>nestIsCovered. NestIsCovered'
    BY DEF Crash, LockTypeOK, ClaimExact, Owns, PhaseExact, NestIsCovered, Claimed, Holds
  <1>sleeperHasWaker. SleeperHasWaker'
    <2> SUFFICES ASSUME NEW b \in Actor, pc'[b] = "asleep"
                 PROVE  \E c \in Actor : c[1] = b[1] /\ (Owns(c)' \/ pc'[c] = "notify")
      BY DEF SleeperHasWaker, Peers, Owns
    <2>1. pc[b] = "asleep" /\ b[1] /= p
      BY DEF Crash
    <2>2. PICK c \in Actor : c[1] = b[1] /\ (Owns(c) \/ pc[c] = "notify")
      BY <2>1 DEF SleeperHasWaker, Peers, Owns
    <2> QED
      BY <2>1, <2>2 DEF Crash, Owns, Holds
  <1> QED
    BY <1>lockTypeOK, <1>claimExact, <1>phaseExact, <1>osExact, <1>nestIsCovered,
       <1>sleeperHasWaker

-----------------------------------------------------------------------------
LEMMA LockInvNext == LockInv /\ [LockNext]_lockVars => LockInv'
  <1> SUFFICES ASSUME LockInv, [LockNext]_lockVars PROVE LockInv'
    OBVIOUS
  <1>1. CASE UNCHANGED lockVars
    BY <1>1 DEF lockVars, LockInv, LockTypeOK, ClaimExact, Owns, PhaseExact, OsExact,
       NestIsCovered, SleeperHasWaker, Claimed, Holds
  <1>2. ASSUME NEW a \in Actor, NEW m \in Mode,
               ClaimFree(a, m) \/ Wait(a, m) \/ ClaimAgain(a, m)
        PROVE  LockInv'
    BY <1>2, ClaimFreeKeeps, WaitKeeps, ClaimAgainKeeps
  <1>3. ASSUME NEW a \in Actor,
               \/ OpenLockFile(a) \/ AcquireFails(a) \/ OsLock(a)
               \/ DropGuard(a) \/ Notify(a) \/ Unlock(a) \/ SpuriousWake(a)
        PROVE  LockInv'
    BY <1>3, OpenLockFileKeeps, AcquireFailsKeeps, OsLockKeeps, DropGuardKeeps,
       NotifyKeeps, UnlockKeeps, SpuriousWakeKeeps
  <1>4. ASSUME NEW p \in Proc, Crash(p) PROVE LockInv'
    BY <1>4, CrashKeeps
  <1> QED
    BY <1>1, <1>2, <1>3, <1>4 DEF LockNext

LEMMA LockInvImpliesExclusion == LockInv => Exclusion
  <1> SUFFICES ASSUME LockInv, NEW a \in Actor, NEW b \in Actor,
                      a /= b, Holds(a), Holds(b)
               PROVE  a[1] /= b[1] /\ guards[a][1] = "shared" /\ guards[b][1] = "shared"
    BY DEF Exclusion
  <1>1. a[1] /= b[1]
    BY OneOwner DEF LockInv, Owns
  <1>2. os[a] = guards[a][1] /\ os[b] = guards[b][1]
    BY DEF LockInv, NestIsCovered
  <1>3. guards[a][1] \in Mode /\ guards[b][1] \in Mode
    BY ElementOfSeq, EmptySeq DEF LockInv, LockTypeOK, Holds
  <1> QED
    BY <1>1, <1>2, <1>3 DEF LockInv, OsExact, Mode

\* The wait set never keeps a dead entry (release_in_process removes the last
\* level), for any number of processes, threads and nested acquisitions.
THEOREM LockTyped == LockSpec => []LockTypeOK
  <1>1. LockInv => LockTypeOK
    BY DEF LockInv
  <1> QED
    BY <1>1, LockInvInit, LockInvNext, PTL DEF LockSpec

\* The two layers together exclude: no thread of any process holds the path
\* beside an exclusive holder, and no two threads of one process hold it at once
\* (lock_exclusive, lock_shared, FileLock::drop), over every failure and crash.
THEOREM LockExcludes == LockSpec => []Exclusion
  BY LockInvInit, LockInvNext, LockInvImpliesExclusion, PTL DEF LockSpec

\* A nested guard is covered until the outermost one is dropped.
THEOREM LockCoversNest == LockSpec => []NestIsCovered
  <1>1. LockInv => NestIsCovered
    BY DEF LockInv
  <1> QED
    BY <1>1, LockInvInit, LockInvNext, PTL DEF LockSpec

\* A thread asleep on the path has one that will notify it, although the
\* notification follows the release outside the mutex.
THEOREM LockWakesSleepers == LockSpec => []SleeperHasWaker
  <1>1. LockInv => SleeperHasWaker
    BY DEF LockInv
  <1> QED
    BY <1>1, LockInvInit, LockInvNext, PTL DEF LockSpec

-----------------------------------------------------------------------------
\* A step that leaves every outermost guard alone changes nothing the promise
\* speaks of.
LEMMA SameGuards ==
    ASSUME \A b \in Actor : /\ Holds(b)' <=> Holds(b)
                            /\ Holds(b) => guards'[b][1] = guards[b][1]
    PROVE  Granted' = Granted
  BY DEF Granted

LEMMA ClaimAgainGrants ==
    ASSUME LockInv, NEW a \in Actor, NEW m \in Mode, ClaimAgain(a, m)
    PROVE  Granted' = Granted
  <1> DEFINE g == Append(guards[a], m)
  <1>1. guards[a] \in Seq(Mode) /\ guards[a] /= <<>> /\ guards' = [guards EXCEPT ![a] = g]
    BY DEF ClaimAgain, LockInv, LockTypeOK
  <1>2. 1 \in 1..Len(guards[a])
    BY <1>1, EmptySeq
  <1>3. g /= <<>> /\ g[1] = guards[a][1]
    BY <1>1, <1>2, NestGrows
  <1> HIDE DEF g
  <1> QED
    BY <1>1, <1>3, SameGuards DEF Holds, LockInv, LockTypeOK

LEMMA OsLockGrants ==
    ASSUME LockInv, NEW a \in Actor, OsLock(a)
    PROVE  Promise!Grant(a, want[a])
  <1>1. Owns(a) /\ guards[a] = <<>>
    BY DEF LockInv, OsLock, Owns, PhaseExact
  <1>2. ASSUME NEW b \in Actor \ {a}, Granted[b] /= "none"
        PROVE  b[1] /= a[1] /\ Granted[b] = "shared" /\ want[a] = "shared"
    <2>1. Holds(b) /\ Granted[b] = guards[b][1]
      BY <1>2 DEF Granted
    <2>2. b[1] /= a[1]
      BY <1>1, <1>2, <2>1, OneOwner DEF LockInv, Owns
    <2>3. os[b] = guards[b][1] /\ os[b] /= "none"
      BY <2>1, <1>2 DEF LockInv, NestIsCovered
    <2> QED
      BY <2>1, <2>2, <2>3 DEF OsLock, Compatible
  <1>3. Granted[a] = "none"
    BY <1>1 DEF Granted, Holds
  <1>4. Granted' = [Granted EXCEPT ![a] = want[a]]
    BY DEF OsLock, Granted, Holds, LockInv, LockTypeOK
  <1> QED
    BY <1>2, <1>3, <1>4 DEF Promise!Grant, Promise!Grantable, Promise!Threads, Actor

LEMMA DropGuardGrants ==
    ASSUME LockInv, NEW a \in Actor, DropGuard(a)
    PROVE  Granted' = Granted \/ Promise!GiveBack(a)
  <1> DEFINE s == guards[a]
             f == SubSeq(s, 1, Len(s) - 1)
  <1>1. s \in Seq(Mode) /\ s /= <<>> /\ guards' = [guards EXCEPT ![a] = f]
    BY DEF DropGuard, LockInv, LockTypeOK
  <1>2. /\ f = <<>> <=> Len(s) = 1
        /\ \A i \in 1..(Len(s) - 1) : f[i] = s[i]
        /\ Len(s) \in Nat \ {0}
    BY <1>1, FrontOfNest
  <1> HIDE DEF f
  <1>3. CASE Len(s) = 1
    <2>1. Granted[a] = s[1] /\ s[1] \in Mode
      BY <1>1, <1>2, ElementOfSeq DEF Granted, Holds
    <2>2. Granted' = [Granted EXCEPT ![a] = "none"]
      BY <1>1, <1>2, <1>3 DEF Granted, Holds, LockInv, LockTypeOK
    <2> QED
      BY <2>1, <2>2 DEF Promise!GiveBack, Mode
  <1>4. CASE Len(s) /= 1
    <2> DEFINE n == Len(s)
    <2>0. n \in Nat \ {0} /\ n /= 1
      BY <1>2, <1>4
    <2> HIDE DEF n
    <2>3. 1 \in 1..(n - 1)
      BY <2>0
    <2>1. 1 \in 1..(Len(s) - 1)
      BY <2>3 DEF n
    <2>2. f /= <<>> /\ f[1] = s[1]
      BY <1>2, <1>4, <2>1
    <2> QED
      BY <1>1, <2>2, SameGuards DEF Holds, LockInv, LockTypeOK
  <1> QED
    BY <1>3, <1>4

LEMMA CrashGrants ==
    ASSUME LockInv, NEW p \in Proc, Crash(p)
    PROVE  Promise!ProcessDies(p)
  BY DEF Crash, Granted, Holds, Promise!ProcessDies, Promise!Threads, Actor

LEMMA StepGrants ==
    ASSUME LockInv, [LockNext]_lockVars
    PROVE  [Promise!PathNext]_Granted
  <1>1. ASSUME guards' = guards PROVE Granted' = Granted
    BY <1>1, SameGuards DEF Holds
  <1>2. CASE UNCHANGED lockVars
    BY <1>1, <1>2 DEF lockVars
  <1>3. ASSUME NEW a \in Actor, NEW m \in Mode,
               ClaimFree(a, m) \/ Wait(a, m) \/ ClaimAgain(a, m)
        PROVE  Granted' = Granted
    BY <1>1, <1>3, ClaimAgainGrants DEF ClaimFree, Wait
  <1>4. ASSUME NEW a \in Actor,
               \/ OpenLockFile(a) \/ AcquireFails(a)
               \/ Notify(a) \/ Unlock(a) \/ SpuriousWake(a)
        PROVE  Granted' = Granted
    BY <1>1, <1>4 DEF OpenLockFile, AcquireFails, Notify, Unlock, SpuriousWake
  <1>5. ASSUME NEW a \in Actor, OsLock(a) PROVE Promise!PathNext
    <2>1. want[a] \in Mode /\ Promise!Grant(a, want[a])
      BY <1>5, OsLockGrants DEF LockInv, LockTypeOK
    <2> QED
      BY <2>1 DEF Promise!PathNext, Promise!Threads, Actor, Mode
  <1>6. ASSUME NEW a \in Actor, DropGuard(a)
        PROVE  Granted' = Granted \/ Promise!PathNext
    BY <1>6, DropGuardGrants DEF Promise!PathNext, Promise!Threads, Actor
  <1>7. ASSUME NEW p \in Proc, Crash(p) PROVE Promise!PathNext
    BY <1>7, CrashGrants DEF Promise!PathNext
  <1> QED
    BY <1>2, <1>3, <1>4, <1>5, <1>6, <1>7 DEF LockNext

\* The wait set, the condition variable and the OS lock together implement the
\* lock callers rely on: a grant happens only when nobody holds the path against
\* it, and only its holder or the death of its process takes it away.
THEOREM LockKeepsPromise == LockSpec => ImplementsPathLock
  <1>1. LockInit => Promise!PathInit
    BY DEF LockInit, Promise!PathInit, Granted, Holds, Promise!Threads, Actor
  <1>2. LockInv /\ [LockNext]_lockVars => [Promise!PathNext]_Granted
    BY StepGrants
  <1> QED
    BY <1>1, <1>2, LockInvInit, LockInvNext, PTL
    DEF LockSpec, ImplementsPathLock, Promise!PathSpec

-----------------------------------------------------------------------------
(***************************************************************************)
(* The cap.                                                                *)
(***************************************************************************)
\* What load_from returns and cap_lru takes: finitely many files, each with the
\* time it was last seen.
Store(s) ==
    /\ s = [k \in DOMAIN s |-> s[k]]
    /\ DOMAIN s \subseteq Nat
    /\ IsFiniteSet(DOMAIN s)
    /\ \A k \in DOMAIN s : s[k] \in Nat

Newer(s, k) == {j \in DOMAIN s : MoreRecent(s, j, k)}
Rank(s, k) == Cardinality(Newer(s, k))
Kept(s) == {k \in DOMAIN s : Rank(s, k) < Cap}

\* The order of cap_lru's sort is strict and total.
LEMMA OrderIsTotal ==
    ASSUME NEW s, Store(s)
    PROVE  /\ \A k \in DOMAIN s : ~MoreRecent(s, k, k)
           /\ \A i, j, k \in DOMAIN s :
                 MoreRecent(s, i, j) /\ MoreRecent(s, j, k) => MoreRecent(s, i, k)
           /\ \A j, k \in DOMAIN s : j # k => MoreRecent(s, j, k) \/ MoreRecent(s, k, j)
  BY DEF Store, MoreRecent

\* An entry's rank is a number below the size of the store, and grows with age.
LEMMA RankGrows ==
    ASSUME NEW s, Store(s)
    PROVE  /\ \A k \in DOMAIN s : Rank(s, k) \in Nat /\ Rank(s, k) < Cardinality(DOMAIN s)
           /\ \A j, k \in DOMAIN s : MoreRecent(s, j, k) => Rank(s, j) < Rank(s, k)
           /\ \A j, k \in DOMAIN s : Rank(s, j) = Rank(s, k) => j = k
  <1> DEFINE D == DOMAIN s
  <1>1. IsFiniteSet(D) /\ Cardinality(D) \in Nat
    BY FS_CardinalityType DEF Store
  <1>2. ASSUME NEW k \in D
        PROVE  /\ IsFiniteSet(Newer(s, k)) /\ Rank(s, k) \in Nat
               /\ Rank(s, k) < Cardinality(D)
    <2>1. Newer(s, k) \in SUBSET D /\ Newer(s, k) # D
      BY OrderIsTotal DEF Newer
    <2>2. /\ IsFiniteSet(Newer(s, k))
          /\ Cardinality(Newer(s, k)) <= Cardinality(D)
          /\ Cardinality(Newer(s, k)) # Cardinality(D)
      BY <1>1, <2>1, FS_Subset
    <2>3. Cardinality(Newer(s, k)) \in Nat
      BY <2>2, FS_CardinalityType
    <2> QED
      BY <1>1, <2>2, <2>3 DEF Rank
  <1>3. ASSUME NEW j \in D, NEW k \in D, MoreRecent(s, j, k)
        PROVE  Rank(s, j) < Rank(s, k)
    <2>1. Newer(s, j) \in SUBSET Newer(s, k)
      BY <1>3, OrderIsTotal DEF Newer
    <2>2. j \in Newer(s, k) /\ j \notin Newer(s, j)
      BY <1>3, OrderIsTotal DEF Newer
    <2>3. /\ Cardinality(Newer(s, j)) <= Cardinality(Newer(s, k))
          /\ Cardinality(Newer(s, k)) # Cardinality(Newer(s, j))
      BY <1>2, <2>1, <2>2, FS_Subset
    <2> QED
      BY <1>2, <2>3 DEF Rank
  <1>4. ASSUME NEW j \in D, NEW k \in D, Rank(s, j) = Rank(s, k), j # k
        PROVE  FALSE
    <2>1. Rank(s, j) < Rank(s, k) \/ Rank(s, k) < Rank(s, j)
      BY <1>3, <1>4, OrderIsTotal
    <2> QED
      BY <1>2, <1>4, <2>1
  <1> QED
    BY <1>2, <1>3, <1>4

\* cap_lru keeps no more than the cap, and all of it when there is enough.
LEMMA KeptIsCap ==
    ASSUME NEW s, Store(s)
    PROVE  /\ IsFiniteSet(Kept(s))
           /\ Cardinality(Kept(s)) \in Nat
           /\ Cardinality(Kept(s)) <= Cap
           /\ Cardinality(DOMAIN s) >= Cap => Cardinality(Kept(s)) = Cap
  <1> DEFINE D == DOMAIN s
             n == Cardinality(D)
             rank == [k \in D |-> Rank(s, k)]
             low == [k \in Kept(s) |-> Rank(s, k)]
  <1>1. IsFiniteSet(D) /\ n \in Nat /\ Cap \in Nat \ {0}
    BY FS_CardinalityType, StateBounds DEF Store
  <1>2. /\ \A k \in D : Rank(s, k) \in Nat /\ Rank(s, k) < n
        /\ \A j, k \in D : Rank(s, j) = Rank(s, k) => j = k
    BY RankGrows
  <1>3. /\ IsFiniteSet(0..(n - 1)) /\ Cardinality(0..(n - 1)) = n
        /\ IsFiniteSet(0..(Cap - 1)) /\ Cardinality(0..(Cap - 1)) = Cap
    <2>1. n - 1 \in Int /\ Cap - 1 \in Int /\ 0 \in Int
      BY <1>1
    <2>2. Cardinality(0..(n - 1)) = IF 0 > n - 1 THEN 0 ELSE n - 1 - 0 + 1
      BY <2>1, FS_Interval
    <2>3. Cardinality(0..(Cap - 1)) = IF 0 > Cap - 1 THEN 0 ELSE Cap - 1 - 0 + 1
      BY <2>1, FS_Interval
    <2> HIDE DEF n
    <2> QED
      BY <1>1, <2>1, <2>2, <2>3, FS_Interval
  <1> HIDE DEF n
  <1>4. low \in Injection(Kept(s), 0..(Cap - 1))
    <2>1. \A k \in Kept(s) : Rank(s, k) \in 0..(Cap - 1)
      BY <1>1, <1>2 DEF Kept
    <2>2. low \in [Kept(s) -> 0..(Cap - 1)]
      BY <2>1
    <2> QED
      BY <1>2, <2>2 DEF Injection, IsInjective, Kept
  <1>5. /\ IsFiniteSet(Kept(s)) /\ Cardinality(Kept(s)) <= Cap
        /\ Cardinality(Kept(s)) = Cap <=> low \in Surjection(Kept(s), 0..(Cap - 1))
    BY <1>3, <1>4, FS_Injection
  <1>6. ASSUME n >= Cap
        PROVE  low \in Surjection(Kept(s), 0..(Cap - 1))
    <2>1. rank \in Injection(D, 0..(n - 1))
      <3>1. \A k \in D : Rank(s, k) \in 0..(n - 1)
        BY <1>1, <1>2
      <3>2. rank \in [D -> 0..(n - 1)]
        BY <3>1
      <3> QED
        BY <1>2, <3>2 DEF Injection, IsInjective
    <2>2. rank \in Surjection(D, 0..(n - 1))
      BY <1>3, <2>1, FS_Injection DEF n
    <2>3. \A r \in 0..(n - 1) : \E k \in D : Rank(s, k) = r
      BY <2>2 DEF Surjection
    <2>4. \A r \in 0..(Cap - 1) : \E k \in Kept(s) : low[k] = r
      <3> SUFFICES ASSUME NEW r \in 0..(Cap - 1)
                   PROVE  \E k \in Kept(s) : low[k] = r
        OBVIOUS
      <3>1. r \in 0..(n - 1) /\ r < Cap
        BY <1>1, <1>6
      <3>2. PICK k \in D : Rank(s, k) = r
        BY <2>3, <3>1
      <3>3. k \in Kept(s)
        BY <3>1, <3>2 DEF Kept
      <3> QED
        BY <3>2, <3>3
    <2> QED
      BY <1>4, <2>4 DEF Injection, Surjection
  <1>7. Cardinality(Kept(s)) \in Nat
    BY <1>5, FS_CardinalityType
  <1> QED
    BY <1>5, <1>6, <1>7 DEF n

LEMMA CapLruFacts ==
    ASSUME NEW s, Store(s)
    PROVE  /\ Store(CapLru(s))
           /\ DOMAIN CapLru(s) = Kept(s)
           /\ \A k \in Kept(s) : CapLru(s)[k] = s[k]
           /\ Cardinality(DOMAIN CapLru(s)) <= Cap
  <1>1. CapLru(s) = [k \in Kept(s) |-> s[k]]
    BY DEF CapLru, Kept, Rank, Newer, Restrict
  <1>2. Kept(s) \subseteq DOMAIN s
    BY DEF Kept
  <1> QED
    BY <1>1, <1>2, KeptIsCap DEF Store

LEMMA UpsertFacts ==
    ASSUME NEW s, Store(s), NEW k \in Key, NEW now \in Nat
    PROVE  /\ Store(Upsert(s, k, now))
           /\ DOMAIN Upsert(s, k, now) = DOMAIN s \cup {k}
           /\ Upsert(s, k, now)[k] = now
           /\ \A j \in DOMAIN s : j # k => Upsert(s, k, now)[j] = s[j]
           /\ Cardinality(DOMAIN Upsert(s, k, now)) >= Cardinality(DOMAIN s)
  <1>1. k \in Nat
    BY StateBounds
  <1>2. DOMAIN Upsert(s, k, now) = DOMAIN s \cup {k}
    BY DEF Upsert
  <1>3. /\ IsFiniteSet(DOMAIN s \cup {k})
        /\ Cardinality(DOMAIN s \cup {k}) =
             IF k \in DOMAIN s THEN Cardinality(DOMAIN s) ELSE Cardinality(DOMAIN s) + 1
    BY FS_AddElement DEF Store
  <1>4. Cardinality(DOMAIN s) \in Nat
    BY FS_CardinalityType DEF Store
  <1>5. Cardinality(DOMAIN Upsert(s, k, now)) >= Cardinality(DOMAIN s)
    BY <1>2, <1>3, <1>4
  <1>6. Store(Upsert(s, k, now))
    BY <1>1, <1>2, <1>3 DEF Store, Upsert
  <1> QED
    BY <1>2, <1>5, <1>6 DEF Upsert

\* What cap_lru drops it drops for as many entries as the cap allows, all of them
\* at least as recent: an entry, or the reason for its absence, survives.
LEMMA CapRemembers ==
    ASSUME NEW s, Store(s), NEW u, u.stamp \in Nat,
           \/ u.key \in DOMAIN s /\ s[u.key] >= u.stamp
           \/ Cardinality(DOMAIN s) >= Cap /\ \A k \in DOMAIN s : s[k] >= u.stamp
    PROVE  Remembered(u, CapLru(s))
  <1> DEFINE c == CapLru(s)
  <1>0. Cap \in Nat /\ Cardinality(DOMAIN s) \in Nat /\ \A k \in DOMAIN s : s[k] \in Nat
    BY StateBounds, FS_CardinalityType DEF Store
  <1>1. /\ DOMAIN c = Kept(s)
        /\ \A k \in Kept(s) : c[k] = s[k]
        /\ Kept(s) \subseteq DOMAIN s
    BY CapLruFacts DEF Kept
  <1>2. CASE Cardinality(DOMAIN s) >= Cap /\ \A k \in DOMAIN s : s[k] >= u.stamp
    <2>1. Cardinality(DOMAIN c) = Cap
      BY <1>1, <1>2, KeptIsCap
    <2> QED
      BY <1>1, <1>2, <2>1 DEF Remembered
  <1>3. CASE u.key \in Kept(s) /\ s[u.key] >= u.stamp
    BY <1>1, <1>3 DEF Remembered
  <1>4. CASE u.key \in DOMAIN s /\ s[u.key] >= u.stamp /\ u.key \notin Kept(s)
    <2>1. /\ \A k \in DOMAIN s : Rank(s, k) \in Nat /\ Rank(s, k) < Cardinality(DOMAIN s)
          /\ \A j, k \in DOMAIN s : MoreRecent(s, j, k) => Rank(s, j) < Rank(s, k)
      BY RankGrows
    <2>2. Cap <= Rank(s, u.key)
      BY <1>0, <1>4, <2>1 DEF Kept
    <2>3. Cardinality(DOMAIN c) = Cap
      BY <1>0, <1>1, <1>4, <2>1, <2>2, KeptIsCap
    <2>4. ASSUME NEW k \in Kept(s)
          PROVE  c[k] >= u.stamp
      <3>1. k \in DOMAIN s /\ Rank(s, k) < Cap /\ k # u.key
        BY <1>4 DEF Kept
      <3>2. ~MoreRecent(s, u.key, k)
        BY <1>0, <1>4, <2>1, <2>2, <3>1
      <3>3. MoreRecent(s, k, u.key)
        BY <1>4, <3>1, <3>2, OrderIsTotal
      <3>4. s[k] >= s[u.key]
        BY <1>0, <1>4, <3>1, <3>3 DEF MoreRecent
      <3> QED
        BY <1>0, <1>1, <1>4, <3>1, <3>4
    <2> QED
      BY <1>1, <2>3, <2>4 DEF Remembered
  <1> QED
    BY <1>2, <1>3, <1>4

\* A store that update writes remembers its own entry and whatever the store it
\* loaded remembered.
LEMMA WriteRemembers ==
    ASSUME NEW s, Store(s), NEW k \in Key, NEW now \in Nat,
           NEW u, u.stamp \in Nat, u.stamp <= now,
           Remembered(u, s) \/ u.key = k
    PROVE  Remembered(u, CapLru(Upsert(s, k, now)))
  <1> DEFINE t == Upsert(s, k, now)
  <1>a. t[k] = now
    BY DEF Upsert
  <1>b. /\ Store(t) /\ DOMAIN t = DOMAIN s \cup {k}
        /\ \A j \in DOMAIN s : j # k => t[j] = s[j]
    BY UpsertFacts
  <1>0. /\ Store(t) /\ DOMAIN t = DOMAIN s \cup {k} /\ t[k] = now
        /\ \A j \in DOMAIN s : j # k => t[j] = s[j]
    BY <1>a, <1>b
  <1>1. Cardinality(DOMAIN t) >= Cardinality(DOMAIN s)
    BY UpsertFacts
  <1> HIDE DEF t
  <1>2. u.key \in DOMAIN s /\ s[u.key] >= u.stamp => u.key \in DOMAIN t /\ t[u.key] >= u.stamp
    BY <1>0
  <1>3. u.key = k => u.key \in DOMAIN t /\ t[u.key] >= u.stamp
    BY <1>0
  <1>4. Cardinality(DOMAIN s) = Cap /\ (\A j \in DOMAIN s : s[j] >= u.stamp) =>
          Cardinality(DOMAIN t) >= Cap /\ \A j \in DOMAIN t : t[j] >= u.stamp
    BY <1>0, <1>1
  <1>5. \/ u.key \in DOMAIN t /\ t[u.key] >= u.stamp
        \/ Cardinality(DOMAIN t) >= Cap /\ \A j \in DOMAIN t : t[j] >= u.stamp
    BY <1>2, <1>3, <1>4 DEF Remembered
  <1>6. Remembered(u, CapLru(t))
    BY <1>0, <1>5, CapRemembers
  <1> QED
    BY <1>6 DEF t

-----------------------------------------------------------------------------
(***************************************************************************)
(* The inductive invariant.                                                *)
(***************************************************************************)
Stage == {"idle", "loaded", "temp", "filled", "synced", "renamed", "done"}
FileOK(f) ==
    /\ f = Whole(f.entries)
    /\ Store(f.entries)
    /\ Cardinality(DOMAIN f.entries) <= Cap
DraftOK(s) == Store(s) /\ Cardinality(DOMAIN s) <= Cap
JobOK(j) ==
    /\ j = [key |-> j.key, stamp |-> j.stamp, blank |-> j.blank, temp |-> j.temp]
    /\ j.stamp \in Nat
    /\ j.stamp <= clock
    /\ j.blank \in BOOLEAN

Typed ==
    /\ FileOK(target)
    /\ \A f \in pending : FileOK(f)
    /\ stage \in [Actor -> Stage]
    /\ draft = [a \in Actor |-> draft[a]] /\ \A a \in Actor : DraftOK(draft[a])
    /\ job = [a \in Actor |-> job[a]] /\ \A a \in Actor : JobOK(job[a])
    /\ clock \in Nat
    /\ \A u \in acked : u.stamp \in Nat /\ u.stamp <= clock
    /\ safe \subseteq acked

\* with_lock_exclusive: whoever is in the body of update holds the path, and
\* holds it exclusively.
BodyIsLocked ==
    \A a \in Actor :
        /\ stage[a] # "idle" => Holds(a)
        /\ Holds(a) => guards[a][1] = "exclusive"
        /\ pc[a] \in {"asleep", "woken", "open", "lock"} => want[a] = "exclusive"

Writing(a) == stage[a] \in {"loaded", "temp", "filled", "synced"}
Own(a) == [key |-> job[a].key, stamp |-> job[a].stamp]

\* What a thread is about to write, or has written and not yet reported.
DraftIsGood ==
    \A a \in Actor :
        /\ Writing(a) /\ ~job[a].blank => \A u \in acked : Remembered(u, draft[a])
        /\ Writing(a) \/ stage[a] = "renamed" => Remembered(Own(a), draft[a])
        /\ stage[a] = "renamed" => target = Whole(draft[a])

StateInv ==
    /\ LockInv
    /\ Typed
    /\ BodyIsLocked
    /\ DraftIsGood
    /\ NoLostUpdate

-----------------------------------------------------------------------------
LEMMA EmptyStore == FileOK(Whole(NoEntries)) /\ DraftOK(NoEntries)
  <1>1. DOMAIN NoEntries = {} /\ NoEntries = [k \in DOMAIN NoEntries |-> NoEntries[k]]
    BY DEF NoEntries
  <1>2. IsFiniteSet(DOMAIN NoEntries) /\ Cardinality(DOMAIN NoEntries) = 0
    BY <1>1, FS_EmptySet
  <1>3. Store(NoEntries)
    BY <1>1, <1>2 DEF Store
  <1>4. Cap \in Nat
    BY StateBounds
  <1> QED
    BY <1>2, <1>3, <1>4 DEF FileOK, DraftOK, Whole

LEMMA NoJobFacts ==
    ASSUME NEW j, NEW now \in Nat, j = NoJob
    PROVE  /\ j = [key |-> j.key, stamp |-> j.stamp, blank |-> j.blank, temp |-> j.temp]
           /\ j.stamp \in Nat
           /\ j.stamp <= now
           /\ j.blank \in BOOLEAN
  BY DEF NoJob

LEMMA StateInvInit == StateInit => StateInv
  <1> SUFFICES ASSUME StateInit PROVE StateInv
    OBVIOUS
  <1>1. LockInv
    BY LockInvInit DEF StateInit
  <1>2. Typed
    <2>1. clock = 0 /\ JobOK(NoJob)
      BY DEF StateInit, JobOK, NoJob
    <2>2. stage \in [Actor -> Stage]
      BY DEF StateInit, Stage
    <2> QED
      BY <2>1, <2>2, EmptyStore DEF StateInit, Typed
  <1>3. BodyIsLocked
    BY DEF StateInit, LockInit, BodyIsLocked, Holds
  <1>4. DraftIsGood /\ NoLostUpdate
    BY DEF StateInit, DraftIsGood, Writing, NoLostUpdate
  <1> QED
    BY <1>1, <1>2, <1>3, <1>4 DEF StateInv

\* One thread of all is in the body of update.
LEMMA OneUpdater ==
    ASSUME LockInv, BodyIsLocked, NEW a \in Actor, NEW b \in Actor,
           stage[a] # "idle", stage[b] # "idle"
    PROVE  a = b
  BY LockInvImpliesExclusion DEF BodyIsLocked, Exclusion

\* A step that is none of the lock's leaves its half of the invariant alone.
LEMMA LockUntouched ==
    ASSUME LockInv, UNCHANGED lockVars
    PROVE  LockInv' /\ \A a \in Actor : Holds(a)' <=> Holds(a)
  BY LockInvNext DEF lockVars, Holds

\* What no step of the lock changes.
LEMMA FilesUntouched ==
    ASSUME Typed, DraftIsGood, NoLostUpdate, UNCHANGED fileVars
    PROVE  Typed' /\ DraftIsGood' /\ NoLostUpdate'
  <1> USE DEF fileVars
  <1>1. Typed'
    BY DEF Typed, JobOK
  <1>2. DraftIsGood' /\ NoLostUpdate'
    BY DEF DraftIsGood, Writing, Own, NoLostUpdate
  <1> QED
    BY <1>1, <1>2

-----------------------------------------------------------------------------
(***************************************************************************)
(* Steps of the body of update.                                            *)
(***************************************************************************)
LEMMA InTheBody ==
    ASSUME StateInv, NEW a \in Actor, NEW v \in Stage, Holds(a),
           stage' = [stage EXCEPT ![a] = v], UNCHANGED lockVars
    PROVE  /\ LockInv' /\ BodyIsLocked'
           /\ stage' \in [Actor -> Stage]
           /\ stage'[a] = v
           /\ \A b \in Actor : b # a => stage'[b] = stage[b]
  <1>1. LockInv' /\ \A b \in Actor : Holds(b)' <=> Holds(b)
    BY LockUntouched DEF StateInv
  <1>2. stage \in [Actor -> Stage]
    BY DEF StateInv, Typed
  <1>3. BodyIsLocked'
    BY <1>1, <1>2 DEF StateInv, BodyIsLocked, lockVars
  <1> QED
    BY <1>1, <1>2, <1>3

LEMMA BeginKeeps ==
    ASSUME StateInv, NEW a \in Actor, NEW k \in Key, NEW from, NEW blank \in BOOLEAN,
           Begin(a, k, from, blank), Store(from),
           ~blank => \A u \in acked : Remembered(u, from)
    PROVE  StateInv'
  <1> DEFINE d == CapLru(Upsert(from, k, clock))
             j == [key |-> k, stamp |-> clock, blank |-> blank, temp |-> NoTemp]
  <1>1. /\ clock \in Nat /\ stage \in [Actor -> Stage]
        /\ draft = [b \in Actor |-> draft[b]] /\ job = [b \in Actor |-> job[b]]
    BY DEF StateInv, Typed
  <1>2. DraftOK(d)
    BY <1>1, UpsertFacts, CapLruFacts DEF DraftOK
  <1>3. /\ LockInv' /\ BodyIsLocked'
        /\ stage' \in [Actor -> Stage] /\ stage'[a] = "loaded"
        /\ \A b \in Actor : b # a => stage'[b] = stage[b]
    BY InTheBody DEF Begin, Stage
  <1>4. /\ draft' = [b \in Actor |-> draft'[b]] /\ draft'[a] = d
        /\ \A b \in Actor : b # a => draft'[b] = draft[b]
    BY <1>1 DEF Begin
  <1>5. /\ job' = [b \in Actor |-> job'[b]] /\ job'[a] = j
        /\ \A b \in Actor : b # a => job'[b] = job[b]
    BY <1>1 DEF Begin
  <1>6. UNCHANGED <<target, pending, acked, safe, clock>>
    BY DEF Begin
  <1>7. j = [key |-> j.key, stamp |-> j.stamp, blank |-> j.blank, temp |-> j.temp]
        /\ j.key = k /\ j.stamp = clock /\ j.blank = blank
    OBVIOUS
  <1> HIDE DEF d, j
  <1>8. Typed'
    <2>1. \A b \in Actor : DraftOK(draft'[b])
      BY <1>2, <1>4 DEF StateInv, Typed
    <2>2. \A b \in Actor : JobOK(job[b]) => JobOK(job[b])'
      BY <1>6, <1>5, <1>7, <1>1 DEF JobOK
    <2> QED
      BY <1>1, <1>3, <1>4, <1>5, <1>6, <2>1, <2>2 DEF StateInv, Typed
  <1>9. \A u \in acked : ~blank => Remembered(u, d)
    <2> SUFFICES ASSUME NEW u \in acked, ~blank PROVE Remembered(u, d)
      OBVIOUS
    <2>1. u.stamp \in Nat /\ u.stamp <= clock /\ Remembered(u, from)
      BY DEF StateInv, Typed
    <2> QED
      BY <1>1, <2>1, WriteRemembers DEF d
  <1>10. Remembered([key |-> k, stamp |-> clock], d)
    <2> DEFINE u == [key |-> k, stamp |-> clock]
    <2>1. u.key = k /\ u.stamp \in Nat /\ u.stamp <= clock
      BY <1>1
    <2> HIDE DEF u
    <2>2. Remembered(u, d)
      BY <1>1, <2>1, WriteRemembers DEF d
    <2> QED
      BY <2>2 DEF u
  <1>11. DraftIsGood'
    <2> SUFFICES ASSUME NEW b \in Actor
                 PROVE  /\ Writing(b)' /\ ~job'[b].blank =>
                             \A u \in acked' : Remembered(u, draft'[b])
                        /\ Writing(b)' \/ stage'[b] = "renamed" =>
                             Remembered(Own(b)', draft'[b])
                        /\ stage'[b] = "renamed" => target' = Whole(draft'[b])
      BY DEF DraftIsGood, Remembered
    <2>1. CASE b = a
      BY <1>3, <1>4, <1>5, <1>6, <1>7, <1>9, <1>10, <2>1 DEF Own
    <2>2. CASE b # a
      BY <1>3, <1>4, <1>5, <1>6, <2>2 DEF StateInv, DraftIsGood, Writing, Own
    <2> QED
      BY <2>1, <2>2
  <1>12. NoLostUpdate'
    BY <1>6 DEF StateInv, NoLostUpdate
  <1> QED
    BY <1>3, <1>8, <1>11, <1>12 DEF StateInv

\* open_temp, the fill, the fsync, and an error in any of them: nothing that
\* another process can see.
LEMMA OnwardKeeps ==
    ASSUME StateInv, NEW a \in Actor, NEW v \in {"temp", "filled", "synced", "done"},
           Writing(a), stage' = [stage EXCEPT ![a] = v],
           UNCHANGED job \/ \E n : job' = [job EXCEPT ![a].temp = n],
           UNCHANGED <<lockVars, target, pending, draft, acked, safe, clock>>
    PROVE  StateInv'
  <1>0. /\ stage \in [Actor -> Stage] /\ job = [b \in Actor |-> job[b]]
        /\ clock \in Nat
    BY DEF StateInv, Typed
  <1>1. Holds(a) /\ v \in Stage /\ v # "idle" /\ v # "renamed"
    BY DEF StateInv, BodyIsLocked, Writing, Stage
  <1>2. /\ LockInv' /\ BodyIsLocked'
        /\ stage' \in [Actor -> Stage] /\ stage'[a] = v
        /\ \A b \in Actor : b # a => stage'[b] = stage[b]
    BY <1>1, InTheBody
  <1>3. \A b \in Actor : JobOK(job[b])
    BY DEF StateInv, Typed
  <1>4. /\ job' = [b \in Actor |-> job'[b]]
        /\ \A b \in Actor : /\ job'[b].key = job[b].key /\ job'[b].stamp = job[b].stamp
                            /\ job'[b].blank = job[b].blank
                            /\ JobOK(job[b])'
    <2>1. CASE UNCHANGED job
      BY <1>0, <1>3, <2>1 DEF JobOK
    <2>2. ASSUME NEW n, job' = [job EXCEPT ![a].temp = n]
          PROVE  <1>4!1 /\ <1>4!2
      <3> DEFINE j == [job[a] EXCEPT !.temp = n]
      <3>1. /\ job' = [b \in Actor |-> job'[b]] /\ job'[a] = j
            /\ \A b \in Actor : b # a => job'[b] = job[b]
        BY <1>0, <2>2
      <3>2. job[a] = [key |-> job[a].key, stamp |-> job[a].stamp,
                      blank |-> job[a].blank, temp |-> job[a].temp]
        BY <1>3 DEF JobOK
      <3>3. j = [key |-> job[a].key, stamp |-> job[a].stamp,
                 blank |-> job[a].blank, temp |-> n]
        BY <3>2
      <3> HIDE DEF j
      <3>4. /\ j.key = job[a].key /\ j.stamp = job[a].stamp
            /\ j.blank = job[a].blank /\ j.temp = n
        BY <3>3
      <3> QED
        BY <1>3, <3>1, <3>3, <3>4 DEF JobOK
    <2> QED
      BY <2>1, <2>2
  <1>5. Typed'
    BY <1>0, <1>2, <1>4 DEF StateInv, Typed
  <1>6. DraftIsGood'
    <2> SUFFICES ASSUME NEW b \in Actor
                 PROVE  /\ Writing(b)' /\ ~job'[b].blank =>
                             \A u \in acked' : Remembered(u, draft'[b])
                        /\ Writing(b)' \/ stage'[b] = "renamed" =>
                             Remembered(Own(b)', draft'[b])
                        /\ stage'[b] = "renamed" => target' = Whole(draft'[b])
      BY DEF DraftIsGood, Remembered
    <2>1. Own(b)' = Own(b) /\ (job'[b].blank <=> job[b].blank)
      BY <1>4 DEF Own
    <2>2. /\ Writing(b)' => Writing(b)
          /\ stage'[b] = "renamed" => stage[b] = "renamed"
      BY <1>1, <1>2 DEF Writing
    <2> QED
      BY <2>1, <2>2 DEF StateInv, DraftIsGood
  <1>7. NoLostUpdate'
    BY DEF StateInv, NoLostUpdate
  <1> QED
    BY <1>2, <1>5, <1>6, <1>7 DEF StateInv

LEMMA WholeEntries == \A s : Whole(s).entries = s
  BY DEF Whole

LEMMA RenameKeeps ==
    ASSUME StateInv, NEW a \in Actor, Rename(a)
    PROVE  StateInv'
  <1>0. /\ stage[a] = "synced" /\ Holds(a) /\ Writing(a)
        /\ stage \in [Actor -> Stage] /\ job = [b \in Actor |-> job[b]]
    BY DEF Rename, Renamable, StateInv, BodyIsLocked, Typed, Writing
  <1>1. /\ LockInv' /\ BodyIsLocked'
        /\ stage' \in [Actor -> Stage] /\ stage'[a] = "renamed"
        /\ \A b \in Actor : b # a => stage'[b] = stage[b]
    BY <1>0, InTheBody DEF Rename, Stage
  <1>2. /\ target' = Whole(draft[a]) /\ pending' = pending \cup {target'}
        /\ UNCHANGED <<draft, clock>>
        /\ acked' \subseteq acked /\ safe' \subseteq safe /\ safe' \subseteq acked'
        /\ job[a].blank => acked' = {}
    BY <1>0 DEF Rename, StateInv, Typed
  <1>3. \A b \in Actor : b # a => stage[b] = "idle"
    BY <1>0, OneUpdater DEF StateInv
  <1>4. FileOK(target') /\ target'.entries = draft[a]
    BY <1>2, WholeEntries DEF StateInv, Typed, DraftOK, FileOK
  <1>5. /\ job' = [b \in Actor |-> job'[b]]
        /\ \A b \in Actor : JobOK(job[b])'
        /\ job'[a].key = job[a].key /\ job'[a].stamp = job[a].stamp
    <2>1. /\ job' = [b \in Actor |-> job'[b]] /\ job'[a] = [job[a] EXCEPT !.temp = NoTemp]
          /\ \A b \in Actor : b # a => job'[b] = job[b]
      BY <1>0 DEF Rename
    <2>2. \A b \in Actor : JobOK(job[b])
      BY DEF StateInv, Typed
    <2>3. job[a] = [key |-> job[a].key, stamp |-> job[a].stamp,
                    blank |-> job[a].blank, temp |-> job[a].temp]
      BY <2>2 DEF JobOK
    <2>4. job'[a] = [key |-> job[a].key, stamp |-> job[a].stamp,
                     blank |-> job[a].blank, temp |-> NoTemp]
      BY <2>1, <2>3
    <2>5. /\ job'[a].key = job[a].key /\ job'[a].stamp = job[a].stamp
          /\ job'[a].blank = job[a].blank /\ job'[a].temp = NoTemp
      BY <2>4
    <2> QED
      BY <1>2, <2>1, <2>2, <2>4, <2>5 DEF JobOK
  <1>6. Typed'
    BY <1>1, <1>2, <1>4, <1>5 DEF StateInv, Typed
  <1>7. \A u \in acked' : Remembered(u, draft[a])
    BY <1>0, <1>2 DEF StateInv, DraftIsGood
  <1>8. DraftIsGood'
    <2> SUFFICES ASSUME NEW b \in Actor
                 PROVE  /\ Writing(b)' /\ ~job'[b].blank =>
                             \A u \in acked' : Remembered(u, draft'[b])
                        /\ Writing(b)' \/ stage'[b] = "renamed" =>
                             Remembered(Own(b)', draft'[b])
                        /\ stage'[b] = "renamed" => target' = Whole(draft'[b])
      BY DEF DraftIsGood, Remembered
    <2>1. CASE b = a
      <3>1. Own(b)' = Own(a) /\ Remembered(Own(a), draft[a])
        BY <1>0, <1>5, <2>1 DEF Own, StateInv, DraftIsGood
      <3> QED
        BY <1>1, <1>2, <2>1, <3>1 DEF Writing
    <2>2. CASE b # a
      BY <1>1, <1>3, <2>2 DEF Writing
    <2> QED
      BY <2>1, <2>2
  <1>9. NoLostUpdate'
    <2>1. \A u \in acked' : Remembered(u, target'.entries)
      BY <1>4, <1>7
    <2>2. \A u \in safe', f \in pending' : Remembered(u, f.entries)
      BY <1>2, <2>1 DEF StateInv, NoLostUpdate
    <2> QED
      BY <2>1, <2>2 DEF NoLostUpdate, Remembered
  <1> QED
    BY <1>1, <1>6, <1>8, <1>9 DEF StateInv

LEMMA SyncParentKeeps ==
    ASSUME StateInv, NEW a \in Actor, NEW ok \in BOOLEAN, SyncParent(a, ok)
    PROVE  StateInv'
  <1>0. /\ stage[a] = "renamed" /\ Holds(a) /\ stage \in [Actor -> Stage]
        /\ target = Whole(draft[a]) /\ Remembered(Own(a), draft[a])
        /\ Own(a).stamp \in Nat /\ Own(a).stamp <= clock
    BY DEF SyncParent, StateInv, BodyIsLocked, Typed, DraftIsGood, Own, JobOK
  <1>1. /\ LockInv' /\ BodyIsLocked'
        /\ stage' \in [Actor -> Stage] /\ stage'[a] = "done"
        /\ \A b \in Actor : b # a => stage'[b] = stage[b]
    BY <1>0, InTheBody DEF SyncParent, Stage
  <1>2. /\ acked' = acked \cup {Own(a)}
        /\ UNCHANGED <<target, draft, job, clock>>
        /\ \/ pending' = {target} /\ safe' = acked'
           \/ UNCHANGED <<pending, safe>>
    BY DEF SyncParent, Own
  <1>3. \A b \in Actor : b # a => stage[b] = "idle"
    BY <1>0, OneUpdater DEF StateInv
  <1>4. Typed'
    <2>1. FileOK(target') /\ \A f \in pending' : FileOK(f)
      BY <1>2 DEF StateInv, Typed
    <2>2. \A u \in acked' : u.stamp \in Nat /\ u.stamp <= clock
      BY <1>0, <1>2 DEF StateInv, Typed
    <2>3. safe' \subseteq acked'
      BY <1>2 DEF StateInv, Typed
    <2>4. \A b \in Actor : JobOK(job[b])'
      BY <1>2 DEF StateInv, Typed, JobOK
    <2> QED
      BY <1>1, <1>2, <2>1, <2>2, <2>3, <2>4 DEF StateInv, Typed
  <1>5. DraftIsGood'
    BY <1>1, <1>3 DEF DraftIsGood, Writing
  <1>6. NoLostUpdate'
    <2>1. \A u \in acked' : Remembered(u, target.entries)
      BY <1>0, <1>2, WholeEntries DEF StateInv, NoLostUpdate
    <2>2. \A u \in safe', f \in pending' : Remembered(u, f.entries)
      BY <1>2, <2>1 DEF StateInv, NoLostUpdate
    <2> QED
      BY <1>2, <2>1, <2>2 DEF NoLostUpdate, Remembered
  <1> QED
    BY <1>1, <1>4, <1>5, <1>6 DEF StateInv

LEMMA ReturnKeeps ==
    ASSUME StateInv, NEW a \in Actor, Return(a)
    PROVE  StateInv'
  <1>0. /\ stage \in [Actor -> Stage] /\ guards \in [Actor -> Seq(Mode)]
        /\ pc \in [Actor -> Phase]
        /\ draft = [b \in Actor |-> draft[b]] /\ job = [b \in Actor |-> job[b]]
        /\ clock \in Nat
    BY DEF StateInv, Typed, LockInv, LockTypeOK
  <1>1. LockInv'
    BY LockInvNext DEF StateInv, Return, LockNext
  <1>2. /\ stage' \in [Actor -> Stage] /\ stage'[a] = "idle"
        /\ \A b \in Actor : b # a => stage'[b] = stage[b]
    BY <1>0 DEF Return, Stage
  <1>3. /\ draft' = [b \in Actor |-> draft'[b]] /\ draft'[a] = NoEntries
        /\ \A b \in Actor : b # a => draft'[b] = draft[b]
    BY <1>0 DEF Return
  <1>4. /\ job' = [b \in Actor |-> job'[b]] /\ job'[a] = NoJob
        /\ \A b \in Actor : b # a => job'[b] = job[b]
    BY <1>0 DEF Return
  <1>5. UNCHANGED <<target, pending, acked, safe, clock>>
    BY DEF Return
  <1>6. BodyIsLocked'
    <2>1. /\ \A b \in Actor : b # a => guards'[b] = guards[b] /\ pc'[b] = pc[b]
          /\ guards'[a] = SubSeq(guards[a], 1, Len(guards[a]) - 1)
          /\ pc'[a] \in {"notify", "run"}
          /\ guards[a] # <<>> /\ UNCHANGED want
      BY <1>0 DEF Return, DropGuard, Release
    <2>2. guards'[a] # <<>> => guards'[a][1] = "exclusive"
      <3>1. /\ guards'[a] = <<>> <=> Len(guards[a]) = 1
            /\ Len(guards[a]) \in Nat \ {0}
            /\ \A i \in 1..(Len(guards[a]) - 1) : guards'[a][i] = guards[a][i]
        BY <1>0, <2>1, FrontOfNest
      <3>2. guards[a][1] = "exclusive"
        BY <2>1 DEF StateInv, BodyIsLocked, Holds
      <3>3. guards'[a] # <<>> => 1 \in 1..(Len(guards[a]) - 1)
        <4> DEFINE n == Len(guards[a])
        <4>1. n \in Nat \ {0} /\ (guards'[a] = <<>> <=> n = 1)
          BY <3>1
        <4> HIDE DEF n
        <4>2. guards'[a] # <<>> => 1 \in 1..(n - 1)
          BY <4>1
        <4> QED
          BY <4>2 DEF n
      <3> QED
        BY <3>1, <3>2, <3>3
    <2> SUFFICES ASSUME NEW b \in Actor
                 PROVE  /\ stage'[b] # "idle" => Holds(b)'
                        /\ Holds(b)' => guards'[b][1] = "exclusive"
                        /\ pc'[b] \in {"asleep", "woken", "open", "lock"} => want'[b] = "exclusive"
      BY DEF BodyIsLocked
    <2>3. CASE b = a
      BY <1>2, <2>1, <2>2, <2>3 DEF Holds
    <2>4. CASE b # a
      BY <1>2, <2>1, <2>4 DEF Holds, StateInv, BodyIsLocked
    <2> QED
      BY <2>3, <2>4
  <1>7. Typed'
    <2>1. \A b \in Actor : DraftOK(draft'[b])
      BY <1>3, EmptyStore DEF StateInv, Typed
    <2>2. \A b \in Actor : JobOK(job[b])'
      <3>1. JobOK(job[a])'
        <4>1. clock' \in Nat /\ job'[a] = NoJob
          BY <1>4, <1>5 DEF StateInv, Typed
        <4> QED
          BY <4>1, NoJobFacts DEF JobOK
      <3>2. \A b \in Actor : b # a => JobOK(job[b])'
        BY <1>4, <1>5 DEF StateInv, Typed, JobOK
      <3> QED
        BY <3>1, <3>2
    <2> QED
      BY <1>2, <1>3, <1>4, <1>5, <2>1, <2>2 DEF StateInv, Typed
  <1>8. DraftIsGood'
    <2> SUFFICES ASSUME NEW b \in Actor
                 PROVE  /\ Writing(b)' /\ ~job'[b].blank =>
                             \A u \in acked' : Remembered(u, draft'[b])
                        /\ Writing(b)' \/ stage'[b] = "renamed" =>
                             Remembered(Own(b)', draft'[b])
                        /\ stage'[b] = "renamed" => target' = Whole(draft'[b])
      BY DEF DraftIsGood, Remembered
    <2>1. CASE b = a
      BY <1>2, <2>1 DEF Writing
    <2>2. CASE b # a
      BY <1>2, <1>3, <1>4, <1>5, <2>2 DEF Writing, Own, StateInv, DraftIsGood
    <2> QED
      BY <2>1, <2>2
  <1>9. NoLostUpdate'
    BY <1>5 DEF StateInv, NoLostUpdate
  <1> QED
    BY <1>1, <1>6, <1>7, <1>8, <1>9 DEF StateInv

-----------------------------------------------------------------------------
(***************************************************************************)
(* The lock, time and failures.                                            *)
(***************************************************************************)
LEMMA LockingKeeps ==
    ASSUME StateInv, NEW a \in Actor, Locking(a)
    PROVE  StateInv'
  <1>0. /\ pc \in [Actor -> Phase] /\ want \in [Actor -> Mode]
        /\ guards \in [Actor -> Seq(Mode)]
    BY DEF StateInv, LockInv, LockTypeOK
  <1>1. LockInv'
    <2>1. LockNext
      BY DEF Locking, LockNext, Mode
    <2> QED
      BY <2>1, LockInvNext DEF StateInv
  <1>2. Typed' /\ DraftIsGood' /\ NoLostUpdate' /\ UNCHANGED stage
    BY FilesUntouched DEF StateInv, Locking, fileVars
  <1>3. \A b \in Actor : Holds(b) => guards'[b] = guards[b]
    <2> SUFFICES ASSUME NEW b \in Actor, Holds(b) PROVE guards'[b] = guards[b]
      OBVIOUS
    <2>1. CASE OsLock(a)
      <3>1. b # a
        BY <2>1 DEF OsLock, StateInv, LockInv, PhaseExact, Holds
      <3> QED
        BY <1>0, <2>1, <3>1 DEF OsLock
    <2>2. CASE ~OsLock(a)
      BY <2>2 DEF Locking, ClaimFree, Wait, OpenLockFile, AcquireFails, Notify, Unlock,
         SpuriousWake
    <2> QED
      BY <2>1, <2>2
  <1>4. \A b \in Actor : ~Holds(b) /\ Holds(b)' => guards'[b][1] = "exclusive"
    <2> SUFFICES ASSUME NEW b \in Actor, ~Holds(b), Holds(b)'
                 PROVE  guards'[b][1] = "exclusive"
      OBVIOUS
    <2>1. OsLock(a)
      BY DEF Locking, ClaimFree, Wait, OpenLockFile, AcquireFails, Notify, Unlock,
         SpuriousWake, Holds
    <2>2. b = a /\ guards'[a] = <<want[a]>> /\ want[a] = "exclusive"
      BY <1>0, <2>1 DEF OsLock, Holds, StateInv, BodyIsLocked
    <2> QED
      BY <2>2
  <1>5. \A b \in Actor :
          pc'[b] \in {"asleep", "woken", "open", "lock"} => want'[b] = "exclusive"
    <2> SUFFICES ASSUME NEW b \in Actor, pc'[b] \in {"asleep", "woken", "open", "lock"}
                 PROVE  want'[b] = "exclusive"
      OBVIOUS
    <2>1. CASE ClaimFree(a, "exclusive") \/ Wait(a, "exclusive")
      BY <1>0, <2>1 DEF ClaimFree, Wait, StateInv, BodyIsLocked
    <2>2. CASE OpenLockFile(a) \/ AcquireFails(a) \/ OsLock(a) \/ Unlock(a) \/ SpuriousWake(a)
      BY <1>0, <2>2 DEF OpenLockFile, AcquireFails, Release, OsLock, Unlock, SpuriousWake,
         StateInv, BodyIsLocked
    <2>3. CASE Notify(a)
      BY <1>0, <2>3 DEF Notify, WakeAll, StateInv, BodyIsLocked
    <2> QED
      BY <2>1, <2>2, <2>3 DEF Locking
  <1>6. BodyIsLocked'
    BY <1>2, <1>3, <1>4, <1>5 DEF StateInv, BodyIsLocked, Holds
  <1> QED
    BY <1>1, <1>2, <1>6 DEF StateInv

LEMMA TickKeeps ==
    ASSUME StateInv, Tick
    PROVE  StateInv'
  <1>1. LockInv' /\ \A a \in Actor : Holds(a)' <=> Holds(a)
    BY LockUntouched DEF StateInv, Tick
  <1>2. BodyIsLocked'
    BY <1>1 DEF StateInv, BodyIsLocked, Tick, lockVars
  <1>3. Typed'
    <2>1. clock \in Nat /\ clock' \in Nat /\ clock < clock'
      BY DEF StateInv, Typed, Tick
    <2>2. \A a \in Actor : JobOK(job[a])'
      BY <2>1 DEF StateInv, Typed, JobOK, Tick
    <2>3. \A u \in acked' : u.stamp \in Nat /\ u.stamp <= clock'
      BY <2>1 DEF StateInv, Typed, Tick
    <2> QED
      BY <2>1, <2>2, <2>3 DEF StateInv, Typed, Tick
  <1>4. DraftIsGood' /\ NoLostUpdate'
    BY DEF StateInv, DraftIsGood, Writing, Own, NoLostUpdate, Tick
  <1> QED
    BY <1>1, <1>2, <1>3, <1>4 DEF StateInv

\* The threads of the processes that died start afresh; the others go on.
LEMMA ForgottenKeeps ==
    ASSUME StateInv, NEW P \in SUBSET Proc, Forgotten(P), UNCHANGED clock,
           FileOK(target'), \A f \in pending' : FileOK(f),
           acked' \subseteq acked, safe' \subseteq acked',
           UNCHANGED target \/ P = Proc
    PROVE  Typed' /\ DraftIsGood'
  <1>0. /\ \A a \in Actor : a[1] \in P =>
              stage'[a] = "idle" /\ draft'[a] = NoEntries /\ job'[a] = NoJob
        /\ \A a \in Actor : a[1] \notin P =>
              stage'[a] = stage[a] /\ draft'[a] = draft[a] /\ job'[a] = job[a]
        /\ draft' = [a \in Actor |-> draft'[a]] /\ job' = [a \in Actor |-> job'[a]]
    BY DEF Forgotten
  <1>1. Typed'
    <2>1. clock' \in Nat /\ \A u \in acked' : u.stamp \in Nat /\ u.stamp <= clock'
      BY DEF StateInv, Typed
    <2>2. stage' \in [Actor -> Stage]
      BY DEF Forgotten, StateInv, Typed, Stage
    <2>3. \A a \in Actor : DraftOK(draft'[a])
      BY <1>0, EmptyStore DEF StateInv, Typed
    <2>4. \A a \in Actor : JobOK(job[a])'
      <3> SUFFICES ASSUME NEW a \in Actor PROVE JobOK(job[a])'
        OBVIOUS
      <3>1. CASE a[1] \in P
        <4>1. clock' \in Nat /\ job'[a] = NoJob
          BY <1>0, <2>1, <3>1
        <4> QED
          BY <4>1, NoJobFacts DEF JobOK
      <3>2. CASE a[1] \notin P
        BY <1>0, <3>2 DEF StateInv, Typed, JobOK
      <3> QED
        BY <3>1, <3>2
    <2> QED
      BY <1>0, <2>1, <2>2, <2>3, <2>4 DEF Typed
  <1>2. DraftIsGood'
    <2> SUFFICES ASSUME NEW b \in Actor
                 PROVE  /\ Writing(b)' /\ ~job'[b].blank =>
                             \A u \in acked' : Remembered(u, draft'[b])
                        /\ Writing(b)' \/ stage'[b] = "renamed" =>
                             Remembered(Own(b)', draft'[b])
                        /\ stage'[b] = "renamed" => target' = Whole(draft'[b])
      BY DEF DraftIsGood, Remembered
    <2>1. CASE b[1] \in P
      BY <1>0, <2>1 DEF Writing
    <2>2. CASE b[1] \notin P
      <3>1. UNCHANGED target
        BY <2>2, ActorIsPair
      <3> QED
        BY <1>0, <2>2, <3>1 DEF Writing, Own, StateInv, DraftIsGood
    <2> QED
      BY <2>1, <2>2
  <1> QED
    BY <1>1, <1>2

LEMMA DieKeeps ==
    ASSUME StateInv, NEW p \in Proc, Die(p)
    PROVE  StateInv'
  <1>1. LockInv'
    BY LockInvNext DEF StateInv, Die, LockNext
  <1>2. Typed' /\ DraftIsGood'
    BY ForgottenKeeps DEF StateInv, Typed, Die
  <1>3. BodyIsLocked'
    BY DEF StateInv, BodyIsLocked, Die, Crash, Forgotten, Holds
  <1>4. NoLostUpdate'
    BY DEF StateInv, NoLostUpdate, Die
  <1> QED
    BY <1>1, <1>2, <1>3, <1>4 DEF StateInv

LEMMA PowerLossKeeps ==
    ASSUME StateInv, PowerLoss
    PROVE  StateInv'
  <1>1. LockInv'
    <2>1. /\ want \in [Actor -> Mode] /\ calls \in [Actor -> Nat] /\ crashes \in Nat
      BY DEF StateInv, LockInv, LockTypeOK
    <2>2. LockTypeOK'
      BY <2>1 DEF PowerLoss, LockTypeOK, Phase
    <2>3. ClaimExact' /\ PhaseExact' /\ OsExact' /\ NestIsCovered' /\ SleeperHasWaker'
      BY DEF PowerLoss, ClaimExact, PhaseExact, OsExact, NestIsCovered, SleeperHasWaker,
         Owns, Holds, Claimed
    <2> QED
      BY <2>2, <2>3 DEF LockInv
  <1>2. Typed' /\ DraftIsGood'
    BY ForgottenKeeps DEF StateInv, Typed, PowerLoss
  <1>3. BodyIsLocked'
    <2>1. \A a \in Actor : stage'[a] = "idle" /\ guards'[a] = <<>> /\ pc'[a] = "run"
      BY ActorIsPair DEF PowerLoss, Forgotten
    <2> QED
      BY <2>1 DEF BodyIsLocked, Holds
  <1>4. NoLostUpdate'
    BY DEF StateInv, NoLostUpdate, PowerLoss, Remembered
  <1> QED
    BY <1>1, <1>2, <1>3, <1>4 DEF StateInv

-----------------------------------------------------------------------------
LEMMA StateInvNext == StateInv /\ [StateNext]_stateVars => StateInv'
  <1> SUFFICES ASSUME StateInv, [StateNext]_stateVars PROVE StateInv'
    OBVIOUS
  <1>1. CASE UNCHANGED stateVars
    <2>1. LockInv' /\ \A a \in Actor : Holds(a)' <=> Holds(a)
      BY <1>1, LockUntouched DEF StateInv, stateVars
    <2>2. Typed' /\ DraftIsGood' /\ NoLostUpdate'
      BY <1>1, FilesUntouched DEF StateInv, stateVars
    <2>3. BodyIsLocked'
      BY <1>1, <2>1 DEF StateInv, BodyIsLocked, stateVars, lockVars, fileVars
    <2> QED
      BY <2>1, <2>2, <2>3 DEF StateInv
  <1>2. ASSUME NEW a \in Actor, Locking(a) PROVE StateInv'
    BY <1>2, LockingKeeps
  <1>3. ASSUME NEW a \in Actor, NEW k \in Key, Load(a, k) PROVE StateInv'
    <2>1. /\ Store(target.entries) /\ target.whole
      BY DEF StateInv, Typed, FileOK, Whole
    <2>2. \A u \in acked : Remembered(u, target.entries)
      BY DEF StateInv, NoLostUpdate
    <2>3. Begin(a, k, target.entries, FALSE)
      BY <1>3, <2>1 DEF Load, LoadFrom
    <2> QED
      BY <2>1, <2>2, <2>3, BeginKeeps
  <1>4. ASSUME NEW a \in Actor, NEW k \in Key, LoadFails(a, k) PROVE StateInv'
    BY <1>4, BeginKeeps, EmptyStore DEF LoadFails, DraftOK
  <1>5. ASSUME NEW a \in Actor, OpenTemp(a) PROVE StateInv'
    BY <1>5, OnwardKeeps DEF OpenTemp, Writing
  <1>6. ASSUME NEW a \in Actor, NoTempName(a) \/ Fill(a) \/ SyncTemp(a) PROVE StateInv'
    BY <1>6, OnwardKeeps DEF NoTempName, Fill, SyncTemp, Writing
  <1>7. ASSUME NEW a \in Actor, WriteFails(a) PROVE StateInv'
    BY <1>7, OnwardKeeps DEF WriteFails, Writing
  <1>8. ASSUME NEW a \in Actor, Rename(a) \/ Return(a) PROVE StateInv'
    BY <1>8, RenameKeeps, ReturnKeeps
  <1>9. ASSUME NEW a \in Actor, NEW ok \in BOOLEAN, SyncParent(a, ok) PROVE StateInv'
    BY <1>9, SyncParentKeeps
  <1>10. ASSUME NEW p \in Proc, Die(p) PROVE StateInv'
    BY <1>10, DieKeeps
  <1> QED
    BY <1>1, <1>2, <1>3, <1>4, <1>5, <1>6, <1>7, <1>8, <1>9, <1>10, TickKeeps,
       PowerLossKeeps DEF StateNext

THEOREM StateInvariant == StateSpec => []StateInv
  BY StateInvInit, StateInvNext, PTL DEF StateSpec

\* What the index's name shows is a complete store within filestate::CAP, before
\* and after a power loss, for every number of writers: update renames only what
\* it has synced, and cap_lru never keeps more than the cap.
THEOREM StateIndexWhole == StateSpec => []IndexWhole
  <1>1. StateInv => IndexWhole
    BY DEF StateInv, Typed, FileOK, Whole, IndexWhole
  <1> QED
    BY <1>1, StateInvariant, PTL

\* No update that returned Ok is lost: to a concurrent or a failed update, to the
\* death of any process at any step, or, once its directory entry is on disk, to a
\* power loss.  Only cap_lru's entries that are at least as recent push it out.
THEOREM StateNoLostUpdate == StateSpec => []NoLostUpdate
  <1>1. StateInv => NoLostUpdate
    BY DEF StateInv
  <1> QED
    BY <1>1, StateInvariant, PTL

\* The body of update runs under the lock's exclusion, power losses included: a
\* process that starts again finds no trace of the old holders.
THEOREM StateExcludes == StateSpec => []Exclusion
  <1>1. StateInv => Exclusion
    BY LockInvImpliesExclusion DEF StateInv
  <1> QED
    BY <1>1, StateInvariant, PTL
=============================================================================
