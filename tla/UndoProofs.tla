----------------------------- MODULE UndoProofs -----------------------------
(***************************************************************************)
(* Proofs about the undo tree: first the arena's own operations, then      *)
(* everything the editor does with them.  Whatever text the nodes hold,    *)
(* however groups nest and whether or not a command keeps to the boundary  *)
(* protocol, each step of the editor is one operation of the arena or      *)
(* leaves its links alone.                                                 *)
(***************************************************************************)
EXTENDS EditorUndo, SequenceLemmas, FiniteSetTheorems, WellFoundedInduction, TLAPS

----------------------------------------------------------------------------
(***************************************************************************)
(* Facts about Anc, for any parent function.                               *)
(***************************************************************************)
IsParent(par) ==
  /\ NoNode \notin DOMAIN par
  /\ \A n \in DOMAIN par : par[n] \in DOMAIN par \cup {NoNode}

\* A walk visits the node it starts from.
LEMMA AncSelf ==
  ASSUME NEW par, NEW n \in DOMAIN par
  PROVE  n \in Anc(par, n)
BY DEF Anc

\* A walk visits live nodes only.
LEMMA AncDomain ==
  ASSUME NEW par, NEW n
  PROVE  Anc(par, n) \subseteq DOMAIN par
BY DEF Anc

\* A walk that visits m visits the parent of m.
LEMMA AncClosed ==
  ASSUME NEW par, IsParent(par), NEW n, NEW m \in Anc(par, n), par[m] # NoNode
  PROVE  par[m] \in Anc(par, n)
<1>1. m \in DOMAIN par /\ par[m] \in DOMAIN par
  BY DEF Anc, IsParent
<1>2. ASSUME NEW S \in SUBSET DOMAIN par, n \in S, Closed(par, S)
      PROVE  par[m] \in S
  BY <1>2 DEF Anc, Closed
<1> QED BY <1>1, <1>2 DEF Anc

\* The nodes of a walk are in every closed set that holds its start.
LEMMA AncLeast ==
  ASSUME NEW par, NEW n, NEW S \in SUBSET DOMAIN par, n \in S,
         \A k \in S : par[k] \in S \cup {NoNode}
  PROVE  Anc(par, n) \subseteq S
BY DEF Anc, Closed

\* The walk from a node that a walk visits is part of that walk.
LEMMA AncTrans ==
  ASSUME NEW par, IsParent(par), NEW n, NEW m \in Anc(par, n)
  PROVE  Anc(par, m) \subseteq Anc(par, n)
<1>1. Anc(par, n) \in SUBSET DOMAIN par
  BY AncDomain
<1>2. \A k \in Anc(par, n) : par[k] \in Anc(par, n) \cup {NoNode}
  BY AncClosed
<1> QED BY <1>1, <1>2, AncLeast

\* A walk is its first node followed by the walk from the parent.
LEMMA AncStep ==
  ASSUME NEW par, IsParent(par), NEW n \in DOMAIN par
  PROVE  Anc(par, n) =
           {n} \cup (IF par[n] = NoNode THEN {} ELSE Anc(par, par[n]))
<1> DEFINE T == {n} \cup (IF par[n] = NoNode THEN {} ELSE Anc(par, par[n]))
<1>1. T \in SUBSET DOMAIN par
  BY AncDomain
<1>2. ASSUME NEW k \in T PROVE par[k] \in T \cup {NoNode}
  <2>1. CASE k = n
    <3>1. CASE par[n] = NoNode BY <2>1, <3>1
    <3>2. CASE par[n] # NoNode
      <4>1. par[n] \in DOMAIN par BY <3>2 DEF IsParent
      <4>2. par[n] \in Anc(par, par[n]) BY <4>1, AncSelf
      <4> QED BY <2>1, <3>2, <4>2
    <3> QED BY <3>1, <3>2
  <2>2. CASE k # n
    <3>1. par[n] # NoNode /\ k \in Anc(par, par[n]) BY <2>2
    <3>2. par[k] # NoNode => par[k] \in Anc(par, par[n]) BY <3>1, AncClosed
    <3> QED BY <3>1, <3>2
  <2> QED BY <2>1, <2>2
<1>3. Anc(par, n) \subseteq T
  <2> HIDE DEF T
  <2>1. n \in T BY DEF T
  <2> QED BY <1>1, <1>2, <2>1, AncLeast
<1>4. T \subseteq Anc(par, n)
  <2>1. n \in Anc(par, n) BY AncSelf
  <2>2. CASE par[n] = NoNode BY <2>1, <2>2
  <2>3. CASE par[n] # NoNode
    <3>1. par[n] \in Anc(par, n) BY <2>1, <2>3, AncClosed
    <3>2. Anc(par, par[n]) \subseteq Anc(par, n) BY <3>1, AncTrans
    <3> QED BY <2>1, <2>3, <3>2
  <2> QED BY <2>2, <2>3
<1> QED BY <1>3, <1>4

\* Where numbers grow away from the root, a walk visits smaller ones only.
LEMMA AncSmaller ==
  ASSUME NEW par, NEW sq, NEW n \in DOMAIN par,
         \A k \in DOMAIN par : sq[k] \in Nat,
         \A k \in DOMAIN par : par[k] # NoNode => par[k] \in DOMAIN par /\ sq[par[k]] < sq[k],
         NEW m \in Anc(par, n)
  PROVE  m = n \/ sq[m] < sq[n]
<1> DEFINE T == {k \in DOMAIN par : k = n \/ sq[k] < sq[n]}
<1>1. T \in SUBSET DOMAIN par /\ n \in T
  OBVIOUS
<1>2. ASSUME NEW k \in T PROVE par[k] \in T \cup {NoNode}
  <2>1. CASE par[k] # NoNode
    <3>1. par[k] \in DOMAIN par /\ sq[par[k]] < sq[k] BY <2>1
    <3>2. sq[par[k]] \in Nat /\ sq[k] \in Nat /\ sq[n] \in Nat BY <3>1
    <3>3. sq[par[k]] < sq[n] BY <3>1, <3>2
    <3> QED BY <3>1, <3>3
  <2> QED BY <2>1
<1>3. Anc(par, n) \subseteq T
  <2> HIDE DEF T
  <2> QED BY <1>1, <1>2, AncLeast
<1> QED BY <1>3

\* Of two nodes of a walk, one is met on the walk from the other.
LEMMA AncLinear ==
  ASSUME NEW par, IsParent(par), NEW n \in DOMAIN par,
         NEW m \in Anc(par, n), NEW k \in Anc(par, n)
  PROVE  m \in Anc(par, k) \/ k \in Anc(par, m)
<1> DEFINE T == {j \in Anc(par, n) : m \in Anc(par, j) \/ j \in Anc(par, m)}
<1>1. T \in SUBSET DOMAIN par /\ n \in T
  BY AncDomain, AncSelf
<1>2. ASSUME NEW j \in T PROVE par[j] \in T \cup {NoNode}
  <2>1. CASE par[j] # NoNode
    <3>1. par[j] \in Anc(par, n) BY <2>1, AncClosed
    <3>2. CASE j \in Anc(par, m)
      <4>1. par[j] \in Anc(par, m) BY <2>1, <3>2, AncClosed
      <4> QED BY <3>1, <4>1
    <3>3. CASE m \in Anc(par, j)
      <4>1. j \in DOMAIN par BY <1>1
      <4>2. m = j \/ m \in Anc(par, par[j]) BY <2>1, <3>3, <4>1, AncStep
      <4>3. CASE m = j
        <5>1. j \in Anc(par, m) BY <4>1, <4>3, AncSelf
        <5>2. par[j] \in Anc(par, m) BY <2>1, <5>1, AncClosed
        <5> QED BY <3>1, <5>2
      <4> QED BY <3>1, <4>2, <4>3
    <3> QED BY <3>2, <3>3
  <2> QED BY <2>1
<1>3. Anc(par, n) \subseteq T
  <2> HIDE DEF T
  <2> QED BY <1>1, <1>2, AncLeast
<1> QED BY <1>3

\* A walk enters every node but its first from a child of that node.
LEMMA AncEntered ==
  ASSUME NEW par, IsParent(par), NEW n \in DOMAIN par, NEW m \in Anc(par, n), m # n
  PROVE  \E c \in Anc(par, n) : par[c] = m
<1> SUFFICES ASSUME \A c \in Anc(par, n) : par[c] # m PROVE FALSE
  OBVIOUS
<1> DEFINE T == Anc(par, n) \ {m}
<1>1. T \in SUBSET DOMAIN par /\ n \in T
  BY AncDomain, AncSelf
<1>2. ASSUME NEW j \in T PROVE par[j] \in T \cup {NoNode}
  BY AncClosed
<1>3. Anc(par, n) \subseteq T
  <2> HIDE DEF T
  <2> QED BY <1>1, <1>2, AncLeast
<1> QED BY <1>3

\* Two parent functions that agree along a walk give the same walk.
LEMMA AncAgree ==
  ASSUME NEW par, IsParent(par), NEW q, IsParent(q), NEW n \in DOMAIN par,
         \A k \in Anc(par, n) : k \in DOMAIN q /\ q[k] = par[k]
  PROVE  Anc(q, n) = Anc(par, n)
<1>1. n \in Anc(par, n) /\ n \in DOMAIN q
  BY AncSelf
<1>2. Anc(q, n) \subseteq Anc(par, n)
  <2>1. Anc(par, n) \in SUBSET DOMAIN q OBVIOUS
  <2>2. \A k \in Anc(par, n) : q[k] \in Anc(par, n) \cup {NoNode} BY AncClosed
  <2> QED BY <1>1, <2>1, <2>2, AncLeast
<1>3. Anc(par, n) \subseteq Anc(q, n)
  <2> DEFINE T == Anc(par, n) \cap Anc(q, n)
  <2>1. T \in SUBSET DOMAIN par /\ n \in T BY <1>1, AncDomain, AncSelf
  <2>2. ASSUME NEW k \in T PROVE par[k] \in T \cup {NoNode}
    <3>1. par[k] # NoNode => par[k] \in Anc(par, n) BY AncClosed
    <3>2. q[k] # NoNode => q[k] \in Anc(q, n) BY AncClosed
    <3> QED BY <3>1, <3>2
  <2>3. Anc(par, n) \subseteq T
    <3> HIDE DEF T
    <3> QED BY <2>1, <2>2, AncLeast
  <2> QED BY <2>3
<1> QED BY <1>2, <1>3

----------------------------------------------------------------------------
(***************************************************************************)
(* The inductive invariant.  PathExact is not inductive alone: undo_step   *)
(* and redo_step move along links, so it needs both directions to agree,   *)
(* and retarget_current needs RedoRetracesPath above the fork, the root    *)
(* above every node for the fork to exist, and the growing seq for a walk  *)
(* not to meet a node twice.                                               *)
(***************************************************************************)
Inv ==
  /\ TypeOK
  /\ IsTree
  /\ SeqOrdered
  /\ PathExact
  /\ RedoRetracesPath
  /\ RedoReachable

\* The parent links of an arena are a parent function.
LEMMA ParentFun == TypeOK => IsParent(parent)
BY ArenaAssumption DEF TypeOK, IsParent, Live

\* No node is met again further up its own walk.
LEMMA AncBefore ==
  ASSUME TypeOK, SeqOrdered, NEW n \in Live, NEW m \in Anc(parent, n)
  PROVE  m = n \/ seq[m] < seq[n]
<1>1. \A k \in DOMAIN parent : seq[k] \in Nat
  BY DEF TypeOK, Live
<1>2. \A k \in DOMAIN parent : parent[k] # NoNode
        => parent[k] \in DOMAIN parent /\ seq[parent[k]] < seq[k]
  BY DEF TypeOK, SeqOrdered, Live
<1>3. n \in DOMAIN parent BY DEF Live
<1> QED BY <1>1, <1>2, <1>3, AncSmaller

\* A node is not an ancestor of its parent.
LEMMA ParentAbove ==
  ASSUME TypeOK, SeqOrdered, NEW n \in Live, parent[n] # NoNode
  PROVE  n \notin Anc(parent, parent[n])
<1>1. parent[n] \in Live /\ seq[parent[n]] < seq[n]
  BY DEF TypeOK, SeqOrdered
<1>2. seq[parent[n]] \in Nat /\ seq[n] \in Nat
  BY <1>1 DEF TypeOK
<1> QED BY <1>1, <1>2, AncBefore

\* A walk passes through at most one child of a node.
LEMMA AncOneChild ==
  ASSUME TypeOK, SeqOrdered, NEW t \in Live,
         NEW m \in Anc(parent, t), NEW n \in Anc(parent, t),
         parent[m] = parent[n], parent[n] # NoNode
  PROVE  m = n
<1>1. m \in Live /\ n \in Live
  BY AncDomain DEF Live
<1>2. n \notin Anc(parent, parent[n]) /\ m \notin Anc(parent, parent[n])
  BY <1>1, ParentAbove
<1>3. m \in Anc(parent, n) \/ n \in Anc(parent, m)
  BY ParentFun, AncLinear DEF Live
<1>4. /\ Anc(parent, n) = {n} \cup Anc(parent, parent[n])
      /\ Anc(parent, m) = {m} \cup Anc(parent, parent[n])
  BY <1>1, ParentFun, AncStep DEF Live
<1> QED BY <1>2, <1>3, <1>4

\* UndoTree::new establishes the invariant.
LEMMA InitInv == ArenaInit => Inv
<1> SUFFICES ASSUME ArenaInit PROVE Inv
  OBVIOUS
<1>1. PICK r \in Node :
        /\ parent = [n \in {r} |-> NoNode]
        /\ children = [n \in {r} |-> {}]
        /\ lastChild = [n \in {r} |-> NoNode]
        /\ onPath = [n \in {r} |-> TRUE]
        /\ seq = [n \in {r} |-> 0]
        /\ nextSeq = 1
        /\ root = r
        /\ current = r
        /\ undoLevels \in Levels
        /\ pc = "idle"
  BY DEF ArenaInit
<1>2. Live = {r} BY <1>1 DEF Live
<1>3. TypeOK BY <1>1, <1>2 DEF TypeOK
<1>4. r \in Anc(parent, r) BY <1>1, AncSelf
<1>5. IsTree BY <1>1, <1>2, <1>4, ArenaAssumption DEF IsTree, AllRooted
<1>6. SeqOrdered BY <1>1, <1>2 DEF SeqOrdered
<1>7. PathExact BY <1>1, <1>2, <1>4 DEF PathExact
<1>8. RedoRetracesPath /\ RedoReachable
  BY <1>1, <1>2 DEF RedoRetracesPath, RedoReachable
<1> QED BY <1>3, <1>5, <1>6, <1>7, <1>8 DEF Inv

\* push preserves the invariant.
LEMMA PushInv ==
  ASSUME Inv, NEW c \in Node, Push(c)
  PROVE  Inv'
<1> USE DEF Inv
<1>1. IsParent(parent) BY ParentFun
<1>2. /\ DOMAIN parent' = Live \cup {c}
      /\ c \notin Live
      /\ current \in Live
      /\ parent'[c] = current
      /\ \A n \in Live : parent'[n] = parent[n]
  BY DEF Push, TypeOK
<1>3. TypeOK'
  <2>1. Live' = Live \cup {c} /\ Live' \subseteq Node
    BY <1>2 DEF TypeOK, Live
  <2>2. parent' \in [Live' -> Live' \cup {NoNode}]
    BY <1>2, <2>1 DEF Push, TypeOK
  <2>3. children' \in [Live' -> SUBSET Live']
    BY <1>2, <2>1 DEF Push, TypeOK
  <2>4. lastChild' \in [Live' -> Live' \cup {NoNode}]
    BY <1>2, <2>1 DEF Push, TypeOK
  <2>5. onPath' \in [Live' -> BOOLEAN]
    BY <1>2, <2>1 DEF Push, TypeOK
  <2>6. seq' \in [Live' -> Nat] /\ nextSeq' \in Nat
    BY <1>2, <2>1 DEF Push, TypeOK
  <2> QED BY <1>2, <2>1, <2>2, <2>3, <2>4, <2>5, <2>6 DEF Push, TypeOK
<1>4. IsParent(parent')
  BY <1>3, ArenaAssumption DEF TypeOK, IsParent, Live
<1>5. \A n \in Live : Anc(parent', n) = Anc(parent, n)
  <2> SUFFICES ASSUME NEW n \in Live PROVE Anc(parent', n) = Anc(parent, n)
    OBVIOUS
  <2>1. \A k \in Anc(parent, n) : k \in DOMAIN parent' /\ parent'[k] = parent[k]
    BY <1>2, AncDomain DEF Live
  <2> QED BY <1>1, <1>4, <2>1, AncAgree DEF Live
<1>6. Anc(parent', c) = {c} \cup Anc(parent, current)
  <2>1. c \in DOMAIN parent' /\ parent'[c] # NoNode
    BY <1>2, ArenaAssumption DEF TypeOK
  <2> QED BY <1>2, <1>4, <1>5, <2>1, AncStep
<1>7. Anc(parent, current) \subseteq Live
  BY AncDomain DEF Live
<1>8. IsTree'
  <2>1. ASSUME NEW n \in Live', NEW m \in Live'
        PROVE  m \in children'[n] <=> parent'[m] = n
    <3>1. (n \in Live \/ n = c) /\ (m \in Live \/ m = c)
      BY <1>2 DEF Live
    <3>2. n \in Live /\ m \in Live => (m \in children[n] <=> parent[m] = n)
      BY DEF IsTree
    <3>3. n \in Live => c \notin children[n]
      BY <1>2 DEF TypeOK
    <3>4. m \in Live => parent[m] # c
      BY <1>2, ArenaAssumption DEF TypeOK
    <3>5. children'[n] = IF n = c THEN {}
                         ELSE IF n = current THEN children[n] \cup {c}
                         ELSE children[n]
      BY <1>2, <3>1 DEF Push
    <3>6. CASE n = c
      BY <1>2, <3>1, <3>4, <3>5, <3>6
    <3>7. CASE n # c
      BY <1>2, <3>1, <3>2, <3>3, <3>5, <3>7
    <3> QED BY <3>6, <3>7
  <2>2. (\A n \in Live : lastChild[n] \in children[n] \cup {NoNode})'
    BY <1>2 DEF Push, IsTree, TypeOK, Live
  <2>3. (\A n \in Live : parent[n] = NoNode <=> n = root)'
    BY <1>2, ArenaAssumption DEF Push, IsTree, TypeOK, Live
  <2>4. AllRooted'
    BY <1>2, <1>5, <1>6 DEF Push, IsTree, AllRooted, Live
  <2> QED BY <2>1, <2>2, <2>3, <2>4 DEF IsTree
<1>9. SeqOrdered'
  BY <1>2 DEF Push, SeqOrdered, TypeOK, Live
<1>10. PathExact'
  BY <1>2, <1>5, <1>6, <1>7 DEF Push, PathExact, TypeOK, Live
<1>11. RedoRetracesPath'
  <2> SUFFICES ASSUME NEW n \in Live', onPath'[n], n # root'
               PROVE  lastChild'[parent'[n]] = n
    BY DEF RedoRetracesPath
  <2>1. CASE n = c
    BY <1>2, <2>1 DEF Push
  <2>2. CASE n # c
    <3>1. n \in Live /\ onPath[n] /\ n # root
      BY <1>2, <2>2 DEF Push, Live
    <3>2. lastChild[parent[n]] = n /\ parent[n] \in Live
      BY <3>1 DEF RedoRetracesPath, IsTree, TypeOK
    <3>3. n \in Anc(parent, current)
      BY <3>1 DEF PathExact
    <3>4. parent[n] # current
      BY <3>1, <3>2, <3>3, ParentAbove, ArenaAssumption DEF TypeOK
    <3> QED BY <1>2, <3>1, <3>2, <3>4 DEF Push
  <2> QED BY <2>1, <2>2
<1>12. RedoReachable'
  BY <1>2, ArenaAssumption DEF Push, RedoReachable, TypeOK, Live
<1> QED BY <1>3, <1>8, <1>9, <1>10, <1>11, <1>12

\* undo_step preserves the invariant.
LEMMA StepUpInv ==
  ASSUME Inv, StepUp
  PROVE  Inv'
<1> USE DEF Inv
<1>1. /\ current \in Live
      /\ parent[current] \in Live
      /\ parent[current] # NoNode
      /\ parent' = parent
      /\ Live' = Live
  BY DEF StepUp, TypeOK, Live
<1>2. TypeOK'
  BY <1>1 DEF StepUp, TypeOK
<1>3. IsTree'
  <2>1. current \in children[parent[current]]
    BY <1>1 DEF IsTree
  <2> QED BY <1>1, <2>1 DEF StepUp, IsTree, AllRooted, TypeOK
<1>4. SeqOrdered'
  BY <1>1 DEF StepUp, SeqOrdered
<1>5. /\ Anc(parent, current) = {current} \cup Anc(parent, parent[current])
      /\ current \notin Anc(parent, parent[current])
  BY <1>1, ParentFun, AncStep, ParentAbove DEF Live
<1>6. PathExact'
  BY <1>1, <1>5 DEF StepUp, PathExact, TypeOK
<1>7. RedoRetracesPath'
  <2> SUFFICES ASSUME NEW n \in Live, onPath'[n], n # root
               PROVE  lastChild'[parent[n]] = n
    BY <1>1 DEF RedoRetracesPath, StepUp
  <2>1. onPath[n] /\ n # current /\ n \in Anc(parent, parent[current])
    BY <1>1, <1>5 DEF StepUp, PathExact, TypeOK
  <2>2. lastChild[parent[n]] = n /\ parent[n] \in Live /\ parent[n] # NoNode
    BY <2>1, ArenaAssumption DEF RedoRetracesPath, IsTree, TypeOK
  <2>3. parent[n] # parent[current]
    BY <2>1, <2>2, ParentAbove
  <2> QED BY <2>2, <2>3 DEF StepUp, TypeOK
<1>8. RedoReachable'
  BY <1>1, ArenaAssumption DEF StepUp, RedoReachable, TypeOK
<1> QED BY <1>2, <1>3, <1>4, <1>6, <1>7, <1>8

\* redo_step preserves the invariant.
LEMMA StepDownInv ==
  ASSUME Inv, StepDown
  PROVE  Inv'
<1> USE DEF Inv
<1> DEFINE child == lastChild[current]
<1>1. /\ current \in Live
      /\ child \in Live
      /\ parent[child] = current
      /\ child # root
      /\ parent' = parent
      /\ Live' = Live
  BY ArenaAssumption DEF StepDown, TypeOK, IsTree, Live
<1>2. TypeOK'
  BY <1>1 DEF StepDown, TypeOK
<1>3. IsTree'
  BY <1>1 DEF StepDown, IsTree, AllRooted
<1>4. SeqOrdered'
  BY <1>1 DEF StepDown, SeqOrdered
<1>5. Anc(parent, child) = {child} \cup Anc(parent, current)
  BY <1>1, ParentFun, AncStep, ArenaAssumption DEF Live, TypeOK
<1>6. PathExact'
  BY <1>1, <1>5 DEF StepDown, PathExact, TypeOK
<1>7. RedoRetracesPath'
  BY <1>1 DEF StepDown, RedoRetracesPath, TypeOK
<1>8. RedoReachable'
  BY <1>1 DEF StepDown, RedoReachable
<1> QED BY <1>2, <1>3, <1>4, <1>6, <1>7, <1>8

(***************************************************************************)
(* The first loop of retarget_current stops: the walk from t meets a       *)
(* flagged node below which nothing is flagged.                            *)
(***************************************************************************)
LEMMA ForkExists ==
  ASSUME Inv, NEW t \in Live
  PROVE  /\ Fork(t) \in Anc(parent, t)
         /\ onPath[Fork(t)]
         /\ \A k \in Anc(parent, t) : onPath[k] => k \in Anc(parent, Fork(t))
<1> USE DEF Inv
<1> DEFINE IsFork(f) ==
      onPath[f] /\ \A k \in Anc(parent, t) : onPath[k] => k \in Anc(parent, f)
<1>1. SUFFICES \E f \in Anc(parent, t) : IsFork(f)
  BY <1>1 DEF Fork
<1>2. SUFFICES ASSUME \A f \in Anc(parent, t) : ~IsFork(f) PROVE FALSE
  OBVIOUS
<1> DEFINE J == {m \in Anc(parent, t) :
                   \A k \in Anc(parent, t) : m \in Anc(parent, k) => ~onPath[k]}
<1>3. IsParent(parent) /\ Anc(parent, t) \subseteq Live /\ t \in Anc(parent, t)
  BY ParentFun, AncDomain, AncSelf DEF Live
<1>4. \A k, m \in Live : k \in Anc(parent, m) /\ m \in Anc(parent, k) => k = m
  <2> SUFFICES ASSUME NEW k \in Live, NEW m \in Live,
                      k \in Anc(parent, m), m \in Anc(parent, k), k # m
               PROVE  FALSE
    OBVIOUS
  <2>1. seq[k] < seq[m] /\ seq[m] < seq[k] BY AncBefore
  <2>2. seq[k] \in Nat /\ seq[m] \in Nat BY DEF TypeOK
  <2> QED BY <2>1, <2>2
<1>5. t \in J
  <2>1. ~onPath[t] BY <1>2, <1>3
  <2>2. \A k \in Anc(parent, t) : t \in Anc(parent, k) => k = t BY <1>3, <1>4
  <2> QED BY <1>3, <2>1, <2>2
<1>6. ASSUME NEW m \in J PROVE parent[m] \in J \cup {NoNode}
  <2> SUFFICES ASSUME parent[m] # NoNode PROVE parent[m] \in J
    OBVIOUS
  <2>1. m \in Live /\ parent[m] \in Anc(parent, t) /\ parent[m] \in Live
    BY <1>3, AncClosed
  <2>2. Anc(parent, m) = {m} \cup Anc(parent, parent[m])
    BY <1>3, <2>1, AncStep DEF Live
  <2>3. ~onPath[m]
    BY <2>2
  <2>4. \A k \in Anc(parent, t) : onPath[k] => k \in Anc(parent, parent[m])
    <3> SUFFICES ASSUME NEW k \in Anc(parent, t), onPath[k]
                 PROVE  k \in Anc(parent, parent[m])
      OBVIOUS
    <3>1. m \in Anc(parent, k) \/ k \in Anc(parent, m)
      BY <1>3, AncLinear DEF Live
    <3> QED BY <2>2, <2>3, <3>1
  <2>5. ~onPath[parent[m]] BY <1>2, <2>1, <2>4
  <2>6. ASSUME NEW k \in Anc(parent, t), parent[m] \in Anc(parent, k)
        PROVE  ~onPath[k]
    <3>1. CASE k \in Anc(parent, parent[m])
      <4>1. k = parent[m] BY <1>3, <1>4, <2>1, <2>6, <3>1
      <4> QED BY <2>5, <4>1
    <3>2. CASE k \notin Anc(parent, parent[m]) BY <2>4, <3>2
    <3> QED BY <3>1, <3>2
  <2> QED BY <2>1, <2>6
<1>7. Anc(parent, t) \subseteq J
  <2>1. J \in SUBSET DOMAIN parent BY <1>3 DEF Live
  <2> HIDE DEF J
  <2> QED BY <1>5, <1>6, <2>1, AncLeast
<1>8. root \in Anc(parent, t) /\ root \in Anc(parent, root) /\ onPath[root]
  <2>1. root \in Live /\ current \in Live BY DEF TypeOK
  <2> QED BY <2>1, AncSelf DEF Live, IsTree, AllRooted, PathExact
<1> QED BY <1>7, <1>8

\* Relinking along a walk makes every parent on it name its child on it.
LEMMA RelinkedFacts ==
  ASSUME Inv, NEW t \in Live, NEW S \in SUBSET Anc(parent, t)
  PROVE  /\ Relinked(S) \in [Live -> Live \cup {NoNode}]
         /\ \A n \in Live : Relinked(S)[n] \in children[n] \cup {NoNode}
         /\ \A n \in S : parent[n] # NoNode => Relinked(S)[parent[n]] = n
         /\ \A n \in Live : (\A m \in S : parent[m] # n)
                              => Relinked(S)[n] = lastChild[n]
         /\ \A n \in Live : children[n] # {} => Relinked(S)[n] # NoNode
<1> USE DEF Inv
<1>1. S \subseteq Live BY AncDomain DEF Live
<1>2. ASSUME NEW n \in Live, \E m \in S : parent[m] = n
      PROVE  Relinked(S)[n] \in S /\ parent[Relinked(S)[n]] = n
  BY <1>2 DEF Relinked
<1>3. ASSUME NEW n \in Live, ~\E m \in S : parent[m] = n
      PROVE  Relinked(S)[n] = lastChild[n]
  BY <1>3 DEF Relinked
<1>4. ASSUME NEW n \in Live
      PROVE  /\ Relinked(S)[n] \in children[n] \cup {NoNode}
             /\ Relinked(S)[n] \in Live \cup {NoNode}
             /\ children[n] # {} => Relinked(S)[n] # NoNode
  <2>1. CASE \E m \in S : parent[m] = n
    <3>1. Relinked(S)[n] \in Live /\ parent[Relinked(S)[n]] = n
      BY <1>1, <1>2, <2>1
    <3> QED BY <3>1, ArenaAssumption DEF IsTree, TypeOK
  <2>2. CASE ~\E m \in S : parent[m] = n
    BY <1>3, <2>2 DEF IsTree, TypeOK, RedoReachable
  <2> QED BY <2>1, <2>2
<1>5. ASSUME NEW n \in S, parent[n] # NoNode PROVE Relinked(S)[parent[n]] = n
  <2>1. parent[n] \in Live /\ n \in Live BY <1>1, <1>5 DEF TypeOK
  <2>2. /\ Relinked(S)[parent[n]] \in S
        /\ parent[Relinked(S)[parent[n]]] = parent[n]
    BY <1>2, <2>1
  <2> QED BY <1>5, <2>2, AncOneChild
<1>6. Relinked(S) \in [Live -> Live \cup {NoNode}]
  BY <1>4 DEF Relinked
<1> QED BY <1>3, <1>4, <1>5, <1>6

\* retarget_current preserves the invariant.
LEMMA RetargetInv ==
  ASSUME Inv, NEW t \in Live, Retarget(t), pc' \in {"idle", "push", "move"}
  PROVE  Inv'
<1> USE DEF Inv
<1> DEFINE f == Fork(t)
<1>1. /\ f \in Anc(parent, t)
      /\ onPath[f]
      /\ \A k \in Anc(parent, t) : onPath[k] => k \in Anc(parent, f)
  BY ForkExists
<1> HIDE DEF f
<1>2. /\ IsParent(parent)
      /\ Anc(parent, t) \subseteq Live
      /\ Anc(parent, f) \subseteq Anc(parent, t)
      /\ Anc(parent, current) \subseteq Live
  BY <1>1, ParentFun, AncDomain, AncTrans DEF Live
<1>3. Anc(parent, f) \subseteq Anc(parent, current)
  <2>1. f \in Anc(parent, current) BY <1>1, <1>2 DEF PathExact
  <2> QED BY <1>2, <2>1, AncTrans
<1>4. Live' = Live /\ parent' = parent /\ current' = t
  BY DEF Retarget, Live
<1>5. \A n \in Live : onPath'[n] <=> n \in Anc(parent, t)
  <2> SUFFICES ASSUME NEW n \in Live PROVE onPath'[n] <=> n \in Anc(parent, t)
    OBVIOUS
  <2>1. onPath'[n] <=> /\ onPath[n] \/ n \in Anc(parent, t) \ Anc(parent, f)
                       /\ n \notin Anc(parent, current) \ Anc(parent, f)
    BY DEF Retarget, Joining, Leaving, f
  <2>2. onPath[n] <=> n \in Anc(parent, current)
    BY DEF PathExact
  <2> QED BY <1>1, <1>2, <1>3, <2>1, <2>2
<1>6. Joining(t) \in SUBSET Anc(parent, t) /\ lastChild' = Relinked(Joining(t))
  BY DEF Joining, Retarget
<1>7. onPath' \in [Live -> BOOLEAN]
  BY DEF Retarget, TypeOK
<1>8. TypeOK'
  BY <1>4, <1>6, <1>7, RelinkedFacts DEF TypeOK, Retarget
<1>9. IsTree'
  BY <1>4, <1>6, RelinkedFacts DEF IsTree, AllRooted, Retarget
<1>10. SeqOrdered'
  BY <1>4 DEF SeqOrdered, Retarget
<1>11. PathExact'
  BY <1>4, <1>5 DEF PathExact
<1>12. RedoRetracesPath'
  <2> SUFFICES ASSUME NEW n \in Live, onPath'[n], n # root
               PROVE  lastChild'[parent[n]] = n
    BY <1>4 DEF RedoRetracesPath, Retarget
  <2>1. n \in Anc(parent, t) /\ parent[n] # NoNode /\ parent[n] \in Live
    BY <1>5 DEF IsTree, TypeOK
  <2>2. CASE n \in Joining(t)
    BY <1>6, <2>1, <2>2, RelinkedFacts
  <2>3. CASE n \notin Joining(t)
    <3>1. n \in Anc(parent, current)
      BY <1>3, <2>1, <2>3 DEF Joining, f
    <3>2. lastChild[parent[n]] = n
      BY <3>1 DEF PathExact, RedoRetracesPath
    <3>3. \A m \in Joining(t) : parent[m] # parent[n]
      BY <1>6, <2>1, <2>3, AncOneChild
    <3> QED BY <1>6, <2>1, <3>2, <3>3, RelinkedFacts
  <2> QED BY <2>2, <2>3
<1>13. RedoReachable'
  BY <1>4, <1>6, RelinkedFacts DEF RedoReachable, Retarget
<1> QED BY <1>8, <1>9, <1>10, <1>11, <1>12, <1>13

\* A reload preserves the invariant.
LEMMA ReloadInv ==
  ASSUME Inv, Reload
  PROVE  Inv'
<1> USE DEF Inv
<1>1. /\ Live' = Live /\ parent' = parent /\ current' = current
      /\ current \in Live
      /\ Anc(parent, current) \in SUBSET Anc(parent, current)
  BY DEF Reload, Live, TypeOK
<1> DEFINE R == Relinked(Anc(parent, current))
<1>2. \A n \in Live : lastChild'[n] = R[n]
  BY <1>1, RelinkedFacts, ArenaAssumption DEF Reload, TypeOK
<1>3. \A n \in Live : onPath'[n] <=> onPath[n]
  BY DEF Reload, PathExact
<1>4. TypeOK'
  <2>1. lastChild' \in [Live -> Live \cup {NoNode}]
    BY DEF Reload, TypeOK
  <2>2. onPath' \in [Live -> BOOLEAN]
    BY DEF Reload
  <2> QED BY <1>1, <2>1, <2>2 DEF Reload, TypeOK
<1>5. IsTree'
  BY <1>1, <1>2, RelinkedFacts DEF Reload, IsTree, AllRooted
<1>6. SeqOrdered'
  BY <1>1 DEF Reload, SeqOrdered
<1>7. PathExact'
  BY <1>1, <1>3 DEF PathExact
<1>8. RedoRetracesPath'
  <2> SUFFICES ASSUME NEW n \in Live, onPath[n], n # root
               PROVE  lastChild'[parent[n]] = n
    BY <1>1, <1>3 DEF RedoRetracesPath, Reload
  <2>1. n \in Anc(parent, current) /\ parent[n] # NoNode /\ parent[n] \in Live
    BY DEF PathExact, IsTree, TypeOK
  <2> QED BY <1>1, <1>2, <2>1, RelinkedFacts
<1>9. RedoReachable'
  BY <1>1, <1>2, RelinkedFacts DEF Reload, RedoReachable
<1> QED BY <1>4, <1>5, <1>6, <1>7, <1>8, <1>9

\* Freeing a leaf changes no other node's walk.
LEMMA LeafRemoved ==
  ASSUME Inv, NEW leaf \in Live, children[leaf] = {},
         NEW q, q = Restricted(parent, Live \ {leaf})
  PROVE  /\ DOMAIN q = Live \ {leaf}
         /\ \A n \in Live \ {leaf} : q[n] = parent[n] /\ q[n] # leaf
         /\ \A n \in Live \ {leaf} : Anc(q, n) = Anc(parent, n)
<1> USE DEF Inv
<1>1. /\ DOMAIN q = Live \ {leaf}
      /\ \A n \in Live \ {leaf} : q[n] = parent[n]
  BY DEF Restricted
<1>2. \A n \in Live : parent[n] # leaf
  BY DEF IsTree
<1>3. IsParent(parent) BY ParentFun
<1>4. IsParent(q) BY <1>1, <1>2, <1>3 DEF IsParent, Live
<1>5. ASSUME NEW n \in Live \ {leaf} PROVE Anc(q, n) = Anc(parent, n)
  <2>1. Anc(parent, n) \subseteq Live BY AncDomain DEF Live
  <2>2. leaf \notin Anc(parent, n)
    BY <1>2, <1>3, <2>1, AncEntered DEF Live
  <2> QED BY <1>1, <1>3, <1>4, <2>1, <2>2, AncAgree DEF Live
<1> QED BY <1>1, <1>2, <1>5

\* pop_committed preserves the invariant.
LEMMA PopInv ==
  ASSUME Inv, Pop
  PROVE  Inv'
<1> USE DEF Inv
<1> DEFINE par == parent[current]
           rest == Live \ {current}
           siblings == children[par] \ {current}
<1>1. /\ current \in Live /\ children[current] = {}
      /\ par \in Live /\ par # NoNode /\ par # current
      /\ current \in children[par]
      /\ parent' = Restricted(parent, rest)
      /\ current' = par
      /\ root' = root /\ root # current
  BY DEF Pop, TypeOK, IsTree
<1>2. /\ Live' = rest
      /\ \A n \in rest : parent'[n] = parent[n] /\ parent'[n] # current
      /\ \A n \in rest : Anc(parent', n) = Anc(parent, n)
  BY <1>1, LeafRemoved DEF Live
<1>3. PICK s \in siblings \cup {NoNode} :
        /\ IsLast(s, siblings)
        /\ lastChild' = [n \in rest |-> IF n = par THEN s ELSE lastChild[n]]
  BY DEF Pop
<1>4. siblings \subseteq rest /\ (siblings # {} => s # NoNode)
  BY <1>1, <1>3, ArenaAssumption DEF IsLast, TypeOK
<1>5. \A n \in rest : n # par => current \notin children[n]
  BY <1>1 DEF IsTree
<1>6. /\ children' = [n \in rest |-> IF n = par THEN siblings ELSE children[n]]
      /\ onPath' = Restricted(onPath, rest)
      /\ seq' = Restricted(seq, rest)
      /\ nextSeq' = SeqAfterPop
      /\ undoLevels' = undoLevels /\ pc' = pc
  BY DEF Pop
<1>7. \A n \in rest : n # par => lastChild[n] # current
  BY <1>5, ArenaAssumption DEF IsTree, TypeOK
<1>8. SeqAfterPop \in Nat /\ \A n \in rest : seq[n] < SeqAfterPop
  <2>1. seq[current] \in Nat /\ seq[current] < nextSeq /\ nextSeq \in Nat
    BY <1>1 DEF TypeOK, SeqOrdered
  <2>2. ASSUME NEW n \in rest
        PROVE  seq[n] \in Nat /\ seq[n] < nextSeq /\ seq[n] # seq[current]
    BY <1>1 DEF TypeOK, SeqOrdered
  <2> QED BY <2>1, <2>2 DEF SeqAfterPop
<1>9. TypeOK'
  <2>1. parent' \in [rest -> rest \cup {NoNode}]
    BY <1>1, <1>2 DEF TypeOK, Restricted
  <2>2. children' \in [rest -> SUBSET rest]
    BY <1>4, <1>5, <1>6 DEF TypeOK
  <2>3. lastChild' \in [rest -> rest \cup {NoNode}]
    BY <1>3, <1>4, <1>7 DEF TypeOK
  <2>4. onPath' \in [rest -> BOOLEAN] /\ seq' \in [rest -> Nat]
    BY <1>6 DEF TypeOK, Restricted
  <2> QED BY <1>1, <1>2, <1>6, <1>8, <2>1, <2>2, <2>3, <2>4 DEF TypeOK
<1>10. IsTree'
  <2>1. ASSUME NEW n \in rest, NEW m \in rest
        PROVE  m \in children'[n] <=> parent'[m] = n
    BY <1>2, <1>6 DEF IsTree
  <2>2. ASSUME NEW n \in rest PROVE lastChild'[n] \in children'[n] \cup {NoNode}
    BY <1>3, <1>6 DEF IsTree
  <2>3. ASSUME NEW n \in rest PROVE parent'[n] = NoNode <=> n = root
    BY <1>2 DEF IsTree
  <2>4. ASSUME NEW n \in rest PROVE root \in Anc(parent', n)
    BY <1>2 DEF IsTree, AllRooted
  <2> QED BY <1>1, <1>2, <2>1, <2>2, <2>3, <2>4 DEF IsTree, AllRooted
<1>11. SeqOrdered'
  <2>1. \A n \in rest : seq'[n] = seq[n] BY <1>6 DEF Restricted
  <2>2. \A n \in rest : parent'[n] # NoNode => parent'[n] \in rest
    BY <1>2 DEF TypeOK
  <2> QED BY <1>2, <1>6, <1>8, <2>1, <2>2 DEF SeqOrdered
<1>12. Anc(parent, current) = {current} \cup Anc(parent, par)
  BY <1>1, ParentFun, AncStep DEF Live
<1>13. PathExact'
  BY <1>1, <1>2, <1>6, <1>12 DEF PathExact, Restricted
<1>14. RedoRetracesPath'
  <2> SUFFICES ASSUME NEW n \in rest, onPath'[n], n # root
               PROVE  lastChild'[parent'[n]] = n
    BY <1>1, <1>2 DEF RedoRetracesPath
  <2>1. onPath[n] /\ n \in Anc(parent, par)
    BY <1>6, <1>12 DEF PathExact, Restricted
  <2>2. /\ lastChild[parent[n]] = n
        /\ parent[n] # NoNode /\ parent[n] \in rest /\ parent'[n] = parent[n]
    BY <1>2, <2>1 DEF RedoRetracesPath, IsTree, TypeOK
  <2>3. parent[n] # par
    BY <2>1, <2>2, ParentAbove
  <2> QED BY <1>3, <2>2, <2>3
<1>15. RedoReachable'
  BY <1>2, <1>3, <1>4, <1>6 DEF RedoReachable
<1> QED BY <1>9, <1>10, <1>11, <1>13, <1>14, <1>15

\* detach_leaf, inside cap, preserves the invariant.
LEMMA DropLeafInv ==
  ASSUME Inv, NEW leaf \in Live, DropLeaf(leaf)
  PROVE  Inv'
<1> USE DEF Inv
<1> DEFINE par == parent[leaf]
           rest == Live \ {leaf}
           siblings == children[par] \ {leaf}
<1>1. /\ children[leaf] = {} /\ ~onPath[leaf]
      /\ parent' = Restricted(parent, rest)
      /\ current' = current /\ root' = root /\ nextSeq' = nextSeq
      /\ undoLevels' = undoLevels /\ pc' = pc
  BY DEF DropLeaf, OffPathLeaves, Leaves
<1>2. /\ Live' = rest
      /\ \A n \in rest : parent'[n] = parent[n] /\ parent'[n] # leaf
      /\ \A n \in rest : Anc(parent', n) = Anc(parent, n)
  BY <1>1, LeafRemoved DEF Live
<1>3. current \in rest /\ root \in rest
  <2>1. current \in Live /\ root \in Live /\ current \in Anc(parent, current)
    BY AncSelf DEF TypeOK, Live
  <2>2. root \in Anc(parent, current)
    BY <2>1 DEF IsTree, AllRooted
  <2> QED BY <1>1, <2>1, <2>2 DEF PathExact
<1>4. par \in rest /\ par # NoNode /\ leaf \in children[par]
  BY <1>1, <1>3 DEF IsTree, TypeOK
<1>5. PICK s \in siblings \cup {NoNode} :
        /\ IsLast(s, siblings)
        /\ lastChild' = [n \in rest |-> IF n = par /\ lastChild[n] = leaf
                                        THEN s ELSE lastChild[n]]
  BY DEF DropLeaf
<1>6. siblings \subseteq rest /\ (siblings # {} => s # NoNode)
  BY <1>4, <1>5, ArenaAssumption DEF IsLast, TypeOK
<1>7. \A n \in rest : n # par => leaf \notin children[n]
  BY DEF IsTree
<1>8. /\ children' = [n \in rest |-> IF n = par THEN siblings ELSE children[n]]
      /\ onPath' = Restricted(onPath, rest)
      /\ seq' = Restricted(seq, rest)
  BY DEF DropLeaf
<1>9. \A n \in rest : n # par => lastChild[n] # leaf
  BY <1>7, ArenaAssumption DEF IsTree, TypeOK
<1>10. TypeOK'
  <2>1. parent' \in [rest -> rest \cup {NoNode}]
    BY <1>1, <1>2 DEF TypeOK, Restricted
  <2>2. children' \in [rest -> SUBSET rest]
    BY <1>6, <1>7, <1>8 DEF TypeOK
  <2>3. lastChild' \in [rest -> rest \cup {NoNode}]
    BY <1>5, <1>6, <1>9 DEF TypeOK
  <2>4. onPath' \in [rest -> BOOLEAN] /\ seq' \in [rest -> Nat]
    BY <1>8 DEF TypeOK, Restricted
  <2> QED BY <1>1, <1>2, <1>3, <1>8, <2>1, <2>2, <2>3, <2>4 DEF TypeOK
<1>11. IsTree'
  <2>1. ASSUME NEW n \in rest, NEW m \in rest
        PROVE  m \in children'[n] <=> parent'[m] = n
    BY <1>2, <1>8 DEF IsTree
  <2>2. ASSUME NEW n \in rest PROVE lastChild'[n] \in children'[n] \cup {NoNode}
    BY <1>5, <1>8, <1>9 DEF IsTree
  <2>3. ASSUME NEW n \in rest PROVE parent'[n] = NoNode <=> n = root
    BY <1>2 DEF IsTree
  <2>4. ASSUME NEW n \in rest PROVE root \in Anc(parent', n)
    BY <1>2 DEF IsTree, AllRooted
  <2> QED BY <1>1, <1>2, <2>1, <2>2, <2>3, <2>4 DEF IsTree, AllRooted
<1>12. SeqOrdered'
  <2>1. \A n \in rest : seq'[n] = seq[n] BY <1>8 DEF Restricted
  <2>2. \A n \in rest : seq'[n] < nextSeq'
    BY <1>1, <2>1 DEF SeqOrdered
  <2>3. \A n, m \in rest : seq'[n] = seq'[m] => n = m
    BY <2>1 DEF SeqOrdered
  <2>4. ASSUME NEW n \in rest, parent'[n] # NoNode PROVE seq'[parent'[n]] < seq'[n]
    <3>1. parent'[n] = parent[n] /\ parent[n] \in rest
      BY <1>2, <2>4 DEF TypeOK
    <3> QED BY <2>1, <2>4, <3>1 DEF SeqOrdered
  <2> QED BY <1>2, <2>2, <2>3, <2>4 DEF SeqOrdered
<1>13. PathExact'
  BY <1>1, <1>2, <1>3, <1>8 DEF PathExact, Restricted
<1>14. RedoRetracesPath'
  <2> SUFFICES ASSUME NEW n \in rest, onPath'[n], n # root
               PROVE  lastChild'[parent'[n]] = n
    BY <1>1, <1>2 DEF RedoRetracesPath
  <2>1. onPath[n] BY <1>8 DEF Restricted
  <2>2. lastChild[parent[n]] = n /\ parent[n] \in rest /\ parent'[n] = parent[n]
    BY <1>2, <2>1 DEF RedoRetracesPath, IsTree, TypeOK
  <2> QED BY <1>5, <2>2
<1>15. RedoReachable'
  BY <1>2, <1>5, <1>6, <1>8, ArenaAssumption DEF RedoReachable, TypeOK
<1> QED BY <1>10, <1>11, <1>12, <1>13, <1>14, <1>15

\* prune_root_side preserves the invariant: the walks below the promoted
\* child lose the old root and nothing else.
LEMMA PruneRootInv ==
  ASSUME Inv, NEW child \in Live, PruneRoot(child)
  PROVE  Inv'
<1> USE DEF Inv
<1> DEFINE rest == Live \ PrunedWith(child)
<1>1. /\ child \in children[root] /\ onPath[child]
      /\ parent' = [n \in rest |-> IF n = child THEN NoNode ELSE parent[n]]
      /\ children' = Restricted(children, rest)
      /\ lastChild' = Restricted(lastChild, rest)
      /\ onPath' = Restricted(onPath, rest)
      /\ seq' = Restricted(seq, rest)
      /\ root' = child /\ current' = current /\ nextSeq' = nextSeq
      /\ undoLevels' = undoLevels /\ pc' = pc
  BY DEF PruneRoot
<1>2. /\ root \in Live /\ current \in Live
      /\ parent[child] = root /\ child # root
      /\ IsParent(parent) /\ Live' = rest /\ root # NoNode
      /\ \A n \in Live : Anc(parent, n) \subseteq Live
  BY <1>1, ParentFun, AncDomain, ArenaAssumption DEF TypeOK, IsTree, Live
<1>3. \A n \in rest : child \in Anc(parent, n) /\ n # root
  <2> SUFFICES ASSUME NEW n \in rest PROVE child \in Anc(parent, n) /\ n # root
    OBVIOUS
  <2>1. n \in Live /\ n # root BY DEF PrunedWith
  <2>2. root \in Anc(parent, n) BY <2>1 DEF IsTree, AllRooted
  <2>3. PICK c \in Anc(parent, n) : parent[c] = root
    BY <1>2, <2>1, <2>2, AncEntered DEF Live
  <2>4. c \in children[root] BY <1>2, <2>1, <2>3 DEF IsTree
  <2>5. c = child BY <2>1, <2>3, <2>4 DEF PrunedWith
  <2> QED BY <2>1, <2>3, <2>5
<1>4. \A n \in Live : child \in Anc(parent, n) => n \in rest
  <2> SUFFICES ASSUME NEW n \in Live, child \in Anc(parent, n) PROVE n \in rest
    OBVIOUS
  <2>1. n # root
    <3>1. Anc(parent, root) = {root}
      BY <1>2, AncStep DEF Live, IsTree
    <3> QED BY <1>2, <3>1
  <2>2. ASSUME NEW c \in children[root] \ {child}, c \in Anc(parent, n) PROVE FALSE
    <3>1. c \in Live /\ parent[c] = parent[child] /\ parent[child] # NoNode
      BY <1>2 DEF IsTree, TypeOK
    <3> QED BY <2>2, <3>1, AncOneChild
  <2> QED BY <2>1, <2>2 DEF PrunedWith
<1>5. child \in rest /\ current \in rest
  <2>1. child \in Anc(parent, child) BY AncSelf DEF Live
  <2>2. child \in Anc(parent, current) BY <1>1 DEF PathExact
  <2> QED BY <1>2, <1>4, <2>1, <2>2
<1>6. \A n \in rest : n # child => parent[n] \in rest
  <2> SUFFICES ASSUME NEW n \in rest, n # child PROVE parent[n] \in rest
    OBVIOUS
  <2>1. n \in Live /\ n # root /\ child \in Anc(parent, n) BY <1>3
  <2>2. parent[n] # NoNode /\ parent[n] \in Live BY <2>1 DEF IsTree, TypeOK
  <2>3. child \in Anc(parent, parent[n]) BY <1>2, <2>1, <2>2, AncStep DEF Live
  <2> QED BY <1>4, <2>2, <2>3
<1>7. IsParent(parent')
  BY <1>1, <1>2, <1>6 DEF IsParent, Live
<1>8. \A n \in rest : Anc(parent', n) = Anc(parent, n) \ {root}
  <2> SUFFICES ASSUME NEW n \in rest
               PROVE  Anc(parent', n) = Anc(parent, n) \ {root}
    OBVIOUS
  <2> DEFINE T == (Anc(parent, n) \ {root}) \cap rest
             U == Anc(parent', n) \cup {root}
  <2>1. n \in Anc(parent, n) /\ n \in Anc(parent', n) /\ n # root
    BY <1>1, <1>3, AncSelf DEF Live
  <2>2. Anc(parent', n) \subseteq T
    <3>1. T \in SUBSET DOMAIN parent' /\ n \in T BY <1>1, <2>1
    <3>2. ASSUME NEW k \in T PROVE parent'[k] \in T \cup {NoNode}
      <4>1. CASE k = child BY <1>1, <4>1
      <4>2. CASE k # child
        <5>1. parent'[k] = parent[k] /\ parent[k] \in rest BY <1>1, <1>6, <4>2
        <5>2. parent[k] # NoNode BY <1>2, <5>1, ArenaAssumption DEF TypeOK
        <5>3. parent[k] \in Anc(parent, n) BY <1>2, <5>2, AncClosed
        <5> QED BY <1>3, <5>1, <5>3
      <4> QED BY <4>1, <4>2
    <3> HIDE DEF T
    <3> QED BY <3>1, <3>2, AncLeast
  <2>3. Anc(parent, n) \subseteq U
    <3>1. Anc(parent', n) \subseteq rest BY <1>1, AncDomain
    <3>2. U \in SUBSET DOMAIN parent /\ n \in U BY <1>2, <2>1, <3>1 DEF Live
    <3>3. ASSUME NEW k \in U PROVE parent[k] \in U \cup {NoNode}
      <4>1. CASE k = root BY <4>1 DEF IsTree, TypeOK
      <4>2. CASE k = child BY <1>2, <4>2
      <4>3. CASE k # root /\ k # child
        <5>1. k \in Anc(parent', n) /\ k \in rest BY <3>1, <4>3
        <5>2. parent'[k] = parent[k] /\ parent[k] \in rest
          BY <1>1, <1>6, <4>3, <5>1
        <5>3. parent'[k] # NoNode BY <5>2, ArenaAssumption DEF TypeOK
        <5>4. parent'[k] \in Anc(parent', n) BY <1>7, <5>1, <5>3, AncClosed
        <5> QED BY <5>2, <5>4
      <4> QED BY <4>1, <4>2, <4>3
    <3> HIDE DEF U
    <3> QED BY <3>2, <3>3, AncLeast
  <2> QED BY <2>2, <2>3
<1>9. \A n \in rest : children[n] \subseteq rest
  <2> SUFFICES ASSUME NEW n \in rest, NEW m \in children[n] PROVE m \in rest
    OBVIOUS
  <2>1. m \in Live /\ parent[m] = n BY DEF IsTree, TypeOK
  <2>2. child \in Anc(parent, m)
    BY <1>2, <1>3, <2>1, AncStep, ArenaAssumption DEF Live, TypeOK
  <2> QED BY <1>4, <2>1, <2>2
<1>10. TypeOK'
  <2>1. parent' \in [rest -> rest \cup {NoNode}]
    BY <1>1, <1>6
  <2>2. children' \in [rest -> SUBSET rest]
    BY <1>1, <1>9 DEF Restricted
  <2>3. lastChild' \in [rest -> rest \cup {NoNode}]
    BY <1>1, <1>9 DEF Restricted, IsTree
  <2>4. onPath' \in [rest -> BOOLEAN] /\ seq' \in [rest -> Nat]
    BY <1>1 DEF TypeOK, Restricted
  <2> QED BY <1>1, <1>2, <1>5, <2>1, <2>2, <2>3, <2>4 DEF TypeOK
<1>11. IsTree'
  <2>1. ASSUME NEW n \in rest, NEW m \in rest
        PROVE  m \in children'[n] <=> parent'[m] = n
    BY <1>1, <1>2, <1>3, ArenaAssumption DEF IsTree, Restricted, TypeOK
  <2>2. ASSUME NEW n \in rest PROVE lastChild'[n] \in children'[n] \cup {NoNode}
    BY <1>1 DEF IsTree, Restricted
  <2>3. ASSUME NEW n \in rest PROVE parent'[n] = NoNode <=> n = child
    BY <1>1, <1>3 DEF IsTree
  <2>4. ASSUME NEW n \in rest PROVE child \in Anc(parent', n)
    BY <1>2, <1>3, <1>8
  <2> QED BY <1>1, <1>2, <2>1, <2>2, <2>3, <2>4 DEF IsTree, AllRooted
<1>12. SeqOrdered'
  <2>1. \A n \in rest : seq'[n] = seq[n] BY <1>1 DEF Restricted
  <2>2. \A n \in rest : seq'[n] < nextSeq'
    BY <1>1, <2>1 DEF SeqOrdered
  <2>3. \A n, m \in rest : seq'[n] = seq'[m] => n = m
    BY <2>1 DEF SeqOrdered
  <2>4. ASSUME NEW n \in rest, parent'[n] # NoNode PROVE seq'[parent'[n]] < seq'[n]
    <3>1. parent'[n] = parent[n] /\ parent[n] \in rest
      BY <1>1, <1>6, <2>4
    <3> QED BY <2>1, <2>4, <3>1 DEF SeqOrdered
  <2> QED BY <1>2, <2>2, <2>3, <2>4 DEF SeqOrdered
<1>13. PathExact'
  BY <1>1, <1>2, <1>3, <1>5, <1>8 DEF PathExact, Restricted
<1>14. RedoRetracesPath'
  <2> SUFFICES ASSUME NEW n \in rest, onPath'[n], n # child
               PROVE  lastChild'[parent'[n]] = n
    BY <1>1, <1>2 DEF RedoRetracesPath
  <2>1. onPath[n] /\ n # root BY <1>1, <1>3 DEF Restricted
  <2> QED BY <1>1, <1>6, <2>1 DEF RedoRetracesPath, Restricted
<1>15. RedoReachable'
  BY <1>1, <1>2 DEF RedoReachable, Restricted
<1> QED BY <1>10, <1>11, <1>12, <1>13, <1>14, <1>15

\* The end of cap, with the clear_redo of push_undo_at, preserves it.
LEMMA CapDoneInv ==
  ASSUME Inv, CapDone
  PROVE  Inv'
<1> USE DEF Inv
<1>0. /\ current' = current /\ root' = root /\ nextSeq' = nextSeq
      /\ undoLevels' = undoLevels /\ pc' = "idle"
  BY DEF CapDone
<1>1. CASE pc # "push"
  <2>1. UNCHANGED links BY <1>1 DEF CapDone
  <2> QED BY <1>0, <2>1 DEF links, TypeOK, IsTree, AllRooted, SeqOrdered, PathExact,
                           RedoRetracesPath, RedoReachable, Live
<1>2. CASE pc = "push"
  <2> DEFINE rest == {m \in Live : m = current \/ current \notin Anc(parent, m)}
  <2>1. /\ parent' = Restricted(parent, rest)
        /\ children' = [n \in rest |-> IF n = current THEN {} ELSE children[n]]
        /\ lastChild' = [n \in rest |-> IF n = current THEN NoNode ELSE lastChild[n]]
        /\ onPath' = Restricted(onPath, rest)
        /\ seq' = Restricted(seq, rest)
    BY <1>2 DEF CapDone, ClearRedo
  <2>2. /\ Live' = rest /\ current \in rest /\ rest \subseteq Live
        /\ IsParent(parent) /\ \A n \in Live : Anc(parent, n) \subseteq Live
    BY <2>1, ParentFun, AncDomain DEF Restricted, TypeOK, Live
  <2>3. \A n \in rest : Anc(parent, n) \subseteq rest
    <3> SUFFICES ASSUME NEW n \in rest, NEW k \in Anc(parent, n),
                        current \in Anc(parent, k)
                 PROVE  k = current
      BY <2>2
    <3>1. current \in Anc(parent, n) BY <2>2, AncTrans
    <3>2. n = current /\ k \in Live BY <2>2, <3>1
    <3>3. seq[k] \in Nat /\ seq[current] \in Nat BY <2>2, <3>2 DEF TypeOK
    <3> QED BY <2>2, <3>2, <3>3, AncBefore
  <2>4. \A n \in rest : parent[n] \in rest \cup {NoNode}
    BY <2>2, <2>3, AncSelf, AncClosed DEF Live
  <2>5. IsParent(parent')
    BY <2>1, <2>2, <2>4 DEF IsParent, Restricted, Live
  <2>6. \A n \in rest : Anc(parent', n) = Anc(parent, n)
    <3> SUFFICES ASSUME NEW n \in rest PROVE Anc(parent', n) = Anc(parent, n)
      OBVIOUS
    <3>1. \A k \in Anc(parent, n) : k \in DOMAIN parent' /\ parent'[k] = parent[k]
      BY <2>1, <2>3 DEF Restricted
    <3> QED BY <2>2, <2>5, <3>1, AncAgree DEF Live
  <2>7. \A n \in rest : n # current => children[n] \subseteq rest
    <3> SUFFICES ASSUME NEW n \in rest, n # current, NEW m \in children[n]
                 PROVE  m \in rest
      OBVIOUS
    <3>1. m \in Live /\ n \in Live /\ parent[m] = n /\ n # NoNode
      BY ArenaAssumption DEF IsTree, TypeOK
    <3>2. Anc(parent, m) = {m} \cup Anc(parent, n)
      BY <2>2, <3>1, AncStep DEF Live
    <3> QED BY <3>1, <3>2
  <2>8. root \in rest
    <3>1. root \in Live /\ Anc(parent, root) = {root}
      BY <2>2, AncStep DEF Live, TypeOK, IsTree
    <3> QED BY <3>1
  <2>9. TypeOK'
    <3>1. parent' \in [rest -> rest \cup {NoNode}]
      BY <2>1, <2>4 DEF Restricted
    <3>2. children' \in [rest -> SUBSET rest]
      BY <2>1, <2>7
    <3>3. lastChild' \in [rest -> rest \cup {NoNode}]
      BY <2>1, <2>7 DEF IsTree
    <3>4. onPath' \in [rest -> BOOLEAN] /\ seq' \in [rest -> Nat]
      BY <2>1 DEF TypeOK, Restricted
    <3> QED BY <1>0, <2>2, <2>8, <3>1, <3>2, <3>3, <3>4 DEF TypeOK
  <2>10. IsTree'
    <3>1. ASSUME NEW n \in rest, NEW m \in rest
          PROVE  m \in children'[n] <=> parent'[m] = n
      <4>1. parent'[m] = parent[m] BY <2>1 DEF Restricted
      <4>2. CASE n = current
        <5>1. parent[m] # current
          <6> SUFFICES ASSUME parent[m] = current PROVE FALSE
            OBVIOUS
          <6>1. current # NoNode BY <2>2, ArenaAssumption DEF TypeOK
          <6>2. m # current
            BY <2>2, <6>1, ParentAbove, AncSelf DEF Live
          <6>3. current \in Anc(parent, m)
            BY <2>2, <6>1, AncSelf, AncClosed DEF Live
          <6> QED BY <6>2, <6>3
        <5> QED BY <2>1, <4>1, <4>2, <5>1
      <4>3. CASE n # current BY <2>1, <4>1, <4>3 DEF IsTree
      <4> QED BY <4>2, <4>3
    <3>2. ASSUME NEW n \in rest PROVE lastChild'[n] \in children'[n] \cup {NoNode}
      BY <2>1 DEF IsTree
    <3>3. ASSUME NEW n \in rest PROVE parent'[n] = NoNode <=> n = root
      BY <2>1 DEF IsTree, Restricted
    <3>4. ASSUME NEW n \in rest PROVE root \in Anc(parent', n)
      BY <2>6 DEF IsTree, AllRooted
    <3> QED BY <1>0, <2>2, <3>1, <3>2, <3>3, <3>4 DEF IsTree, AllRooted
  <2>11. SeqOrdered'
    <3>1. \A n \in rest : seq'[n] = seq[n] /\ parent'[n] = parent[n]
      BY <2>1 DEF Restricted
    <3>2. \A n \in rest : seq'[n] < nextSeq' BY <1>0, <3>1 DEF SeqOrdered
    <3>3. \A n, m \in rest : seq'[n] = seq'[m] => n = m BY <3>1 DEF SeqOrdered
    <3>4. \A n \in rest : parent'[n] # NoNode => seq'[parent'[n]] < seq'[n]
      BY <2>4, <3>1 DEF SeqOrdered
    <3> QED BY <2>2, <3>2, <3>3, <3>4 DEF SeqOrdered
  <2>12. PathExact'
    BY <1>0, <2>1, <2>2, <2>6 DEF PathExact, Restricted
  <2>13. RedoRetracesPath'
    <3> SUFFICES ASSUME NEW n \in rest, onPath'[n], n # root
                 PROVE  lastChild'[parent'[n]] = n
      BY <1>0, <2>2 DEF RedoRetracesPath
    <3>1. onPath[n] /\ parent'[n] = parent[n] BY <2>1 DEF Restricted
    <3>2. /\ lastChild[parent[n]] = n /\ parent[n] # NoNode
          /\ parent[n] \in rest /\ n \in Anc(parent, current)
      BY <2>4, <3>1 DEF RedoRetracesPath, IsTree, PathExact
    <3>3. parent[n] # current BY <2>2, <3>2, ParentAbove
    <3> QED BY <2>1, <3>1, <3>2, <3>3
  <2>14. RedoReachable'
    BY <2>1, <2>2 DEF RedoReachable
  <2> QED BY <2>9, <2>10, <2>11, <2>12, <2>13, <2>14
<1> QED BY <1>1, <1>2

\* clear_all preserves the invariant.
LEMMA ClearAllInv ==
  ASSUME Inv, ClearAll
  PROVE  Inv'
<1> USE DEF Inv
<1>1. /\ parent' = [n \in {current} |-> NoNode]
      /\ children' = [n \in {current} |-> {}]
      /\ lastChild' = [n \in {current} |-> NoNode]
      /\ onPath' = [n \in {current} |-> TRUE]
      /\ seq' = [n \in {current} |-> seq[n]]
      /\ root' = current /\ current' = current /\ nextSeq' = nextSeq
      /\ undoLevels' = undoLevels /\ pc' = pc
      /\ current \in Live
  BY DEF ClearAll, TypeOK, Restricted
<1>2. Live' = {current} /\ current \in Anc(parent', current)
  BY <1>1, AncSelf DEF Live
<1>3. seq[current] \in Nat /\ seq[current] < nextSeq /\ current \in Node
  BY <1>1 DEF TypeOK, SeqOrdered
<1>4. TypeOK' BY <1>1, <1>2, <1>3 DEF TypeOK
<1>5. IsTree' BY <1>1, <1>2, <1>3, ArenaAssumption DEF IsTree, AllRooted
<1>6. SeqOrdered' BY <1>1, <1>2, <1>3 DEF SeqOrdered
<1>7. PathExact' BY <1>1, <1>2 DEF PathExact
<1>8. RedoRetracesPath' /\ RedoReachable'
  BY <1>1, <1>2 DEF RedoRetracesPath, RedoReachable
<1> QED BY <1>4, <1>5, <1>6, <1>7, <1>8

\* Every operation on the tree preserves the invariant.
LEMMA NextInv == Inv /\ [ArenaNext]_arenaVars => Inv'
<1> SUFFICES ASSUME Inv, [ArenaNext]_arenaVars PROVE Inv'
  OBVIOUS
<1>1. CASE \E c \in Node : Push(c) BY <1>1, PushInv
<1>2. CASE StepUp BY <1>2, StepUpInv
<1>3. CASE StepDown BY <1>3, StepDownInv
<1>4. CASE \E t \in Live : SeqEarlier(t)
  <2>1. PICK t \in Live : SeqEarlier(t) BY <1>4
  <2>2. Retarget(t) /\ pc' \in {"idle", "push", "move"} BY <2>1 DEF SeqEarlier
  <2> QED BY <2>2, RetargetInv
<1>5. CASE \E t \in Live : SeqLater(t)
  <2>1. PICK t \in Live : SeqLater(t) BY <1>5
  <2>2. Retarget(t) /\ pc' \in {"idle", "push", "move"} BY <2>1 DEF SeqLater
  <2> QED BY <2>2, RetargetInv
<1>6. CASE Pop BY <1>6, PopInv
<1>7. CASE \E leaf \in Live : DropLeaf(leaf) BY <1>7, DropLeafInv
<1>8. CASE \E child \in Live : PruneRoot(child) BY <1>8, PruneRootInv
<1>9. CASE CapDone BY <1>9, CapDoneInv
<1>10. CASE ClearAll BY <1>10, ClearAllInv
<1>11. CASE Reload BY <1>11, ReloadInv
<1>12. CASE (\E l \in Levels : SetLevels(l)) \/ UNCHANGED arenaVars
  BY <1>12 DEF SetLevels, arenaVars, links, Inv, TypeOK, IsTree, AllRooted,
               SeqOrdered, PathExact, RedoRetracesPath, RedoReachable, Live
<1> QED BY <1>1, <1>2, <1>3, <1>4, <1>5, <1>6, <1>7, <1>8, <1>9, <1>10, <1>11,
           <1>12 DEF ArenaNext

----------------------------------------------------------------------------
\* The invariant holds in every reachable state.
THEOREM ArenaInvariant == ArenaSpec => []Inv
BY InitInv, NextInv, PTL DEF ArenaSpec

\* The arena's fields keep their types: no link to a freed slot is ever
\* followed (get(id) never meets an empty slot).
THEOREM ArenaTyped == ArenaSpec => []TypeOK
<1>1. Inv => TypeOK BY DEF Inv
<1> QED BY <1>1, ArenaInvariant, PTL

\* The links form one tree below the root after any sequence of pushes,
\* moves, pops, prunes, clears and reloads: every parent walk terminates.
THEOREM ArenaIsTree == ArenaSpec => [](IsTree /\ SeqOrdered)
<1>1. Inv => IsTree /\ SeqOrdered BY DEF Inv
<1> QED BY <1>1, ArenaInvariant, PTL

\* on_path is exactly the walk from current to the root.
THEOREM ArenaPathExact == ArenaSpec => []PathExact
<1>1. Inv => PathExact BY DEF Inv
<1> QED BY <1>1, ArenaInvariant, PTL

\* After any number of u, <C-r> retraces the branch it came from.
THEOREM ArenaRedoRetraces == ArenaSpec => []RedoRetracesPath
<1>1. Inv => RedoRetracesPath BY DEF Inv
<1> QED BY <1>1, ArenaInvariant, PTL

\* A node with a forward branch always has a redo target.
THEOREM ArenaRedoReachable == ArenaSpec => []RedoReachable
<1>1. Inv => RedoReachable BY DEF Inv
<1> QED BY <1>1, ArenaInvariant, PTL

----------------------------------------------------------------------------
(***************************************************************************)
(* push_undo and the branches.  Between the push and the clear_redo that   *)
(* closes it, current is the node just pushed: nothing hangs below it, so  *)
(* clear_redo has nothing to drop.                                         *)
(***************************************************************************)
FreshIsLeaf == pc = "push" => children[current] = {}

LEMMA FreshIsLeafNext ==
  ASSUME Inv, FreshIsLeaf, [ArenaNext]_arenaVars
  PROVE  FreshIsLeaf'
<1>0. TypeOK BY DEF Inv
<1>1. CASE UNCHANGED arenaVars
  BY <1>1 DEF arenaVars, FreshIsLeaf
<1>2. CASE \E c \in Node : Push(c)
  <2>1. PICK c \in Node : Push(c) BY <1>2
  <2>2. c \notin Live /\ current' = c BY <2>1 DEF Push
  <2>3. children'[c] = {} BY <2>1 DEF Push
  <2> QED BY <2>2, <2>3 DEF FreshIsLeaf
<1>3. CASE StepUp
  BY <1>3 DEF StepUp, FreshIsLeaf
<1>4. CASE StepDown
  BY <1>4 DEF StepDown, FreshIsLeaf
<1>5. CASE \E t \in Live : SeqEarlier(t) \/ SeqLater(t)
  BY <1>5 DEF SeqEarlier, SeqLater, FreshIsLeaf
<1>6. CASE Pop
  BY <1>6 DEF Pop, FreshIsLeaf
<1>7. CASE \E leaf \in Live : DropLeaf(leaf)
  <2>1. PICK leaf \in Live : DropLeaf(leaf) BY <1>7
  <2>2. leaf # current
    <3>1. onPath[current]
      <4>1. current \in Anc(parent, current)
        BY <1>0, AncSelf DEF TypeOK, Live
      <4> QED BY <1>0, <4>1 DEF Inv, PathExact, TypeOK
    <3> QED BY <2>1, <3>1 DEF DropLeaf, OffPathLeaves
  <2>3. current' = current /\ pc' = pc BY <2>1 DEF DropLeaf
  <2>4. children'[current] \subseteq children[current]
    <3>1. current \in Live \ {leaf} BY <1>0, <2>2 DEF TypeOK
    <3> QED BY <2>1, <3>1 DEF DropLeaf
  <2> QED BY <2>3, <2>4 DEF FreshIsLeaf
<1>8. CASE \E child \in Live : PruneRoot(child)
  <2>1. PICK child \in Live : PruneRoot(child) BY <1>8
  <2>2. Inv' BY <2>1, PruneRootInv
  <2>3. current' = current /\ pc' = pc BY <2>1 DEF PruneRoot
  <2>4. current \in DOMAIN parent' BY <2>2, <2>3 DEF Inv, TypeOK, Live
  <2>5. DOMAIN parent' = Live \ PrunedWith(child) BY <2>1 DEF PruneRoot
  <2>6. children'[current] = children[current]
    BY <2>1, <2>4, <2>5 DEF PruneRoot, Restricted
  <2> QED BY <2>3, <2>6 DEF FreshIsLeaf
<1>9. CASE CapDone
  BY <1>9 DEF CapDone, FreshIsLeaf
<1>10. CASE ClearAll \/ Reload \/ \E l \in Levels : SetLevels(l)
  BY <1>10 DEF ClearAll, Reload, SetLevels, FreshIsLeaf
<1> QED
  BY <1>1, <1>2, <1>3, <1>4, <1>5, <1>6, <1>7, <1>8, <1>9, <1>10 DEF ArenaNext

(***************************************************************************)
(* An edit after an undo forks: with unlimited undolevels no push_undo     *)
(* drops a branch, for a tree of any size and shape.                       *)
(***************************************************************************)
THEOREM ArenaPushKeepsBranches == ArenaSpec => PushKeepsBranches
<1> DEFINE Keeps == undoLevels = 0 /\ "push" \in {pc, pc'}
                      => Live \subseteq DOMAIN parent'
<1>1. ASSUME Inv, FreshIsLeaf, [ArenaNext]_arenaVars
      PROVE  [Keeps]_arenaVars
  <2> SUFFICES ASSUME ArenaNext, undoLevels = 0, pc = "push" \/ pc' = "push"
               PROVE  Live \subseteq DOMAIN parent'
    BY <1>1
  <2>0. TypeOK BY <1>1 DEF Inv
  <2>1. ~OverBudget BY DEF OverBudget
  <2>2. CASE \E c \in Node : Push(c)
    BY <2>2 DEF Push
  <2>3. CASE CapDone
    <3>1. pc = "push" BY <2>3 DEF CapDone
    <3>2. children[current] = {} BY <1>1, <3>1 DEF FreshIsLeaf
    <3>3. ASSUME NEW m \in Live, m # current, current \in Anc(parent, m)
          PROVE  FALSE
      <4>1. PICK c \in Anc(parent, m) : parent[c] = current
        BY <2>0, <3>3, ParentFun, AncEntered DEF Live
      <4>2. c \in Live BY <4>1, AncDomain DEF Live
      <4>3. c \in children[current]
        BY <1>1, <2>0, <4>1, <4>2 DEF Inv, IsTree, TypeOK
      <4> QED BY <3>2, <4>3
    <3>4. DOMAIN parent' = {m \in Live : m = current \/ current \notin Anc(parent, m)}
      BY <2>3, <3>1 DEF CapDone, ClearRedo, Restricted
    <3> QED BY <3>3, <3>4
  <2>4. CASE (\E leaf \in Live : DropLeaf(leaf)) \/ \E child \in Live : PruneRoot(child)
    BY <2>1, <2>4 DEF DropLeaf, PruneRoot
  <2>5. CASE StepUp \/ StepDown \/ (\E t \in Live : SeqEarlier(t) \/ SeqLater(t))
               \/ Pop \/ ClearAll \/ Reload \/ (\E l \in Levels : SetLevels(l))
    <3>1. pc = "idle" /\ pc' # "push"
      BY <2>5 DEF StepUp, StepDown, SeqEarlier, SeqLater, Pop, ClearAll, Reload, SetLevels
    <3> QED BY <3>1
  <2> QED BY <2>2, <2>3, <2>4, <2>5 DEF ArenaNext
<1>2. ArenaInit => FreshIsLeaf BY DEF ArenaInit, FreshIsLeaf
<1>3. Inv /\ FreshIsLeaf /\ [ArenaNext]_arenaVars => FreshIsLeaf'
  BY FreshIsLeafNext
<1>4. Inv /\ FreshIsLeaf /\ [ArenaNext]_arenaVars => [Keeps]_arenaVars
  BY <1>1
<1> QED
  BY <1>2, <1>3, <1>4, ArenaInvariant, PTL DEF ArenaSpec, PushKeepsBranches

----------------------------------------------------------------------------
(***************************************************************************)
(* What cap() may free and how far it gets, for every tree and every       *)
(* undolevels.                                                             *)
(***************************************************************************)
\* A set of naturals that is not empty has a least element.
LEMMA LeastNat ==
  ASSUME NEW T \in SUBSET Nat, T # {}
  PROVE  \E x \in T : \A y \in T : x <= y
<1>1. \E x \in T : \A y \in T : ~(<<y, x>> \in OpToRel(<, Nat))
  BY NatLessThanWellFounded, WFMin
<1>2. \A x, y \in Nat : y < x => <<y, x>> \in OpToRel(<, Nat)
  BY DEF OpToRel
<1>3. PICK x \in T : \A y \in T : ~(<<y, x>> \in OpToRel(<, Nat)) BY <1>1
<1>4. \A y \in T : x \in Nat /\ y \in Nat /\ ~(y < x) BY <1>2, <1>3
<1>5. \A y \in T : x <= y BY <1>4
<1> QED BY <1>5

(***************************************************************************)
(* Going down from any node ends at a leaf: the newest node of a set that  *)
(* holds the children of its members has none.                             *)
(***************************************************************************)
LEMMA LeafBelow ==
  ASSUME Inv, NEW T \in SUBSET Live, T # {}, \A m \in T : children[m] \subseteq T
  PROVE  \E m \in T : children[m] = {}
<1>1. \A m \in T : seq[m] \in Nat /\ seq[m] < nextSeq /\ nextSeq \in Nat
  BY DEF Inv, TypeOK, SeqOrdered
<1> DEFINE V == {nextSeq - seq[m] : m \in T}
<1>2. V \in SUBSET Nat /\ V # {} BY <1>1
<1>3. \E x \in V : \A y \in V : x <= y
  <2> HIDE DEF V
  <2> QED BY <1>2, LeastNat
<1>4. PICK m \in T : \A k \in T : nextSeq - seq[m] <= nextSeq - seq[k]
  BY <1>3
<1>5. \A k \in T : seq[k] <= seq[m] BY <1>1, <1>4
<1>6. ASSUME NEW c \in children[m] PROVE FALSE
  <2>1. c \in T /\ m \in Live BY <1>6
  <2>2. parent[c] = m /\ m # NoNode
    BY <2>1, ArenaAssumption DEF Inv, IsTree, TypeOK
  <2>3. seq[m] < seq[c] BY <2>1, <2>2 DEF Inv, SeqOrdered
  <2> QED BY <1>1, <1>5, <2>1, <2>3
<1> QED BY <1>6

\* Without an off-path leaf every node is on the undo line of current.
LEMMA NoOffPathLeaf ==
  ASSUME Inv, OffPathLeaves = {}
  PROVE  \A n \in Live : onPath[n]
<1> DEFINE T == {m \in Live : ~onPath[m]}
<1>0. TypeOK /\ IsParent(parent) BY ParentFun DEF Inv
<1>1. ASSUME NEW m \in T, NEW c \in children[m] PROVE c \in T
  <2>1. m \in Live /\ c \in Live /\ parent[c] = m /\ m # NoNode
    BY <1>0, ArenaAssumption DEF Inv, IsTree, TypeOK
  <2>2. ASSUME onPath[c] PROVE onPath[m]
    <3>1. c \in Anc(parent, current) BY <2>1, <2>2 DEF Inv, PathExact
    <3>2. m \in Anc(parent, current) BY <1>0, <2>1, <3>1, AncClosed
    <3> QED BY <2>1, <3>2 DEF Inv, PathExact
  <2> QED BY <2>1, <2>2
<1>2. ASSUME T # {} PROVE FALSE
  <2>1. T \in SUBSET Live OBVIOUS
  <2>2. \A m \in T : children[m] \subseteq T BY <1>1
  <2>3. PICK m \in T : children[m] = {}
    <3> HIDE DEF T
    <3> QED BY <1>2, <2>1, <2>2, LeafBelow
  <2>4. m \in OffPathLeaves BY <2>3 DEF OffPathLeaves, Leaves
  <2> QED BY <2>4
<1> QED BY <1>2

\* Then prune_root_side frees the root alone.
LEMMA PruneFreesRoot ==
  ASSUME Inv, NEW child \in Live, PruneRoot(child)
  PROVE  PrunedWith(child) = {root}
<1>0. TypeOK /\ IsParent(parent) BY ParentFun DEF Inv
<1>1. /\ child \in children[root] /\ onPath[child] /\ root \in Live
      /\ \A n \in Live : onPath[n]
  BY <1>0, NoOffPathLeaf DEF PruneRoot, TypeOK
<1>2. ASSUME NEW c \in children[root] \ {child} PROVE FALSE
  <2>1. /\ c \in Live /\ parent[c] = root /\ parent[child] = root /\ root # NoNode
        /\ current \in Live
    BY <1>0, <1>1, ArenaAssumption DEF Inv, IsTree, TypeOK
  <2>2. c \in Anc(parent, current) /\ child \in Anc(parent, current)
    BY <1>1, <2>1 DEF Inv, PathExact
  <2>3. SeqOrdered BY DEF Inv
  <2> QED BY <1>0, <2>1, <2>2, <2>3, AncOneChild
<1> QED BY <1>2 DEF PrunedWith

(***************************************************************************)
(* cap() spares the state the user is on and its whole undo line for as    *)
(* long as an abandoned branch is left to drop, and then shortens the line *)
(* at the root, one state at a time.                                       *)
(***************************************************************************)
THEOREM ArenaCapSparesUndoLine == ArenaSpec => CapSparesUndoLine
<1> DEFINE Spares ==
      pc # "idle" /\ pc' = pc =>
        \/ \A n \in Live \ DOMAIN parent' : ~onPath[n]
        \/ /\ \A n \in Leaves : onPath[n]
           /\ Live \ DOMAIN parent' = {root}
<1>1. ASSUME Inv, ArenaNext PROVE Spares
  <2> SUFFICES ASSUME pc # "idle", pc' = pc
               PROVE  \/ \A n \in Live \ DOMAIN parent' : ~onPath[n]
                      \/ /\ \A n \in Leaves : onPath[n]
                         /\ Live \ DOMAIN parent' = {root}
    OBVIOUS
  <2>1. CASE \E leaf \in Live : DropLeaf(leaf)
    <3>1. PICK leaf \in Live : DropLeaf(leaf) BY <2>1
    <3>2. DOMAIN parent' = Live \ {leaf} /\ ~onPath[leaf]
      BY <3>1 DEF DropLeaf, Restricted, OffPathLeaves
    <3> QED BY <3>2
  <2>2. CASE \E child \in Live : PruneRoot(child)
    <3>1. PICK child \in Live : PruneRoot(child) BY <2>2
    <3>2. DOMAIN parent' = Live \ {root}
      BY <1>1, <3>1, PruneFreesRoot DEF PruneRoot
    <3>3. \A n \in Leaves : onPath[n]
      BY <3>1 DEF PruneRoot, OffPathLeaves
    <3>4. root \in Live BY <1>1 DEF Inv, TypeOK
    <3> QED BY <3>2, <3>3, <3>4
  <2>3. CASE CapDone BY <2>3 DEF CapDone
  <2>4. CASE (\E c \in Node : Push(c)) \/ StepUp \/ StepDown
               \/ (\E t \in Live : SeqEarlier(t)) \/ (\E t \in Live : SeqLater(t))
               \/ Pop \/ ClearAll \/ Reload \/ (\E l \in Levels : SetLevels(l))
    BY <2>4 DEF Push, StepUp, StepDown, SeqEarlier, SeqLater, Pop, ClearAll, Reload, SetLevels
  <2> QED BY <1>1, <2>1, <2>2, <2>3, <2>4 DEF ArenaNext
<1>2. Inv /\ [ArenaNext]_arenaVars => [Spares]_arenaVars
  BY <1>1
<1> QED
  BY <1>2, ArenaInvariant, PTL DEF ArenaSpec, CapSparesUndoLine

----------------------------------------------------------------------------
(***************************************************************************)
(* The loop ends within the budget.  len() counts live nodes, so there are *)
(* finitely many.                                                          *)
(***************************************************************************)
LiveFinite == IsFiniteSet(Live)

LEMMA LiveFiniteNext ==
  ASSUME LiveFinite, TypeOK, [ArenaNext]_arenaVars
  PROVE  LiveFinite'
<1>1. CASE \E c \in Node : Push(c)
  <2>1. PICK c \in Node : DOMAIN parent' = Live \cup {c} BY <1>1 DEF Push
  <2> QED BY <2>1, FS_AddElement DEF LiveFinite, Live
<1>2. CASE ~\E c \in Node : Push(c)
  <2>1. DOMAIN parent' \subseteq Live
    <3>1. CASE UNCHANGED arenaVars BY <3>1 DEF arenaVars, Live
    <3>2. CASE StepUp \/ StepDown \/ Reload \/ \E l \in Levels : SetLevels(l)
      BY <3>2 DEF StepUp, StepDown, Reload, SetLevels, links, Live
    <3>3. CASE \E t \in Live : SeqEarlier(t) \/ SeqLater(t)
      BY <3>3 DEF SeqEarlier, SeqLater, Retarget, Live
    <3>4. CASE Pop BY <3>4 DEF Pop, Restricted, Live
    <3>5. CASE \E leaf \in Live : DropLeaf(leaf)
      BY <3>5 DEF DropLeaf, Restricted, Live
    <3>6. CASE \E child \in Live : PruneRoot(child)
      BY <3>6 DEF PruneRoot, Live
    <3>7. CASE CapDone BY <3>7 DEF CapDone, ClearRedo, Restricted, links, Live
    <3>8. CASE ClearAll BY <3>8 DEF ClearAll, TypeOK, Live
    <3> QED
      BY <1>2, <3>1, <3>2, <3>3, <3>4, <3>5, <3>6, <3>7, <3>8 DEF ArenaNext
  <2> QED BY <2>1, FS_Subset DEF LiveFinite, Live
<1> QED BY <1>1, <1>2

(***************************************************************************)
(* When cap() returns, the tree holds at most undolevels states besides    *)
(* its root: the loop never gives up while it is over budget.              *)
(***************************************************************************)
THEOREM ArenaCapReached == ArenaSpec => CapReached
<1> DEFINE Reached ==
      pc # "idle" /\ pc' = "idle" /\ undoLevels > 0
        => Cardinality(DOMAIN parent') - 1 <= undoLevels
<1>1. ASSUME Inv, LiveFinite, ArenaNext PROVE Reached
  <2> SUFFICES ASSUME pc # "idle", pc' = "idle", undoLevels > 0
               PROVE  Cardinality(DOMAIN parent') - 1 <= undoLevels
    OBVIOUS
  <2>0. TypeOK /\ undoLevels \in Nat
    BY <1>1, ArenaAssumption DEF Inv, TypeOK
  <2>1. CapDone
    BY <1>1 DEF ArenaNext, Push, StepUp, StepDown, SeqEarlier, SeqLater, Pop,
                DropLeaf, PruneRoot, ClearAll, Reload, SetLevels
  <2>2. Cardinality(Live) \in Nat BY <1>1, FS_CardinalityType DEF LiveFinite
  <2>3. Cardinality(Live) - 1 <= undoLevels
    <3>1. CASE ~OverBudget
      BY <2>0, <2>2, <3>1 DEF OverBudget
    <3>2. CASE OffPathLeaves = {} /\ root = current
      <4>1. \A n \in Live : n \in Anc(parent, root)
        BY <1>1, <3>2, NoOffPathLeaf DEF Inv, PathExact
      <4>2. Anc(parent, root) = {root}
        BY <1>1, <2>0, ParentFun, AncStep DEF Inv, IsTree, TypeOK, Live
      <4>3. Live = {root} BY <2>0, <4>1, <4>2 DEF TypeOK
      <4> QED BY <2>0, <4>3, FS_Singleton
    <3> QED BY <2>1, <3>1, <3>2 DEF CapDone
  <2>4. DOMAIN parent' \in SUBSET Live
    BY <2>1 DEF CapDone, ClearRedo, Restricted, links, Live
  <2>5. /\ Cardinality(DOMAIN parent') <= Cardinality(Live)
        /\ Cardinality(DOMAIN parent') \in Nat
    BY <1>1, <2>4, FS_Subset, FS_CardinalityType DEF LiveFinite
  <2> QED BY <2>0, <2>2, <2>3, <2>5
<1>2. ArenaInit => LiveFinite
  <2> SUFFICES ASSUME ArenaInit PROVE LiveFinite OBVIOUS
  <2>1. PICK r \in Node : parent = [n \in {r} |-> NoNode] BY DEF ArenaInit
  <2>2. Live = {r} BY <2>1 DEF Live
  <2> QED BY <2>2, FS_Singleton DEF LiveFinite
<1>3. Inv => TypeOK BY DEF Inv
<1>4. Inv /\ LiveFinite /\ [ArenaNext]_arenaVars => LiveFinite'
  BY <1>3, LiveFiniteNext
<1>5. Inv /\ LiveFinite /\ [ArenaNext]_arenaVars => [Reached]_arenaVars
  BY <1>1
<1> QED
  BY <1>2, <1>4, <1>5, ArenaInvariant, PTL DEF ArenaSpec, CapReached

-----------------------------------------------------------------------------
(* The editor *)

\* A history command takes one arena step.
LEMMA HistoryIsArena ==
  Undo \/ Redo \/ Earlier \/ Later => ArenaNext
BY DEF Undo, Redo, Earlier, Later, ArenaNext

\* push_undo pushes one node.
LEMMA PushIsArena == PushUndo => ArenaNext
BY Zenon DEF PushUndo, ArenaNext

\* A pop that is refused changes no link.
LEMMA PopIsArena == PopCommitted => ArenaNext
BY DEF PopCommitted, ArenaNext

\* One iteration of cap, or its end.
LEMMA CapIsArena == CapUndo => ArenaNext
BY DEF CapUndo, ArenaNext

\* A step of the editor is a step of the arena or none.
LEMMA EditorStepIsArena == EditorNext => [ArenaNext]_arenaVars
<1> SUFFICES ASSUME EditorNext PROVE ArenaNext \/ UNCHANGED arenaVars
  OBVIOUS
<1>1. CASE GroupEnter
  BY <1>1 DEF GroupEnter, storeVars
<1>2. CASE GroupExit
  BY <1>2, PopIsArena DEF GroupExit, PopIfLeaf, storeVars
<1>3. CASE \E c \in {"change", "subst", "insert"} : Begin(c)
  BY <1>3, PushIsArena DEF Begin, PushUndoAt, storeVars
<1>4. CASE \E t \in Text : Change(t) \/ Substitute(t) \/ Type(t)
  BY <1>4 DEF Change, Substitute, Type, Mutate, Typed
<1>5. CASE SubstituteNothing
  BY <1>5, PopIsArena DEF SubstituteNothing, PopIfLeaf, storeVars
<1>6. CASE BreakInsert
  BY <1>6, PushIsArena DEF BreakInsert, PushUndoAt, storeVars
<1>7. CASE EndInsert
  BY <1>7 DEF EndInsert, storeVars
<1>8. CASE History
  BY <1>8, HistoryIsArena DEF History, Historic
<1>9. CASE InsertUndo
  BY <1>9, HistoryIsArena DEF InsertUndo, Historic
<1>10. CASE Trim
  BY <1>10, CapIsArena DEF Trim
<1> QED
  BY <1>1, <1>2, <1>3, <1>4, <1>5, <1>6, <1>7, <1>8, <1>9, <1>10 DEF EditorNext

(***************************************************************************)
(* The editor implements the arena: no command, group or insert session,   *)
(* also none of those that break the boundary protocol, moves a link in a  *)
(* way the undo tree's own operations do not.                              *)
(***************************************************************************)
THEOREM EditorImplementsArena == EditorSpec => ArenaSpec
<1>1. EditorInit => ArenaInit
  BY DEF EditorInit, StoreInit
<1>2. [EditorNext]_editorVars => [ArenaNext]_arenaVars
  BY EditorStepIsArena DEF editorVars, storeVars
<1> QED
  BY <1>1, <1>2, PTL DEF EditorSpec, ArenaSpec

(***************************************************************************)
(* Through every command, group and insert session, the on_path flags are  *)
(* exactly the undo line of current.                                       *)
(***************************************************************************)
THEOREM EditorPathExact == EditorSpec => []PathExact
BY EditorImplementsArena, ArenaPathExact, PTL

(***************************************************************************)
(* Through every command, group and insert session, <C-r> retraces the     *)
(* branch that u just left.                                                *)
(***************************************************************************)
THEOREM EditorRedoRetraces == EditorSpec => []RedoRetracesPath
BY EditorImplementsArena, ArenaRedoRetraces, PTL

----------------------------------------------------------------------------
(***************************************************************************)
(* Lists without duplicates: what filtering, joining and cutting keep.     *)
(***************************************************************************)
Distinct(q) == \A i, j \in DOMAIN q : q[i] = q[j] => i = j

\* The recursion of Only, at one index.
Keeping(f, q, S, i) ==
  IF i = 0 THEN <<>> ELSE IF q[i] \in S THEN Append(f[i - 1], q[i]) ELSE f[i - 1]

LEMMA KeepingExists ==
  ASSUME NEW q, NEW S, NEW n \in Nat
  PROVE  \E f : f = [i \in 0 .. n |-> Keeping(f, q, S, i)]
<1> DEFINE Good(k) == \E f : f = [i \in 0 .. k |-> Keeping(f, q, S, i)]
           Bad == {k \in Nat : ~Good(k)}
<1> SUFFICES Bad = {} OBVIOUS
<1> SUFFICES ASSUME Bad # {} PROVE FALSE OBVIOUS
<1>1. PICK k \in Bad : \A j \in Bad : k <= j
  <2>1. Bad \in SUBSET Nat OBVIOUS
  <2> HIDE DEF Bad
  <2> QED BY <2>1, LeastNat
<1>2. CASE k = 0
  <2> DEFINE f == [i \in 0 .. 0 |-> <<>>]
  <2>1. f = [i \in 0 .. 0 |-> Keeping(f, q, S, i)] BY DEF Keeping
  <2>2. Good(0) BY <2>1
  <2> QED BY <1>2, <2>2
<1>3. CASE k # 0
  <2>1. k \in Nat /\ k - 1 \in Nat BY <1>3
  <2>2. k - 1 \notin Bad BY <1>1, <2>1
  <2>3. PICK f : f = [i \in 0 .. (k - 1) |-> Keeping(f, q, S, i)] BY <2>1, <2>2
  <2> DEFINE g == [i \in 0 .. k |-> IF i = k THEN Keeping(f, q, S, k) ELSE f[i]]
  <2>4. ASSUME NEW i \in 0 .. k PROVE g[i] = Keeping(g, q, S, i)
    <3>1. CASE i = 0
      <4>1. g[0] = f[0] /\ f[0] = Keeping(f, q, S, 0) BY <1>3, <2>1, <2>3
      <4> QED BY <3>1, <4>1 DEF Keeping
    <3>2. CASE i # 0
      <4>1. i - 1 \in 0 .. k /\ i - 1 # k BY <2>1, <3>2
      <4>2. g[i - 1] = f[i - 1] BY <4>1
      <4>3. Keeping(g, q, S, i) = Keeping(f, q, S, i) BY <3>2, <4>2 DEF Keeping
      <4>4. i # k => i \in 0 .. (k - 1) BY <2>1
      <4>5. i # k => f[i] = Keeping(f, q, S, i) BY <2>3, <4>4
      <4> QED BY <4>3, <4>5
    <3> QED BY <3>1, <3>2
  <2>5. g = [i \in 0 .. k |-> Keeping(g, q, S, i)] BY <2>4
  <2>6. Good(k)
    <3> HIDE DEF g
    <3> QED BY <2>5
  <2> QED BY <2>6
<1> QED BY <1>2, <1>3

\* Filtering a list keeps the elements it should, each as often as before.
LEMMA OnlyFacts ==
  ASSUME NEW T, NEW q \in Seq(T), NEW S
  PROVE  /\ Only(q, S) \in Seq(T)
         /\ ToSet(Only(q, S)) = ToSet(q) \cap S
         /\ Distinct(q) => Distinct(Only(q, S))
<1>0. Len(q) \in Nat /\ DOMAIN q = 1 .. Len(q) /\ \A i \in 1 .. Len(q) : q[i] \in T
  BY LenProperties, ElementOfSeq
<1> DEFINE n == Len(q)
           f == CHOOSE f : f = [i \in 0 .. n |-> Keeping(f, q, S, i)]
           Upto(i) == {q[j] : j \in 1 .. i}
           Good(i) == /\ f[i] \in Seq(T)
                      /\ ToSet(f[i]) = Upto(i) \cap S
                      /\ Distinct(q) => Distinct(f[i])
           Bad == {i \in Nat : i <= n /\ ~Good(i)}
<1>1. f = [i \in 0 .. n |-> Keeping(f, q, S, i)]
  BY <1>0, KeepingExists
<1>2. Only(q, S) = f[n]
  BY DEF Only, Keeping
<1>3. ToSet(q) = Upto(n) BY <1>0 DEF ToSet
<1> HIDE DEF f
<1>6. ASSUME NEW i \in Nat, i <= n, i \notin Bad PROVE Good(i)
  <2> HIDE DEF Good
  <2> QED BY <1>6
<1>4. Bad = {}
  <2> SUFFICES ASSUME Bad # {} PROVE FALSE OBVIOUS
  <2>1. PICK k \in Bad : \A j \in Bad : k <= j
    <3>1. Bad \in SUBSET Nat OBVIOUS
    <3> HIDE DEF Bad
    <3> QED BY <3>1, LeastNat
  <2>2. CASE k = 0
    <3>1. f[0] = <<>> BY <1>0, <1>1 DEF Keeping
    <3>2. Upto(0) = {} OBVIOUS
    <3>3. f[0] \in Seq(T) /\ ToSet(f[0]) = {} /\ Distinct(f[0])
      BY <3>1, EmptySeq DEF ToSet, Distinct
    <3>4. Good(0) BY <3>2, <3>3
    <3> QED BY <2>2, <3>4
  <2>3. CASE k # 0
    <3>1. k \in 1 .. n /\ k - 1 \in Nat /\ k - 1 <= n /\ k \in 0 .. n BY <1>0, <2>1, <2>3
    <3>2. Good(k - 1)
      <4>1. k - 1 \notin Bad
        <5> HIDE DEF Bad
        <5> QED BY <2>1, <3>1
      <4> HIDE DEF Good, Bad
      <4> QED BY <1>6, <3>1, <4>1
    <3>3. f[k] = IF q[k] \in S THEN Append(f[k - 1], q[k]) ELSE f[k - 1]
      BY <1>1, <2>3, <3>1 DEF Keeping
    <3>4. Upto(k) = Upto(k - 1) \cup {q[k]}
      <4>1. 1 .. k = 1 .. (k - 1) \cup {k} BY <3>1
      <4> QED BY <4>1
    <3>5. CASE q[k] \notin S
      <4>1. Good(k) BY <3>2, <3>3, <3>4, <3>5
      <4> QED BY <4>1
    <3>6. CASE q[k] \in S
      <4> DEFINE e == f[k - 1]
      <4>1. /\ Append(e, q[k]) \in Seq(T) /\ ToSet(Append(e, q[k])) = ToSet(e) \cup {q[k]}
            /\ \A i \in DOMAIN e : Append(e, q[k])[i] = e[i]
            /\ Append(e, q[k])[Len(e) + 1] = q[k]
            /\ DOMAIN Append(e, q[k]) = DOMAIN e \cup {Len(e) + 1}
        <5>1. e \in Seq(T) /\ q[k] \in T BY <1>0, <3>1, <3>2
        <5> HIDE DEF e, n, Upto, Good, Bad
        <5> QED BY <5>1, ToSetAppend
      <4>2. ASSUME Distinct(q) PROVE Distinct(Append(e, q[k]))
        <5>1. q[k] \notin Upto(k - 1)
          <6>1. \A j \in 1 .. (k - 1) : j \in 1 .. n /\ j # k BY <1>0, <3>1
          <6> QED BY <1>0, <3>1, <4>2, <6>1 DEF Distinct
        <5>2. q[k] \notin ToSet(e) /\ Distinct(e) BY <3>2, <4>2, <5>1
        <5>3. \A i \in DOMAIN e : e[i] \in ToSet(e) BY DEF ToSet
        <5> HIDE DEF e
        <5> QED BY <4>1, <5>2, <5>3 DEF Distinct
      <4>3. f[k] = Append(e, q[k]) BY <3>3, <3>6
      <4>4. ToSet(e) = Upto(k - 1) \cap S BY <3>2
      <4>5. Good(k)
        <5> HIDE DEF e, Upto
        <5> QED BY <3>4, <3>6, <4>1, <4>2, <4>3, <4>4
      <4> QED BY <4>5
    <3> QED BY <3>5, <3>6
  <2> QED BY <2>2, <2>3
<1>5. Good(n)
  <2> HIDE DEF Good, Bad
  <2> QED BY <1>0, <1>4, <1>6
<1> QED BY <1>2, <1>3, <1>5

LEMMA WithoutFacts ==
  ASSUME NEW T, NEW q \in Seq(T), NEW S
  PROVE  /\ Without(q, S) \in Seq(T)
         /\ ToSet(Without(q, S)) = ToSet(q) \ S
         /\ Distinct(q) => Distinct(Without(q, S))
<1>1. ToSet(q) \cap (ToSet(q) \ S) = ToSet(q) \ S OBVIOUS
<1> QED BY <1>1, OnlyFacts DEF Without

\* A list without duplicates is as long as its set of elements is large.
LEMMA DistinctLen ==
  ASSUME NEW T, NEW q \in Seq(T), Distinct(q)
  PROVE  /\ IsFiniteSet(ToSet(q)) /\ Cardinality(ToSet(q)) = Len(q)
         /\ Len(q) \in Nat
<1>1. Len(q) \in Nat /\ DOMAIN q = 1 .. Len(q) /\ q \in [1 .. Len(q) -> T]
  BY LenProperties
<1>2. q \in [1 .. Len(q) -> ToSet(q)] BY <1>1 DEF ToSet
<1>3. q \in Bijection(1 .. Len(q), ToSet(q))
  <2>1. q \in Injection(1 .. Len(q), ToSet(q))
    BY <1>1, <1>2 DEF Injection, IsInjective, Distinct
  <2>2. q \in Surjection(1 .. Len(q), ToSet(q))
    BY <1>1, <1>2 DEF Surjection, ToSet
  <2> QED BY <2>1, <2>2 DEF Bijection
<1>4. ExistsBijection(1 .. Len(q), ToSet(q)) BY <1>3 DEF ExistsBijection
<1> QED BY <1>1, <1>4, FS_CountingElements, FS_NatBijection

\* Joining two lists that have nothing in common.
LEMMA ConcatDistinct ==
  ASSUME NEW T, NEW p \in Seq(T), NEW q \in Seq(T), Distinct(p), Distinct(q),
         ToSet(p) \cap ToSet(q) = {}
  PROVE  /\ p \o q \in Seq(T)
         /\ ToSet(p \o q) = ToSet(p) \cup ToSet(q)
         /\ Distinct(p \o q)
<1> DEFINE r == p \o q
           a == Len(p)
           b == Len(q)
<1>1. /\ a \in Nat /\ b \in Nat /\ DOMAIN p = 1 .. a /\ DOMAIN q = 1 .. b
  BY LenProperties
<1>2. /\ r \in Seq(T) /\ Len(r) = a + b
      /\ \A i \in 1 .. (a + b) : r[i] = IF i <= a THEN p[i] ELSE q[i - a]
  BY ConcatProperties
<1>3. DOMAIN r = 1 .. (a + b) BY <1>2, LenProperties
<1> HIDE DEF r, a, b
<1>4. \A i \in 1 .. (a + b) : \/ i \in 1 .. a /\ r[i] = p[i]
                              \/ i \notin 1 .. a /\ i - a \in 1 .. b /\ r[i] = q[i - a]
  BY <1>1, <1>2
<1>5. ToSet(r) \subseteq ToSet(p) \cup ToSet(q) BY <1>1, <1>3, <1>4 DEF ToSet
<1>6. ToSet(p) \subseteq ToSet(r)
  <2>1. \A i \in 1 .. a : i \in 1 .. (a + b) /\ r[i] = p[i] BY <1>1, <1>2
  <2> QED BY <1>1, <1>3, <2>1 DEF ToSet
<1>7. ToSet(q) \subseteq ToSet(r)
  <2>1. ASSUME NEW j \in 1 .. b PROVE a + j \in 1 .. (a + b) /\ r[a + j] = q[j]
    <3>1. a + j \in 1 .. (a + b) /\ ~(a + j <= a) /\ (a + j) - a = j BY <1>1
    <3> QED BY <1>2, <3>1
  <2> QED BY <1>1, <1>3, <2>1 DEF ToSet
<1>8. ASSUME NEW i \in 1 .. (a + b), NEW j \in 1 .. (a + b), r[i] = r[j] PROVE i = j
  <2>1. \A k \in 1 .. a : p[k] \in ToSet(p) BY <1>1 DEF ToSet
  <2>2. \A k \in 1 .. b : q[k] \in ToSet(q) BY <1>1 DEF ToSet
  <2>3. CASE i \in 1 .. a /\ j \in 1 .. a
    BY <1>1, <1>4, <1>8, <2>3 DEF Distinct
  <2>4. CASE i \notin 1 .. a /\ j \notin 1 .. a
    <3>1. i - a \in 1 .. b /\ j - a \in 1 .. b /\ q[i - a] = q[j - a] BY <1>4, <1>8, <2>4
    <3>2. i - a = j - a BY <1>1, <3>1 DEF Distinct
    <3> QED BY <1>1, <3>2
  <2>5. CASE i \in 1 .. a /\ j \notin 1 .. a BY <1>4, <1>8, <2>1, <2>2, <2>5
  <2>6. CASE i \notin 1 .. a /\ j \in 1 .. a BY <1>4, <1>8, <2>1, <2>2, <2>6
  <2> QED BY <2>3, <2>4, <2>5, <2>6
<1>9. Distinct(r) BY <1>3, <1>8 DEF Distinct
<1> QED BY <1>2, <1>5, <1>6, <1>7, <1>9 DEF r

\* The first k elements of a list without duplicates are k.
LEMMA FrontFacts ==
  ASSUME NEW T, NEW q \in Seq(T), Distinct(q), NEW k \in 0 .. Len(q)
  PROVE  /\ ToSet(SubSeq(q, 1, k)) \subseteq ToSet(q)
         /\ Cardinality(ToSet(SubSeq(q, 1, k))) = k
<1> DEFINE r == SubSeq(q, 1, k)
<1>1. Len(q) \in Nat /\ DOMAIN q = 1 .. Len(q) BY LenProperties
<1>2. \A i \in 1 .. k : i \in 1 .. Len(q) /\ q[i] \in T BY <1>1, ElementOfSeq
<1>3. /\ r \in Seq(T) /\ Len(r) = k /\ \A i \in 1 .. k : r[i] = q[i]
  <2>1. /\ r \in Seq(T) /\ Len(r) = IF 1 <= k THEN k - 1 + 1 ELSE 0
        /\ \A i \in 1 .. (k - 1 + 1) : r[i] = q[1 + i - 1]
    BY <1>1, <1>2, SubSeqProperties
  <2>2. k - 1 + 1 = k /\ (IF 1 <= k THEN k - 1 + 1 ELSE 0) = k /\ \A i \in 1 .. k : 1 + i - 1 = i
    BY <1>1
  <2> HIDE DEF r
  <2>3. \A i \in 1 .. k : r[i] = q[i] BY <2>1, <2>2
  <2> QED BY <2>1, <2>2, <2>3
<1>4. DOMAIN r = 1 .. k BY <1>3, LenProperties
<1> HIDE DEF r
<1>5. ToSet(r) \subseteq ToSet(q) BY <1>1, <1>2, <1>3, <1>4 DEF ToSet
<1>6. Distinct(r) BY <1>1, <1>2, <1>3, <1>4 DEF Distinct
<1> QED BY <1>3, <1>5, <1>6, DistinctLen DEF r

\* evict_to brings a list down to its cap and never takes cur.
LEMMA EvictedFacts ==
  ASSUME NEW T, NEW q \in Seq(T), Distinct(q), NEW cur, NEW cap \in Nat \ {0}
  PROVE  /\ Evicted(q, cur, cap) \subseteq ToSet(q) \ {cur}
         /\ Len(Without(q, Evicted(q, cur, cap))) <= cap
<1> DEFINE o == Without(q, {cur})
           x == IF Len(q) > cap THEN Len(q) - cap ELSE 0
           k == IF x < Len(o) THEN x ELSE Len(o)
           E == ToSet(SubSeq(o, 1, k))
           w == Without(q, E)
<1>1. o \in Seq(T) /\ ToSet(o) = ToSet(q) \ {cur} /\ Distinct(o) BY WithoutFacts
<1>2. /\ IsFiniteSet(ToSet(q)) /\ Cardinality(ToSet(q)) = Len(q) /\ Len(q) \in Nat
      /\ Cardinality(ToSet(o)) = Len(o) /\ Len(o) \in Nat
  BY <1>1, DistinctLen
<1>3. Len(o) >= Len(q) - 1
  <2> DEFINE Q == ToSet(q)
  <2>1. IsFiniteSet(Q) BY <1>2
  <2> HIDE DEF Q
  <2>2. Cardinality(Q \ {cur}) = IF cur \in Q THEN Cardinality(Q) - 1 ELSE Cardinality(Q)
    BY <2>1, FS_RemoveElement
  <2>3. Len(o) = Len(q) - 1 \/ Len(o) = Len(q) BY <1>1, <1>2, <2>2 DEF Q
  <2> HIDE DEF o
  <2> QED BY <1>2, <2>3
<1> HIDE DEF o
<1>4. x \in Nat /\ x <= Len(o) BY <1>2, <1>3
<1>5. k = x /\ k \in 0 .. Len(o) BY <1>2, <1>4
<1> HIDE DEF x, k
<1>6. E \subseteq ToSet(o) /\ Cardinality(E) = x BY <1>1, <1>5, FrontFacts
<1>7. Evicted(q, cur, cap) = E BY DEF Evicted, o, x, k
<1> HIDE DEF E
<1>8. w \in Seq(T) /\ ToSet(w) = ToSet(q) \ E /\ Distinct(w) BY WithoutFacts
<1>9. Len(w) = Cardinality(ToSet(q) \ E) BY <1>8, DistinctLen
<1>10. ToSet(q) \cap E = E BY <1>1, <1>6
<1>11. Len(w) = Len(q) - x
  <2> DEFINE Q == ToSet(q)
  <2>1. IsFiniteSet(Q) BY <1>2
  <2> HIDE DEF Q
  <2>2. Cardinality(Q \ E) = Cardinality(Q) - Cardinality(Q \cap E)
    BY <2>1, FS_Difference
  <2> QED BY <1>2, <1>6, <1>9, <1>10, <2>2 DEF Q
<1>12. Len(q) - x <= cap BY <1>2 DEF x
<1> QED BY <1>1, <1>6, <1>7, <1>11, <1>12

\* touch_warm keeps an LRU a list without duplicates within its cap.
LEMMA TouchedFacts ==
  ASSUME NEW T, NEW q \in Seq(T), Distinct(q), NEW new \in Seq(T), Distinct(new),
         NEW cur, NEW cap \in Nat \ {0}
  PROVE  LET r == Touched(q, new, cur, cap) IN
         /\ r \in Seq(T) /\ Distinct(r) /\ Len(r) <= cap
         /\ ToSet(r) \subseteq ToSet(q) \cup ToSet(new)
<1> DEFINE old == Without(q, ToSet(new))
           g == old \o new
<1>1. old \in Seq(T) /\ ToSet(old) = ToSet(q) \ ToSet(new) /\ Distinct(old)
  BY WithoutFacts
<1> HIDE DEF old
<1>2. g \in Seq(T) /\ ToSet(g) = ToSet(old) \cup ToSet(new) /\ Distinct(g)
  BY <1>1, ConcatDistinct
<1> HIDE DEF g
<1>3. Len(Without(g, Evicted(g, cur, cap))) <= cap BY <1>2, EvictedFacts
<1>4. LET r == Without(g, Evicted(g, cur, cap)) IN
      r \in Seq(T) /\ Distinct(r) /\ ToSet(r) = ToSet(g) \ Evicted(g, cur, cap)
  BY <1>2, WithoutFacts
<1>5. Touched(q, new, cur, cap) = Without(g, Evicted(g, cur, cap))
  BY DEF Touched, g, old
<1> QED BY <1>1, <1>2, <1>3, <1>4, <1>5

\* Change numbers tell nodes apart, so a set of nodes has one order.
LEMMA BySeqFacts ==
  ASSUME Inv, LiveFinite, NEW S \in SUBSET Live
  PROVE  BySeq(S) \in Seq(S) /\ ToSet(BySeq(S)) = S /\ Distinct(BySeq(S))
<1> DEFINE N == Cardinality(S)
           Upto(x) == {m \in S : seq[m] <= seq[x]}
           rank == [x \in S |-> Cardinality(Upto(x))]
           q == BySeq(S)
<1>1. /\ \A x \in S : seq[x] \in Nat
      /\ \A x, y \in S : seq[x] = seq[y] => x = y
  BY DEF Inv, TypeOK, SeqOrdered
<1>2. IsFiniteSet(S) /\ N \in Nat
  BY FS_Subset, FS_CardinalityType DEF LiveFinite
<1>3. ASSUME NEW x \in S PROVE rank[x] \in 1 .. N
  <2>1. x \in Upto(x) /\ Upto(x) \in SUBSET S BY <1>1
  <2> HIDE DEF Upto
  <2>2. IsFiniteSet(Upto(x)) /\ Cardinality(Upto(x)) <= N BY <1>2, <2>1, FS_Subset
  <2>3. Cardinality(Upto(x)) \in Nat /\ Cardinality(Upto(x)) # 0
    BY <2>1, <2>2, FS_CardinalityType, FS_EmptySet
  <2> QED BY <1>2, <2>2, <2>3
<1>4. ASSUME NEW x \in S, NEW y \in S, seq[x] < seq[y] PROVE rank[x] # rank[y]
  <2>1. Upto(x) \in SUBSET Upto(y) /\ y \in Upto(y) /\ y \notin Upto(x) /\ Upto(y) \in SUBSET S
    BY <1>1, <1>4
  <2> HIDE DEF Upto
  <2>2. IsFiniteSet(Upto(y)) BY <1>2, <2>1, FS_Subset
  <2>3. Cardinality(Upto(y)) = Cardinality(Upto(x)) => Upto(y) = Upto(x)
    BY <2>1, <2>2, FS_Subset
  <2> QED BY <2>1, <2>3
<1>5. ASSUME NEW x \in S, NEW y \in S, rank[x] = rank[y] PROVE x = y
  <2>1. seq[x] < seq[y] \/ seq[y] < seq[x] \/ x = y BY <1>1
  <2> HIDE DEF rank
  <2> QED BY <1>4, <1>5, <2>1
<1>6. rank \in Surjection(S, 1 .. N)
  <2>1. rank \in [S -> 1 .. N] BY <1>3
  <2>2. DOMAIN rank = S OBVIOUS
  <2> HIDE DEF rank
  <2>3. rank \in Injection(S, 1 .. N) BY <1>5, <2>1, <2>2 DEF Injection, IsInjective
  <2>4. IsFiniteSet(1 .. N) /\ Cardinality(1 .. N) = N
    <3> HIDE DEF N
    <3>1. IsFiniteSet(1 .. N) /\ Cardinality(1 .. N) = IF 1 > N THEN 0 ELSE N - 1 + 1
      BY <1>2, FS_Interval
    <3> QED BY <1>2, <3>1
  <2> QED BY <2>3, <2>4, FS_Injection DEF N
<1>7. \A i \in 1 .. N : \E x \in S : rank[x] = i
  <2> HIDE DEF rank, N
  <2> QED BY <1>6 DEF Surjection
<1>8. q = [i \in 1 .. N |-> CHOOSE x \in S : Cardinality(Upto(x)) = i]
  BY DEF BySeq
<1>14. \A x \in S : rank[x] = Cardinality(Upto(x)) OBVIOUS
<1> HIDE DEF q, rank, N, Upto
<1>9. ASSUME NEW i \in 1 .. N PROVE q[i] \in S /\ rank[q[i]] = i
  <2>1. \E x \in S : Cardinality(Upto(x)) = i BY <1>7, <1>14
  <2>2. q[i] = CHOOSE x \in S : Cardinality(Upto(x)) = i BY <1>8
  <2>3. q[i] \in S /\ Cardinality(Upto(q[i])) = i BY <2>1, <2>2
  <2> QED BY <1>14, <2>3
<1>10. q \in Seq(S) /\ DOMAIN q = 1 .. N
  <2>1. q \in [1 .. N -> S] BY <1>8, <1>9
  <2> QED BY <1>2, <2>1, IsASeq
<1>11. Distinct(q) BY <1>9, <1>10 DEF Distinct
<1>12. ASSUME NEW x \in S PROVE x \in ToSet(q)
  <2>1. rank[x] \in 1 .. N BY <1>3
  <2>2. q[rank[x]] = x BY <1>5, <1>9, <2>1
  <2> QED BY <1>10, <2>1, <2>2 DEF ToSet
<1>13. ToSet(q) = S BY <1>9, <1>10, <1>12 DEF ToSet
<1> QED BY <1>10, <1>11, <1>13 DEF q

----------------------------------------------------------------------------
(***************************************************************************)
(* What a store says.  A store spells out the texts t when its base is the *)
(* root's text, every delta leads from the text of the parent to that of   *)
(* the node, and what is cached is the node's text.  Whatever is cached,   *)
(* materialize then yields t.                                              *)
(***************************************************************************)
Deltas == [from : Text, to : Text] \cup {Empty}

StoreSet(D) ==
  [base : Text, delta : [D -> Deltas], cache : [D -> Text \cup {NoText}],
   depth : [D -> Nat], warm : Seq(D), keys : Seq(D)]

Spells(par, r, s, t) ==
  /\ t \in [DOMAIN par -> Text]
  /\ s.base = t[r]
  /\ \A n \in DOMAIN par \ {r} : s.delta[n] = Diff(t[par[n]], t[n])
  /\ \A n \in DOMAIN par : s.cache[n] \in {NoText, t[n]}

LEMMA NoTextIsNone == NoText \notin Text
BY StoreAssumption

\* A delta applied to the text it was computed from, either way.
LEMMA DiffApplies ==
  ASSUME NEW p \in Text, NEW c \in Text
  PROVE  /\ Diff(p, c) \in Deltas
         /\ ApplyForward(p, Diff(p, c)) = c
         /\ ApplyInverse(c, Diff(p, c)) = p
<1>1. CASE p = c BY <1>1 DEF Diff, ApplyForward, ApplyInverse, Deltas
<1>2. CASE p # c
  <2>1. Diff(p, c) = [from |-> p, to |-> c] BY <1>2 DEF Diff
  <2>2. Diff(p, c).from = p /\ Diff(p, c).to = c /\ Diff(p, c) \in [from : Text, to : Text]
    BY <2>1
  <2>3. Diff(p, c) # Empty BY <2>2, NoTextIsNone DEF Empty
  <2> QED BY <2>2, <2>3 DEF ApplyForward, ApplyInverse, Deltas
<1> QED BY <1>1, <1>2

\* The loop of materialize stops: of the nodes on the way to the root that have
\* content, one is below the others.
LEMMA AnchorExists ==
  ASSUME Inv, NEW s, NEW n \in Live
  PROVE  LET a == Anchor(s, root, n) IN
         /\ a \in Anc(parent, n) /\ HasContent(s, root, a)
         /\ \A k \in Anc(parent, n) : HasContent(s, root, k) => k \in Anc(parent, a)
<1> DEFINE H == {k \in Anc(parent, n) : HasContent(s, root, k)}
           V == {nextSeq - seq[k] : k \in H}
<1>1. /\ IsParent(parent) /\ Anc(parent, n) \subseteq Live /\ root \in Anc(parent, n)
  BY ParentFun, AncDomain DEF Inv, IsTree, AllRooted, Live
<1>2. \A k \in H : seq[k] \in Nat /\ seq[k] < nextSeq /\ nextSeq \in Nat
  BY <1>1 DEF Inv, TypeOK, SeqOrdered
<1>3. root \in H BY <1>1 DEF HasContent
<1>4. V \in SUBSET Nat /\ V # {}
  <2> HIDE DEF H
  <2> QED BY <1>2, <1>3
<1>5. \E x \in V : \A y \in V : x <= y
  <2> HIDE DEF V
  <2> QED BY <1>4, LeastNat
<1>6. PICK a \in H : \A k \in H : nextSeq - seq[a] <= nextSeq - seq[k]
  <2> HIDE DEF H
  <2> QED BY <1>5
<1>7. ASSUME NEW k \in H PROVE k \in Anc(parent, a)
  <2>1. seq[k] <= seq[a]
    <3> HIDE DEF H
    <3> QED BY <1>2, <1>6
  <2>2. k \in Anc(parent, a) \/ a \in Anc(parent, k) BY <1>1, AncLinear DEF Live
  <2>3. CASE a \in Anc(parent, k)
    <3>1. k \in Live BY <1>1
    <3>2. a = k \/ seq[a] < seq[k] BY <2>3, <3>1, AncBefore DEF Inv
    <3>3. a = k
      <4> HIDE DEF H
      <4> QED BY <1>2, <2>1, <3>2
    <3> QED BY <2>3, <3>3
  <2> QED BY <2>2, <2>3
<1>8. \E b \in Anc(parent, n) :
        /\ HasContent(s, root, b)
        /\ \A k \in Anc(parent, n) : HasContent(s, root, k) => k \in Anc(parent, b)
  BY <1>6, <1>7
<1> QED BY <1>8 DEF Anchor

(***************************************************************************)
(* materialize: the replay from the anchor down gives every node its text. *)
(* The recursion has the texts as a solution, and by going to the oldest   *)
(* node where another would differ, no other.                              *)
(***************************************************************************)
LEMMA ReplaySpells ==
  ASSUME Inv, NEW s, NEW t, Spells(parent, root, s, t), NEW n \in Live
  PROVE  \A m \in Anc(parent, n) :
           /\ m \notin Anc(parent, Anchor(s, root, n)) => Replayed(s, root, n)[m] = t[m]
           /\ m \in Anc(parent, Anchor(s, root, n))
                => Replayed(s, root, n)[m] = t[Anchor(s, root, n)]
<1> DEFINE a == Anchor(s, root, n)
           A == Anc(parent, n)
           B == Anc(parent, a)
           g == [m \in A |-> IF m \in B THEN t[a] ELSE t[m]]
           IsSol(f) == f = [m \in A |-> IF m \in B THEN ContentOf(s, a)
                                        ELSE ApplyForward(f[parent[m]], s.delta[m])]
<1>1. /\ a \in A /\ HasContent(s, root, a)
      /\ \A k \in A : HasContent(s, root, k) => k \in B
  BY AnchorExists
<1>2. /\ IsParent(parent) /\ A \subseteq Live /\ root \in A /\ a \in Live
  BY <1>1, ParentFun, AncDomain DEF Inv, IsTree, AllRooted, Live
<1>3. t \in [Live -> Text] /\ s.base = t[root]
  BY DEF Spells, Live
<1>4. ContentOf(s, a) = t[a]
  <2>1. s.cache[a] \in {NoText, t[a]} BY <1>2 DEF Spells, Live
  <2>2. s.cache[a] = NoText => a = root BY <1>1 DEF HasContent
  <2> QED BY <1>3, <2>1, <2>2 DEF ContentOf
<1>5. root \in B BY <1>2 DEF Inv, IsTree, AllRooted
<1>6. ASSUME NEW m \in A, m \notin B
      PROVE  /\ parent[m] \in A /\ parent[m] \in Live /\ m \in Live /\ m # root
             /\ parent[m] \in B => parent[m] = a
             /\ ApplyForward(t[parent[m]], s.delta[m]) = t[m]
  <2>1. m \in Live /\ m # root BY <1>2, <1>5, <1>6
  <2>2. parent[m] # NoNode BY <2>1 DEF Inv, IsTree
  <2>3. parent[m] \in A /\ parent[m] \in Live BY <1>2, <2>2, AncClosed
  <2>4. parent[m] \in B => parent[m] = a
    <3> SUFFICES ASSUME parent[m] \in B, parent[m] # a PROVE FALSE OBVIOUS
    <3>1. a \in Anc(parent, m) BY <1>1, <1>2, <1>6, AncLinear DEF Live
    <3>2. a # m BY <1>2, <1>6, AncSelf DEF Live
    <3>3. a \in Anc(parent, parent[m]) BY <1>2, <2>1, <2>2, <3>1, <3>2, AncStep DEF Live
    <3>4. seq[a] < seq[parent[m]] /\ seq[parent[m]] < seq[a]
      BY <1>2, <2>3, <3>3, AncBefore DEF Inv
    <3>5. seq[a] \in Nat /\ seq[parent[m]] \in Nat BY <1>2, <2>3 DEF Inv, TypeOK
    <3> QED BY <3>4, <3>5
  <2>5. s.delta[m] = Diff(t[parent[m]], t[m]) BY <2>1 DEF Spells, Live
  <2>6. ApplyForward(t[parent[m]], s.delta[m]) = t[m]
    BY <1>3, <2>1, <2>3, <2>5, DiffApplies
  <2> QED BY <2>1, <2>3, <2>4, <2>6
<1> HIDE DEF A, B, a
<1>7. IsSol(g)
  <2>1. ASSUME NEW m \in A
        PROVE  g[m] = IF m \in B THEN ContentOf(s, a)
                      ELSE ApplyForward(g[parent[m]], s.delta[m])
    <3>1. CASE m \in B BY <1>4, <3>1
    <3>2. CASE m \notin B
      <4>1. g[m] = t[m] BY <3>2
      <4>2. g[parent[m]] = t[parent[m]] BY <1>6, <3>2
      <4> QED BY <1>6, <3>2, <4>1, <4>2
    <3> QED BY <3>1, <3>2
  <2> QED BY <2>1
<1>8. ASSUME NEW f, IsSol(f) PROVE f = g
  <2> DEFINE W == {m \in A : f[m] # g[m]}
             V == {seq[m] : m \in W}
  <2>0. /\ f = [m \in A |-> IF m \in B THEN ContentOf(s, a)
                            ELSE ApplyForward(f[parent[m]], s.delta[m])]
    BY <1>8
  <2>1. W = {}
    <3> SUFFICES ASSUME W # {} PROVE FALSE OBVIOUS
    <3>1. \A m \in W : seq[m] \in Nat BY <1>2 DEF Inv, TypeOK
    <3>2. V \in SUBSET Nat /\ V # {}
      <4> HIDE DEF W
      <4> QED BY <3>1
    <3>3. \E x \in V : \A y \in V : x <= y
      <4> HIDE DEF V
      <4> QED BY <3>2, LeastNat
    <3>4. PICK m \in W : \A k \in W : seq[m] <= seq[k]
      <4> HIDE DEF W
      <4> QED BY <3>3
    <3>5. m \in A /\ f[m] # g[m] OBVIOUS
    <3>6. m \notin B
      <4>1. m \in B => f[m] = ContentOf(s, a) BY <2>0, <3>5
      <4>2. m \in B => g[m] = t[a] BY <3>5
      <4> QED BY <1>4, <3>5, <4>1, <4>2
    <3>7. parent[m] \in A /\ parent[m] \in Live /\ m \in Live /\ m # root BY <1>6, <3>5, <3>6
    <3>8. seq[parent[m]] < seq[m] /\ seq[parent[m]] \in Nat /\ seq[m] \in Nat
      <4>1. parent[m] # NoNode BY <3>7 DEF Inv, IsTree
      <4> QED BY <3>7, <4>1 DEF Inv, SeqOrdered, TypeOK
    <3>9. parent[m] \notin W
      <4> HIDE DEF W
      <4> QED BY <3>4, <3>8
    <3>10. f[parent[m]] = g[parent[m]] BY <3>7, <3>9
    <3>11. f[m] = ApplyForward(f[parent[m]], s.delta[m]) BY <2>0, <3>5, <3>6
    <3>12. g[m] = ApplyForward(g[parent[m]], s.delta[m])
      <4>1. g[m] = t[m] BY <3>5, <3>6
      <4>2. g[parent[m]] = t[parent[m]] BY <1>6, <3>5, <3>6
      <4> QED BY <1>6, <3>5, <3>6, <4>1, <4>2
    <3> HIDE DEF g
    <3> QED BY <3>5, <3>10, <3>11, <3>12
  <2>2. DOMAIN f = A /\ f = [m \in A |-> f[m]] BY <2>0
  <2>3. \A m \in A : f[m] = g[m] BY <2>1
  <2>4. g = [m \in A |-> g[m]] OBVIOUS
  <2> HIDE DEF g
  <2> QED BY <2>2, <2>3, <2>4
<1>9. Replayed(s, root, n) = CHOOSE f : IsSol(f)
  BY DEF Replayed, A, B, a
<1>10. IsSol(Replayed(s, root, n))
  <2> HIDE DEF IsSol
  <2> QED BY <1>7, <1>9
<1>11. Replayed(s, root, n) = g
  <2> HIDE DEF IsSol, g
  <2> QED BY <1>8, <1>10
<1> QED BY <1>11 DEF A, B, a

LEMMA RopeSpells ==
  ASSUME Inv, NEW s, NEW t, Spells(parent, root, s, t), NEW n \in Live
  PROVE  Rope(s, root, n) = t[n]
<1> DEFINE a == Anchor(s, root, n)
<1>1. n \in Anc(parent, n) /\ a \in Anc(parent, n) /\ a \in Live
  BY AncSelf, AnchorExists, AncDomain DEF Live
<1>2. CASE n \notin Anc(parent, a) BY <1>1, <1>2, ReplaySpells DEF Rope
<1>3. CASE n \in Anc(parent, a)
  <2>1. n = a
    <3>1. seq[n] \in Nat /\ seq[a] \in Nat BY <1>1 DEF Inv, TypeOK
    <3>2. a = n \/ (seq[a] < seq[n] /\ seq[n] < seq[a]) BY <1>1, <1>3, AncBefore DEF Inv
    <3> QED BY <3>1, <3>2
  <2> QED BY <1>1, <1>3, <2>1, ReplaySpells DEF Rope
<1> QED BY <1>2, <1>3

(***************************************************************************)
(* What the two LRUs say.  Both are within their caps and without          *)
(* duplicates, keyframes on one and the other nodes on the other, and the  *)
(* listed nodes are exactly the cached ones.                               *)
(***************************************************************************)
Listed(r, s) ==
  /\ Distinct(s.warm) /\ Distinct(s.keys)
  /\ Len(s.warm) <= WarmCap /\ Len(s.keys) <= KeyCap
  /\ \A n \in ToSet(s.warm) : n # r /\ s.depth[n] % KeyInterval # 0
  /\ \A n \in ToSet(s.keys) : n # r /\ s.depth[n] % KeyInterval = 0

Lists(s) == ToSet(s.warm) \cup ToSet(s.keys)

CacheOK(D, r, s) ==
  /\ Listed(r, s)
  /\ \A n \in D : s.cache[n] # NoText <=> n \in Lists(s)

\* touch_warm on nodes whose text has just been cached.
LEMMA TouchWarmFacts ==
  ASSUME NEW D, NEW s \in StoreSet(D), NEW r, Listed(r, s), NEW cur,
         NEW nodes \in Seq(D), Distinct(nodes), r \notin ToSet(nodes),
         \A n \in D : s.cache[n] # NoText <=> n \in Lists(s) \cup ToSet(nodes)
  PROVE  LET q == TouchWarm(s, r, cur, nodes) IN
         /\ q \in StoreSet(D) /\ CacheOK(D, r, q)
         /\ q.base = s.base /\ q.delta = s.delta /\ q.depth = s.depth
         /\ \A n \in D : q.cache[n] \in {NoText, s.cache[n]}
<1> DEFINE q == TouchWarm(s, r, cur, nodes)
           pinned == {n \in ToSet(nodes) : IsKeyframe(s, r, n)}
           kn == Only(nodes, pinned)
           wn == Without(nodes, pinned \cup {r})
           keys == Touched(s.keys, kn, cur, KeyCap)
           warm == Touched(s.warm, wn, cur, WarmCap)
           out == (ToSet(s.keys) \cup ToSet(s.warm) \cup ToSet(nodes)) \ (ToSet(keys) \cup ToSet(warm))
           cache == [m \in DOMAIN s.cache |-> IF m \in out THEN NoText ELSE s.cache[m]]
<1>1. /\ s.base \in Text /\ s.delta \in [D -> Deltas] /\ s.cache \in [D -> Text \cup {NoText}]
      /\ s.depth \in [D -> Nat] /\ s.warm \in Seq(D) /\ s.keys \in Seq(D)
      /\ s = [base |-> s.base, delta |-> s.delta, cache |-> s.cache, depth |-> s.depth,
              warm |-> s.warm, keys |-> s.keys]
  BY DEF StoreSet
<1>2. WarmCap \in Nat \ {0} /\ KeyCap \in Nat \ {0} BY StoreAssumption
<1>3. kn \in Seq(D) /\ ToSet(kn) = ToSet(nodes) \cap pinned /\ Distinct(kn) BY OnlyFacts
<1>4. wn \in Seq(D) /\ ToSet(wn) = ToSet(nodes) \ (pinned \cup {r}) /\ Distinct(wn)
  BY WithoutFacts
<1>5. \A n \in ToSet(nodes) : n \in pinned <=> s.depth[n] % KeyInterval = 0
  BY DEF IsKeyframe
<1> HIDE DEF kn, wn, pinned
<1>6. /\ keys \in Seq(D) /\ Distinct(keys) /\ Len(keys) <= KeyCap
      /\ ToSet(keys) \subseteq ToSet(s.keys) \cup ToSet(kn)
  BY <1>1, <1>2, <1>3, TouchedFacts DEF Listed
<1>7. /\ warm \in Seq(D) /\ Distinct(warm) /\ Len(warm) <= WarmCap
      /\ ToSet(warm) \subseteq ToSet(s.warm) \cup ToSet(wn)
  BY <1>1, <1>2, <1>4, TouchedFacts DEF Listed
<1>8. q = [s EXCEPT !.keys = keys, !.warm = warm, !.cache = cache]
  BY DEF TouchWarm, kn, wn, pinned
<1> HIDE DEF keys, warm, q
<1>9. /\ q = [base |-> s.base, delta |-> s.delta, cache |-> cache, depth |-> s.depth,
              warm |-> warm, keys |-> keys]
  <2> HIDE DEF cache
  <2> QED BY <1>1, <1>8
<1>10. cache \in [D -> Text \cup {NoText}] /\ \A n \in D : cache[n] \in {NoText, s.cache[n]}
  BY <1>1
<1>11. \A n \in D : cache[n] # NoText <=> n \in ToSet(warm) \cup ToSet(keys)
  <2> SUFFICES ASSUME NEW n \in D PROVE cache[n] # NoText <=> n \in ToSet(warm) \cup ToSet(keys)
    OBVIOUS
  <2>1. cache[n] = IF n \in out THEN NoText ELSE s.cache[n] BY <1>1
  <2>2. s.cache[n] # NoText <=> n \in ToSet(s.warm) \cup ToSet(s.keys) \cup ToSet(nodes)
    BY DEF Lists
  <2>3. ToSet(warm) \cup ToSet(keys) \subseteq ToSet(s.warm) \cup ToSet(s.keys) \cup ToSet(nodes)
    BY <1>3, <1>4, <1>6, <1>7
  <2> HIDE DEF cache
  <2> QED BY <2>1, <2>2, <2>3
<1> HIDE DEF cache, out
<1>12. /\ q.base = s.base /\ q.delta = s.delta /\ q.cache = cache /\ q.depth = s.depth
       /\ q.warm = warm /\ q.keys = keys
  BY <1>9
<1>13. q \in StoreSet(D) BY <1>1, <1>6, <1>7, <1>9, <1>10 DEF StoreSet
<1>14. /\ \A n \in ToSet(warm) : n # r /\ s.depth[n] % KeyInterval # 0
       /\ \A n \in ToSet(keys) : n # r /\ s.depth[n] % KeyInterval = 0
  BY <1>3, <1>4, <1>5, <1>6, <1>7 DEF Listed
<1>15. CacheOK(D, r, q) BY <1>6, <1>7, <1>11, <1>12, <1>14 DEF CacheOK, Listed, Lists
<1> QED BY <1>10, <1>12, <1>13, <1>15 DEF q

\* A store with other cached texts.
LEMMA Recached ==
  ASSUME NEW D, NEW s \in StoreSet(D), NEW c \in [D -> Text \cup {NoText}]
  PROVE  LET p == [s EXCEPT !.cache = c] IN
         /\ p \in StoreSet(D) /\ p.base = s.base /\ p.delta = s.delta /\ p.cache = c
         /\ p.depth = s.depth /\ p.warm = s.warm /\ p.keys = s.keys
<1>1. s = [base |-> s.base, delta |-> s.delta, cache |-> s.cache, depth |-> s.depth,
           warm |-> s.warm, keys |-> s.keys]
  BY DEF StoreSet
<1>2. [s EXCEPT !.cache = c] = [base |-> s.base, delta |-> s.delta, cache |-> c,
         depth |-> s.depth, warm |-> s.warm, keys |-> s.keys]
  BY <1>1
<1> QED BY <1>2 DEF StoreSet

\* A list over a set is one over every larger set.
LEMMA SeqInto ==
  ASSUME NEW S, NEW q \in Seq(S), NEW T, S \subseteq T
  PROVE  q \in Seq(T)
<1>1. Len(q) \in Nat /\ q \in [1 .. Len(q) -> S] BY LenProperties
<1>2. q \in [1 .. Len(q) -> T] BY <1>1
<1> QED BY <1>1, <1>2, IsASeq

\* materialize caches the texts it replays and changes nothing a store says.
LEMMA WarmedFacts ==
  ASSUME Inv, LiveFinite, NEW s \in StoreSet(Live), CacheOK(Live, root, s),
         NEW t, Spells(parent, root, s, t), NEW n \in Live, NEW cur
  PROVE  LET q == Warmed(s, root, cur, n) IN
         /\ q \in StoreSet(Live) /\ CacheOK(Live, root, q) /\ Spells(parent, root, q, t)
         /\ q.base = s.base /\ q.delta = s.delta /\ q.depth = s.depth
<1> DEFINE q == Warmed(s, root, cur, n)
           a == Anchor(s, root, n)
           path == Anc(parent, n) \ Anc(parent, a)
           text == Replayed(s, root, n)
           cached == [m \in DOMAIN s.cache |-> IF m \in path THEN text[m] ELSE s.cache[m]]
           p == [s EXCEPT !.cache = cached]
           nodes == BySeq(path)
<1>1. /\ s.base \in Text /\ s.delta \in [Live -> Deltas] /\ s.cache \in [Live -> Text \cup {NoText}]
      /\ s.depth \in [Live -> Nat] /\ s.warm \in Seq(Live) /\ s.keys \in Seq(Live)
      /\ s = [base |-> s.base, delta |-> s.delta, cache |-> s.cache, depth |-> s.depth,
              warm |-> s.warm, keys |-> s.keys]
  BY DEF StoreSet
<1>2. /\ a \in Anc(parent, n)
      /\ \A k \in Anc(parent, n) : HasContent(s, root, k) => k \in Anc(parent, a)
  BY AnchorExists
<1>3. Anc(parent, n) \subseteq Live BY AncDomain DEF Live
<1>4. t \in [Live -> Text] BY DEF Spells, Live
<1>5. \A m \in path : /\ m \in Live /\ m # root /\ s.cache[m] = NoText
                      /\ text[m] = t[m] /\ t[m] \in Text
  BY <1>2, <1>3, <1>4, ReplaySpells DEF HasContent
<1>6. path \in SUBSET Live BY <1>3
<1> HIDE DEF path, text
<1>7. nodes \in Seq(path) /\ ToSet(nodes) = path /\ Distinct(nodes)
  BY <1>6, BySeqFacts
<1>8. nodes \in Seq(Live) BY <1>6, <1>7, SeqInto
<1> HIDE DEF nodes
<1>9. cached \in [Live -> Text \cup {NoText}]
      /\ \A m \in Live : cached[m] = IF m \in path THEN t[m] ELSE s.cache[m]
  BY <1>1, <1>5
<1> HIDE DEF cached
<1>11. /\ p \in StoreSet(Live) /\ p.base = s.base /\ p.delta = s.delta /\ p.cache = cached
       /\ p.depth = s.depth /\ p.warm = s.warm /\ p.keys = s.keys
  BY <1>9, Recached
<1>12. /\ p.base = s.base /\ p.delta = s.delta /\ p.cache = cached /\ p.depth = s.depth
       /\ p.warm = s.warm /\ p.keys = s.keys
  BY <1>11
<1> HIDE DEF p
<1>13. Listed(root, p) BY <1>12 DEF CacheOK, Listed
<1>14. \A m \in Live : p.cache[m] # NoText <=> m \in Lists(p) \cup ToSet(nodes)
  <2> SUFFICES ASSUME NEW m \in Live
               PROVE  p.cache[m] # NoText <=> m \in Lists(p) \cup ToSet(nodes)
    OBVIOUS
  <2>1. Lists(p) = Lists(s) BY <1>12 DEF Lists
  <2>2. s.cache[m] # NoText <=> m \in Lists(s) BY DEF CacheOK
  <2> QED BY <1>5, <1>7, <1>9, <1>12, <2>1, <2>2, NoTextIsNone
<1>15. root \notin ToSet(nodes) BY <1>5, <1>7
<1>16. q = TouchWarm(p, root, cur, nodes)
  BY DEF Warmed, p, cached, text, path, nodes
<1>17. /\ q \in StoreSet(Live) /\ CacheOK(Live, root, q)
       /\ q.base = p.base /\ q.delta = p.delta /\ q.depth = p.depth
       /\ \A m \in Live : q.cache[m] \in {NoText, p.cache[m]}
  BY <1>7, <1>8, <1>11, <1>13, <1>14, <1>15, <1>16, TouchWarmFacts
<1> HIDE DEF q
<1>18. Spells(parent, root, q, t)
  <2>1. \A m \in Live : q.cache[m] \in {NoText, t[m]}
    <3> SUFFICES ASSUME NEW m \in Live PROVE q.cache[m] \in {NoText, t[m]} OBVIOUS
    <3>1. s.cache[m] \in {NoText, t[m]} BY DEF Spells, Live
    <3> QED BY <1>9, <1>12, <1>17, <3>1
  <2> QED BY <1>12, <1>17, <2>1 DEF Spells, Live
<1> QED BY <1>12, <1>17, <1>18 DEF q

\* A list is one over the set of its elements.
LEMMA SeqOver ==
  ASSUME NEW D, NEW q \in Seq(D), NEW S, ToSet(q) \subseteq S
  PROVE  q \in Seq(S)
<1>1. Len(q) \in Nat /\ DOMAIN q = 1 .. Len(q) /\ q \in [1 .. Len(q) -> D] BY LenProperties
<1>2. q \in [1 .. Len(q) -> S] BY <1>1 DEF ToSet
<1> QED BY <1>1, <1>2, IsASeq

\* Filtering makes no list longer.
LEMMA OnlyShorter ==
  ASSUME NEW T, NEW q \in Seq(T), Distinct(q), NEW S
  PROVE  /\ Len(Only(q, S)) <= Len(q) /\ Len(Only(q, S)) \in Nat /\ Len(q) \in Nat
<1> DEFINE o == Only(q, S)
           P == ToSet(o)
           Q == ToSet(q)
<1>1. o \in Seq(T) /\ P = Q \cap S /\ Distinct(o) BY OnlyFacts
<1> HIDE DEF o
<1>2. /\ IsFiniteSet(Q) /\ Cardinality(Q) = Len(q) /\ Len(q) \in Nat
      /\ Cardinality(P) = Len(o) /\ Len(o) \in Nat
  BY <1>1, DistinctLen
<1> HIDE DEF P, Q
<1>3. P \in SUBSET Q BY <1>1
<1>4. Cardinality(P) <= Cardinality(Q) BY <1>2, <1>3, FS_Subset
<1> QED BY <1>2, <1>4 DEF o

LEMMA WithoutShorter ==
  ASSUME NEW T, NEW q \in Seq(T), Distinct(q), NEW S
  PROVE  /\ Len(Without(q, S)) <= Len(q) /\ Len(Without(q, S)) \in Nat /\ Len(q) \in Nat
BY OnlyShorter DEF Without

\* free: the lists lose the nodes that go.
LEMMA KeepFacts ==
  ASSUME NEW D, NEW s \in StoreSet(D), NEW r, CacheOK(D, r, s), NEW S \in SUBSET D
  PROVE  LET q == Keep(s, S) IN
         /\ q \in StoreSet(S) /\ CacheOK(S, r, q) /\ q.base = s.base
         /\ \A n \in S : /\ q.delta[n] = s.delta[n] /\ q.cache[n] = s.cache[n]
                         /\ q.depth[n] = s.depth[n]
<1> DEFINE q == Keep(s, S)
           w == Only(s.warm, S)
           k == Only(s.keys, S)
           d == [n \in S |-> s.delta[n]]
           c == [n \in S |-> s.cache[n]]
           h == [n \in S |-> s.depth[n]]
<1>1. /\ s.base \in Text /\ s.delta \in [D -> Deltas] /\ s.cache \in [D -> Text \cup {NoText}]
      /\ s.depth \in [D -> Nat] /\ s.warm \in Seq(D) /\ s.keys \in Seq(D)
      /\ s = [base |-> s.base, delta |-> s.delta, cache |-> s.cache, depth |-> s.depth,
              warm |-> s.warm, keys |-> s.keys]
  BY DEF StoreSet
<1>2. Distinct(s.warm) /\ Distinct(s.keys) BY DEF CacheOK, Listed
<1>3. w \in Seq(D) /\ ToSet(w) = ToSet(s.warm) \cap S /\ Distinct(w) BY <1>1, <1>2, OnlyFacts
<1>4. k \in Seq(D) /\ ToSet(k) = ToSet(s.keys) \cap S /\ Distinct(k) BY <1>1, <1>2, OnlyFacts
<1>5. /\ Len(w) <= Len(s.warm) /\ Len(w) \in Nat /\ Len(s.warm) \in Nat
      /\ Len(k) <= Len(s.keys) /\ Len(k) \in Nat /\ Len(s.keys) \in Nat
  BY <1>1, <1>2, OnlyShorter
<1> HIDE DEF w, k
<1>6. w \in Seq(S) /\ k \in Seq(S) BY <1>3, <1>4, SeqOver
<1>7. d \in [S -> Deltas] /\ c \in [S -> Text \cup {NoText}] /\ h \in [S -> Nat] BY <1>1
<1>8. q = [base |-> s.base, delta |-> d, cache |-> c, depth |-> h, warm |-> w, keys |-> k]
  <2>1. q = [s EXCEPT !.delta = d, !.cache = c, !.depth = h, !.warm = w, !.keys = k]
    BY DEF Keep, Restricted, w, k
  <2> HIDE DEF d, c, h, q
  <2> QED BY <1>1, <2>1
<1>9. \A n \in S : d[n] = s.delta[n] /\ c[n] = s.cache[n] /\ h[n] = s.depth[n] OBVIOUS
<1> HIDE DEF d, c, h, q
<1>10. q \in StoreSet(S) BY <1>1, <1>6, <1>7, <1>8 DEF StoreSet
<1>11. /\ q.base = s.base /\ q.delta = d /\ q.cache = c /\ q.depth = h
       /\ q.warm = w /\ q.keys = k
  BY <1>8
<1>12. WarmCap \in Nat /\ KeyCap \in Nat BY StoreAssumption
<1>13. Len(w) <= WarmCap /\ Len(k) <= KeyCap BY <1>5, <1>12 DEF CacheOK, Listed
<1>14. Listed(r, q)
  <2>1. \A n \in ToSet(w) : n # r /\ h[n] % KeyInterval # 0
    BY <1>3, <1>9 DEF CacheOK, Listed
  <2>2. \A n \in ToSet(k) : n # r /\ h[n] % KeyInterval = 0
    BY <1>4, <1>9 DEF CacheOK, Listed
  <2> QED BY <1>3, <1>4, <1>11, <1>13, <2>1, <2>2 DEF Listed
<1>15. \A n \in S : q.cache[n] # NoText <=> n \in Lists(q)
  BY <1>3, <1>4, <1>9, <1>11 DEF Lists, CacheOK
<1> QED BY <1>9, <1>10, <1>11, <1>14, <1>15 DEF CacheOK, q

\* The store once n is the root, with a base text x and the deltas d.
Rerooted(s, n, x, d) ==
  [base |-> x, delta |-> d, cache |-> [s.cache EXCEPT ![n] = NoText],
   depth |-> s.depth, warm |-> Without(s.warm, {n}), keys |-> Without(s.keys, {n})]

\* A root holds a full base text and no cached one: it is on neither list.
LEMMA Rooted ==
  ASSUME NEW D, NEW s \in StoreSet(D), NEW r, CacheOK(D, r, s), NEW n \in D,
         NEW x \in Text, NEW d \in [D -> Deltas]
  PROVE  LET q == Rerooted(s, n, x, d) IN
         /\ q \in StoreSet(D) /\ CacheOK(D, n, q)
         /\ q.base = x /\ q.delta = d /\ q.depth = s.depth
         /\ \A m \in D : q.cache[m] = IF m = n THEN NoText ELSE s.cache[m]
<1> DEFINE q == Rerooted(s, n, x, d)
           w == Without(s.warm, {n})
           k == Without(s.keys, {n})
           c == [s.cache EXCEPT ![n] = NoText]
<1>1. /\ s.cache \in [D -> Text \cup {NoText}]
      /\ s.depth \in [D -> Nat] /\ s.warm \in Seq(D) /\ s.keys \in Seq(D)
  BY DEF StoreSet
<1>2. Distinct(s.warm) /\ Distinct(s.keys) BY DEF CacheOK, Listed
<1>3. w \in Seq(D) /\ ToSet(w) = ToSet(s.warm) \ {n} /\ Distinct(w) BY <1>1, <1>2, WithoutFacts
<1>4. k \in Seq(D) /\ ToSet(k) = ToSet(s.keys) \ {n} /\ Distinct(k) BY <1>1, <1>2, WithoutFacts
<1>5. /\ Len(w) <= Len(s.warm) /\ Len(w) \in Nat /\ Len(s.warm) \in Nat
      /\ Len(k) <= Len(s.keys) /\ Len(k) \in Nat /\ Len(s.keys) \in Nat
  BY <1>1, <1>2, WithoutShorter
<1>6. /\ c \in [D -> Text \cup {NoText}]
      /\ \A m \in D : c[m] = IF m = n THEN NoText ELSE s.cache[m]
  BY <1>1
<1>7. q = [base |-> x, delta |-> d, cache |-> c, depth |-> s.depth, warm |-> w, keys |-> k]
  BY DEF Rerooted
<1> HIDE DEF w, k, c, q
<1>8. q \in StoreSet(D) BY <1>1, <1>3, <1>4, <1>6, <1>7 DEF StoreSet
<1>9. /\ q.base = x /\ q.delta = d /\ q.cache = c /\ q.depth = s.depth
      /\ q.warm = w /\ q.keys = k
  BY <1>7
<1>10. WarmCap \in Nat /\ KeyCap \in Nat BY StoreAssumption
<1>11. Len(w) <= WarmCap /\ Len(k) <= KeyCap BY <1>5, <1>10 DEF CacheOK, Listed
<1>12. Listed(n, q) BY <1>3, <1>4, <1>9, <1>11 DEF Listed, CacheOK
<1>13. Lists(q) = Lists(s) \ {n} BY <1>3, <1>4, <1>9 DEF Lists
<1>14. \A m \in D : q.cache[m] # NoText <=> m \in Lists(q)
  BY <1>6, <1>9, <1>13 DEF CacheOK
<1> QED BY <1>6, <1>8, <1>9, <1>12, <1>14 DEF CacheOK, q

\* A text that other nodes' deltas were not computed from can be replaced.
LEMMA Respelled ==
  ASSUME Inv, NEW t \in [Live -> Text], NEW n \in Live, NEW x \in Text,
         children[n] = {} \/ t[n] = x
  PROVE  /\ [t EXCEPT ![n] = x] \in [Live -> Text]
         /\ [t EXCEPT ![n] = x][n] = x
         /\ \A m \in Live \ {n} : [t EXCEPT ![n] = x][m] = t[m]
         /\ \A m \in Live \ {root} : /\ parent[m] \in Live
                                     /\ [t EXCEPT ![n] = x][parent[m]] = t[parent[m]]
         /\ n # root => parent[n] \in Live /\ parent[n] # n
<1>1. \A m \in Live \ {root} : parent[m] \in Live /\ (parent[m] = n => m \in children[n])
  BY DEF Inv, TypeOK, IsTree
<1>2. n # root => parent[n] # n
  <2> SUFFICES ASSUME n # root, parent[n] = n PROVE FALSE OBVIOUS
  <2>1. n # NoNode /\ seq[n] \in Nat BY ArenaAssumption DEF Inv, TypeOK
  <2>2. seq[n] < seq[n] BY <2>1 DEF Inv, SeqOrdered
  <2> QED BY <2>1, <2>2
<1>3. t[n] = x => [t EXCEPT ![n] = x] = t OBVIOUS
<1> QED BY <1>1, <1>2, <1>3

\* set_node_state: the node's text is replaced and every other one is kept.
LEMMA SetNodeStateFacts ==
  ASSUME Inv, LiveFinite, NEW s \in StoreSet(Live), CacheOK(Live, root, s),
         NEW t, Spells(parent, root, s, t), NEW n \in Live, NEW x \in Text, NEW cur,
         children[n] = {} \/ t[n] = x
  PROVE  LET q == SetNodeState(s, root, cur, n, x) IN
         /\ q \in StoreSet(Live) /\ CacheOK(Live, root, q)
         /\ Spells(parent, root, q, [t EXCEPT ![n] = x])
<1> DEFINE q == SetNodeState(s, root, cur, n, x)
           u == [t EXCEPT ![n] = x]
<1>1. /\ s.base \in Text /\ s.delta \in [Live -> Deltas] /\ s.cache \in [Live -> Text \cup {NoText}]
      /\ s.depth \in [Live -> Nat] /\ s.warm \in Seq(Live) /\ s.keys \in Seq(Live)
      /\ s = [base |-> s.base, delta |-> s.delta, cache |-> s.cache, depth |-> s.depth,
              warm |-> s.warm, keys |-> s.keys]
  BY DEF StoreSet
<1>2. /\ t \in [Live -> Text] /\ s.base = t[root]
      /\ \A m \in Live \ {root} : s.delta[m] = Diff(t[parent[m]], t[m])
      /\ \A m \in Live : s.cache[m] \in {NoText, t[m]}
  BY DEF Spells, Live
<1>3. /\ u \in [Live -> Text] /\ u[n] = x
      /\ \A m \in Live \ {n} : u[m] = t[m]
      /\ \A m \in Live \ {root} : parent[m] \in Live /\ u[parent[m]] = t[parent[m]]
      /\ n # root => parent[n] \in Live /\ parent[n] # n
  BY <1>2, Respelled
<1>4. root \in Live BY DEF Inv, TypeOK
<1>5. CASE s.cache[n] = x \/ (n = root /\ s.base = x)
  <2>1. q = s BY <1>5 DEF SetNodeState
  <2>2. t[n] = x BY <1>2, <1>5, NoTextIsNone
  <2>3. u = t BY <1>2, <2>2
  <2> QED BY <2>1, <2>3
<1>6. CASE ~(s.cache[n] = x \/ (n = root /\ s.base = x)) /\ n = root
  <2>1. q = [s EXCEPT !.base = x, !.cache[n] = NoText,
                      !.warm = Without(@, {n}), !.keys = Without(@, {n})]
    BY <1>6 DEF SetNodeState
  <2> DEFINE c == [s.cache EXCEPT ![n] = NoText]
             w == Without(s.warm, {n})
             k == Without(s.keys, {n})
  <2>2. q = [s EXCEPT !.base = x, !.cache = c, !.warm = w, !.keys = k] BY <2>1
  <2>3. q = [base |-> x, delta |-> s.delta, cache |-> c, depth |-> s.depth, warm |-> w, keys |-> k]
    <3> HIDE DEF q, c, w, k
    <3> QED BY <1>1, <2>2
  <2> HIDE DEF q
  <2>4. /\ q \in StoreSet(Live) /\ CacheOK(Live, n, q)
        /\ q.base = x /\ q.delta = s.delta
        /\ \A m \in Live : q.cache[m] = IF m = n THEN NoText ELSE s.cache[m]
    <3>1. s.delta \in [Live -> Deltas] BY <1>1
    <3>2. q = Rerooted(s, n, x, s.delta) BY <2>3 DEF Rerooted
    <3> QED BY <3>1, <3>2, Rooted
  <2> HIDE DEF u
  <2>5. Spells(parent, root, q, u)
    <3>1. q.base = u[root] BY <1>3, <1>6, <2>4
    <3>2. \A m \in Live \ {root} : q.delta[m] = Diff(u[parent[m]], u[m])
      BY <1>2, <1>3, <1>6, <2>4
    <3>3. \A m \in Live : q.cache[m] \in {NoText, u[m]}
      BY <1>2, <1>3, <2>4
    <3> QED BY <1>3, <3>1, <3>2, <3>3 DEF Spells, Live
  <2> QED BY <1>6, <2>4, <2>5 DEF q, u
<1>7. CASE ~(s.cache[n] = x \/ (n = root /\ s.base = x)) /\ n # root
  <2> DEFINE p == Warmed(s, root, cur, parent[n])
             e == Diff(Rope(s, root, parent[n]), x)
             d == [p.delta EXCEPT ![n] = e]
             c == [p.cache EXCEPT ![n] = x]
             g == [p EXCEPT !.delta = d, !.cache = c]
             one == <<n>>
  <2>1. parent[n] \in Live /\ parent[n] # n BY <1>3, <1>7
  <2>2. /\ p \in StoreSet(Live) /\ CacheOK(Live, root, p) /\ Spells(parent, root, p, t)
        /\ p.base = s.base /\ p.delta = s.delta
    BY <2>1, WarmedFacts
  <2>3. e = Diff(t[parent[n]], x) /\ e \in Deltas
    BY <1>2, <2>1, RopeSpells, DiffApplies
  <2>4. q = TouchWarm([p EXCEPT !.delta[n] = e, !.cache[n] = x], root, cur, <<n>>)
    BY <1>7 DEF SetNodeState
  <2>5. q = TouchWarm(g, root, cur, <<n>>) BY <2>4
  <2> HIDE DEF p, e, q
  <2>6. /\ p.base \in Text /\ p.delta \in [Live -> Deltas]
        /\ p.cache \in [Live -> Text \cup {NoText}]
        /\ p.depth \in [Live -> Nat] /\ p.warm \in Seq(Live) /\ p.keys \in Seq(Live)
        /\ p = [base |-> p.base, delta |-> p.delta, cache |-> p.cache, depth |-> p.depth,
                warm |-> p.warm, keys |-> p.keys]
    BY <2>2 DEF StoreSet
  <2>7. /\ d \in [Live -> Deltas] /\ c \in [Live -> Text \cup {NoText}]
        /\ \A m \in Live : d[m] = IF m = n THEN e ELSE p.delta[m]
        /\ \A m \in Live : c[m] = IF m = n THEN x ELSE p.cache[m]
    BY <2>3, <2>6
  <2> HIDE DEF d, c
  <2>8. g = [base |-> p.base, delta |-> d, cache |-> c, depth |-> p.depth,
             warm |-> p.warm, keys |-> p.keys]
    <3>1. g = [p EXCEPT !.delta = d, !.cache = c] OBVIOUS
    <3> HIDE DEF g
    <3> QED BY <2>6, <3>1
  <2> HIDE DEF g
  <2>9. /\ g.base = p.base /\ g.delta = d /\ g.cache = c /\ g.depth = p.depth
        /\ g.warm = p.warm /\ g.keys = p.keys
    BY <2>8
  <2>10. g \in StoreSet(Live) BY <2>6, <2>7, <2>8 DEF StoreSet
  <2>11. Listed(root, g) /\ Lists(g) = Lists(p) BY <2>2, <2>9 DEF CacheOK, Listed, Lists
  <2>12. one \in Seq(Live) /\ ToSet(one) = {n} /\ Distinct(one)
    BY DEF ToSet, Distinct
  <2>17. q = TouchWarm(g, root, cur, one) BY <2>5
  <2> HIDE DEF one
  <2>13. \A m \in Live : g.cache[m] # NoText <=> m \in Lists(g) \cup ToSet(one)
    BY <2>2, <2>7, <2>9, <2>11, <2>12, NoTextIsNone DEF CacheOK
  <2>14. root \notin ToSet(one) BY <1>7, <2>12
  <2>15. /\ q \in StoreSet(Live) /\ CacheOK(Live, root, q)
         /\ q.base = g.base /\ q.delta = g.delta
         /\ \A m \in Live : q.cache[m] \in {NoText, g.cache[m]}
    BY <2>17, <2>10, <2>11, <2>12, <2>13, <2>14, TouchWarmFacts
  <2> HIDE DEF u
  <2>16. Spells(parent, root, q, u)
    <3>1. q.base = u[root] BY <1>2, <1>3, <1>4, <1>7, <2>2, <2>9, <2>15
    <3>2. \A m \in Live \ {root} : q.delta[m] = Diff(u[parent[m]], u[m])
      <4> SUFFICES ASSUME NEW m \in Live \ {root} PROVE q.delta[m] = Diff(u[parent[m]], u[m])
        OBVIOUS
      <4>1. CASE m = n BY <1>3, <2>3, <2>7, <2>9, <2>15, <4>1
      <4>2. CASE m # n BY <1>2, <1>3, <2>2, <2>7, <2>9, <2>15, <4>2
      <4> QED BY <4>1, <4>2
    <3>3. \A m \in Live : q.cache[m] \in {NoText, u[m]}
      <4> SUFFICES ASSUME NEW m \in Live PROVE q.cache[m] \in {NoText, u[m]} OBVIOUS
      <4>1. p.cache[m] \in {NoText, t[m]} BY <2>2 DEF Spells, Live
      <4> QED BY <1>3, <2>7, <2>9, <2>15, <4>1
    <3> QED BY <1>3, <3>1, <3>2, <3>3 DEF Spells, Live
  <2> QED BY <2>15, <2>16 DEF q, u
<1> QED BY <1>5, <1>6, <1>7

\* What every node restores.
Texts == [n \in Live |-> Content(n)]

StoreCore ==
  /\ store \in StoreSet(Live)
  /\ buf \in Text
  /\ Spells(parent, root, store, Texts)
  /\ CacheOK(Live, root, store)
  /\ children[current] # {} => buf = Texts[current]

StoreInv ==
  /\ StoreCore
  /\ phase \in {"closed", "fresh", "edited"}
  /\ phase # "closed" => children[current] = {}
  /\ phase = "fresh" => /\ buf = Texts[current]
                        /\ parent[current] # NoNode => Texts[parent[current]] = buf

\* What the store spells out is what the nodes restore.
SpellsTexts == \A t : Spells(parent, root, store, t) => Texts = t

LEMMA TextsAre == Inv => SpellsTexts
<1> SUFFICES ASSUME Inv, NEW t, Spells(parent, root, store, t) PROVE Texts = t
  BY DEF SpellsTexts
<1>1. t \in [Live -> Text] BY DEF Spells, Live
<1>2. \A n \in Live : Content(n) = t[n] BY RopeSpells DEF Content
<1> QED BY <1>1, <1>2 DEF Texts

LEMMA TextsNext ==
  ASSUME Inv', NEW u, Spells(parent', root', store', u)
  PROVE  Texts' = u
<1>1. Inv' => SpellsTexts' BY TextsAre, PTL
<1> QED BY <1>1 DEF SpellsTexts

\* The live text is stashed into the node that is about to be left.
Stashed == [Texts EXCEPT ![current] = buf]

LEMMA StashFacts ==
  ASSUME Inv, LiveFinite, StoreCore
  PROVE  /\ Stash \in StoreSet(Live) /\ CacheOK(Live, root, Stash)
         /\ Spells(parent, root, Stash, Stashed)
<1>1. /\ store \in StoreSet(Live) /\ CacheOK(Live, root, store)
      /\ Spells(parent, root, store, Texts) /\ buf \in Text
      /\ children[current] = {} \/ Texts[current] = buf
  BY DEF StoreInv, StoreCore
<1>2. current \in Live BY DEF Inv, TypeOK
<1> QED BY <1>1, <1>2, SetNodeStateFacts DEF Stash, Stashed

\* undo_step: the cold parent's text is derived from the child's.
LEMMA DeriveFacts ==
  ASSUME Inv, NEW s \in StoreSet(Live), CacheOK(Live, root, s),
         NEW u, Spells(parent, root, s, u), parent[current] # NoNode
  PROVE  LET q == DeriveParent(s, parent[current]) IN
         q \in StoreSet(Live) /\ CacheOK(Live, root, q) /\ Spells(parent, root, q, u)
<1> DEFINE par == parent[current]
           q == DeriveParent(s, par)
<1>1. CASE HasContent(s, root, par) \/ s.cache[current] = NoText
  BY <1>1 DEF DeriveParent
<1>2. CASE ~(HasContent(s, root, par) \/ s.cache[current] = NoText)
  <2> DEFINE x == ApplyInverse(s.cache[current], s.delta[current])
             c == [s.cache EXCEPT ![par] = x]
             p == [s EXCEPT !.cache = c]
             one == <<par>>
  <2>1. /\ current \in Live /\ par \in Live /\ current # root
    BY DEF Inv, TypeOK, IsTree
  <2>2. /\ u \in [Live -> Text] /\ s.base = u[root]
        /\ \A m \in Live \ {root} : s.delta[m] = Diff(u[parent[m]], u[m])
        /\ \A m \in Live : s.cache[m] \in {NoText, u[m]}
    BY DEF Spells, Live
  <2>3. s.cache[current] = u[current] /\ s.delta[current] = Diff(u[par], u[current])
    BY <1>2, <2>1, <2>2
  <2>4. x = u[par] /\ u[par] \in Text BY <2>1, <2>2, <2>3, DiffApplies
  <2>5. par # root /\ s.cache[par] = NoText BY <1>2 DEF HasContent
  <2>6. q = TouchWarm([s EXCEPT !.cache[par] = x], root, par, <<par>>)
    BY <1>2 DEF DeriveParent
  <2>7. q = TouchWarm(p, root, par, one) BY <2>6
  <2>8. one \in Seq(Live) /\ ToSet(one) = {par} /\ Distinct(one)
    BY <2>1 DEF ToSet, Distinct
  <2> HIDE DEF x
  <2>9. s.cache \in [Live -> Text \cup {NoText}] BY DEF StoreSet
  <2>10. /\ c \in [Live -> Text \cup {NoText}]
         /\ \A m \in Live : c[m] = IF m = par THEN u[par] ELSE s.cache[m]
    BY <2>4, <2>9
  <2> HIDE DEF q, one, c
  <2>11. /\ p \in StoreSet(Live) /\ p.base = s.base /\ p.delta = s.delta /\ p.cache = c
         /\ p.depth = s.depth /\ p.warm = s.warm /\ p.keys = s.keys
    BY <2>10, Recached
  <2> HIDE DEF p, par
  <2>12. Listed(root, p) /\ Lists(p) = Lists(s) BY <2>11 DEF CacheOK, Listed, Lists
  <2>13. \A m \in Live : p.cache[m] # NoText <=> m \in Lists(p) \cup ToSet(one)
    BY <2>4, <2>8, <2>10, <2>11, <2>12, NoTextIsNone DEF CacheOK
  <2>14. root \notin ToSet(one) BY <2>5, <2>8
  <2>15. /\ q \in StoreSet(Live) /\ CacheOK(Live, root, q)
         /\ q.base = p.base /\ q.delta = p.delta
         /\ \A m \in Live : q.cache[m] \in {NoText, p.cache[m]}
    BY <2>7, <2>8, <2>11, <2>12, <2>13, <2>14, TouchWarmFacts
  <2>16. \A m \in Live : q.cache[m] \in {NoText, u[m]}
    BY <2>2, <2>10, <2>11, <2>15
  <2>17. Spells(parent, root, q, u)
    BY <2>2, <2>11, <2>15, <2>16 DEF Spells, Live
  <2> QED BY <2>15, <2>17 DEF q, par
<1> QED BY <1>1, <1>2

\* A history command restores the text of the node it lands on.
LEMMA LandFacts ==
  ASSUME Inv, LiveFinite, StoreCore, Inv',
         NEW s \in StoreSet(Live), CacheOK(Live, root, s), Spells(parent, root, s, Stashed),
         current' \in Live, Restore(s, current'),
         parent' = parent, root' = root, children' = children
  PROVE  StoreInv' /\ Tree!Land
<1> DEFINE n == current'
<1>1. store' = Warmed(s, root, n, n) /\ buf' = Rope(s, root, n) /\ phase' = "closed"
  BY DEF Restore
<1>2. /\ store' \in StoreSet(Live) /\ CacheOK(Live, root, store')
      /\ Spells(parent, root, store', Stashed)
  BY <1>1, WarmedFacts
<1>3. buf' = Stashed[n] BY <1>1, RopeSpells
<1>4. Stashed \in [Live -> Text] BY <1>2 DEF Spells, Live
<1>5. Live' = Live BY DEF Live
<1>6. Texts' = Stashed BY <1>2, TextsNext
<1>7. StoreInv'
  BY <1>1, <1>2, <1>3, <1>4, <1>5, <1>6 DEF StoreInv, StoreCore
<1>8. Tree!Land
  BY <1>1, <1>3, <1>6 DEF Tree!Land, Tree!Stashed, Texts, Stashed
<1> QED BY <1>7, <1>8

\* The arena below the abstract tree is the arena below the store.
LEMMA TreeHelpers ==
  /\ Tree!Live = Live
  /\ Tree!OverBudget <=> OverBudget
  /\ Tree!OffPathLeaves = OffPathLeaves
  /\ Tree!SeqAfterPop = SeqAfterPop
<1>1. Tree!Live = Live BY DEF Tree!Live, Live
<1>2. Tree!OverBudget <=> OverBudget BY DEF Tree!OverBudget, OverBudget, Tree!Live, Live, Tree!Cardinality, Cardinality, Tree!IsFiniteSet, IsFiniteSet
<1>3. Tree!Leaves = Leaves BY <1>1 DEF Tree!Leaves, Leaves
<1>4. Tree!OffPathLeaves = OffPathLeaves BY <1>3 DEF Tree!OffPathLeaves, OffPathLeaves
<1>5. Tree!SeqAfterPop = SeqAfterPop BY DEF Tree!SeqAfterPop, SeqAfterPop
<1> QED BY <1>1, <1>2, <1>4, <1>5

LEMMA TreeAnc == \A p, n : Tree!Anc(p, n) = Anc(p, n)
BY DEF Tree!Anc, Anc, Tree!Closed, Closed

LEMMA TreeInitArena == ArenaInit => Tree!ArenaInit
BY DEF Tree!ArenaInit, ArenaInit

LEMMA TreePush == ASSUME NEW c, Push(c) PROVE Tree!Push(c)
BY DEF Tree!Push, Push, Tree!Live, Live

LEMMA TreeStepUp == StepUp => Tree!StepUp
BY DEF Tree!StepUp, StepUp

LEMMA TreeStepDown == StepDown => Tree!StepDown
BY DEF Tree!StepDown, StepDown

LEMMA TreeRetarget == ASSUME NEW t, Retarget(t) PROVE Tree!Retarget(t)
<1>1. Tree!Fork(t) = Fork(t) BY DEF Tree!Fork, Fork, Tree!Anc, Anc, Tree!Closed, Closed
<1>2. Tree!Joining(t) = Joining(t) BY <1>1, TreeAnc DEF Tree!Joining, Joining
<1>3. Tree!Leaving(t) = Leaving(t) BY <1>1, TreeAnc DEF Tree!Leaving, Leaving
<1>4. \A S : Tree!Relinked(S) = Relinked(S)
  BY DEF Tree!Relinked, Relinked, Tree!Live, Live
<1> QED BY <1>2, <1>3, <1>4 DEF Tree!Retarget, Retarget, Tree!Live, Live

LEMMA TreeEarlier == ASSUME NEW t, SeqEarlier(t) PROVE Tree!SeqEarlier(t)
<1>1. Tree!IsBelow(t) BY DEF SeqEarlier, Tree!IsBelow, IsBelow, Tree!Live, Live
<1> QED BY <1>1, TreeRetarget DEF Tree!SeqEarlier, SeqEarlier

LEMMA TreeLater == ASSUME NEW t, SeqLater(t) PROVE Tree!SeqLater(t)
<1>1. Tree!IsAbove(t) BY DEF SeqLater, Tree!IsAbove, IsAbove, Tree!Live, Live
<1> QED BY <1>1, TreeRetarget DEF Tree!SeqLater, SeqLater

LEMMA TreePop == Pop => Tree!Pop
BY DEF Tree!Pop, Pop, Tree!Live, Live, Tree!IsLast, IsLast, Tree!Restricted, Restricted,
       Tree!SeqAfterPop, SeqAfterPop

LEMMA TreeDropLeaf == ASSUME NEW leaf, DropLeaf(leaf) PROVE Tree!DropLeaf(leaf)
BY TreeHelpers DEF Tree!DropLeaf, DropLeaf, Tree!IsLast, IsLast, Tree!Restricted, Restricted

LEMMA TreePruneRoot == ASSUME NEW child, PruneRoot(child) PROVE Tree!PruneRoot(child)
<1>1. Tree!PrunedWith(child) = PrunedWith(child)
  BY TreeAnc DEF Tree!PrunedWith, PrunedWith, Tree!Live, Live
<1> QED BY <1>1, TreeHelpers DEF Tree!PruneRoot, PruneRoot, Tree!Restricted, Restricted

LEMMA TreeCapDone == CapDone => Tree!CapDone
<1>1. Tree!ClearRedo <=> ClearRedo
  BY TreeAnc DEF Tree!ClearRedo, ClearRedo, Tree!Live, Live, Tree!Restricted, Restricted
<1>2. Tree!links = links BY DEF Tree!links, links
<1>3. Tree!links' = links' BY DEF Tree!links, links
<1> QED BY <1>1, <1>2, <1>3, TreeHelpers DEF Tree!CapDone, CapDone

LEMMA TreeClearAll == ClearAll => Tree!ClearAll
BY DEF Tree!ClearAll, ClearAll, Tree!Restricted, Restricted

LEMMA TreeReload == Reload => Tree!Reload
<1>1. \A S : Tree!Relinked(S) = Relinked(S)
  BY DEF Tree!Relinked, Relinked, Tree!Live, Live
<1> QED BY <1>1, TreeAnc DEF Tree!Reload, Reload, Tree!Live, Live

LEMMA TreeSetLevels == ASSUME NEW l, SetLevels(l) PROVE Tree!SetLevels(l)
BY DEF Tree!SetLevels, SetLevels, Tree!links, links

LEMMA UndoTrees ==
  ASSUME Inv, LiveFinite, StoreCore, Undo
  PROVE  StoreInv' /\ Tree!Undo
<1> DEFINE s == DeriveParent(Stash, parent[current])
<1>1. /\ StepUp /\ parent[current] # NoNode /\ current' = parent[current]
      /\ parent' = parent /\ root' = root /\ children' = children
  BY DEF Undo, StepUp
<1>2. Inv' BY <1>1, StepUpInv
<1>3. /\ Stash \in StoreSet(Live) /\ CacheOK(Live, root, Stash)
      /\ Spells(parent, root, Stash, Stashed)
  BY StashFacts
<1>4. /\ s \in StoreSet(Live) /\ CacheOK(Live, root, s) /\ Spells(parent, root, s, Stashed)
  BY <1>1, <1>3, DeriveFacts
<1>5. Restore(s, current') BY <1>1 DEF Undo
<1>6. current' \in Live BY <1>1 DEF Inv, TypeOK
<1> HIDE DEF s
<1>7. StoreInv' /\ Tree!Land BY <1>1, <1>2, <1>4, <1>5, <1>6, LandFacts
<1> QED BY <1>1, <1>7, TreeStepUp DEF Tree!Undo

LEMMA RedoTrees ==
  ASSUME Inv, LiveFinite, StoreCore, Redo
  PROVE  StoreInv' /\ Tree!Redo
<1>1. /\ StepDown /\ lastChild[current] # NoNode /\ current' = lastChild[current]
      /\ parent' = parent /\ root' = root /\ children' = children
  BY DEF Redo, StepDown
<1>2. Inv' BY <1>1, StepDownInv
<1>3. /\ Stash \in StoreSet(Live) /\ CacheOK(Live, root, Stash)
      /\ Spells(parent, root, Stash, Stashed)
  BY StashFacts
<1>5. Restore(Stash, current') BY <1>1 DEF Redo
<1>6. current' \in Live BY <1>1 DEF Inv, TypeOK
<1>7. StoreInv' /\ Tree!Land BY <1>1, <1>2, <1>3, <1>5, <1>6, LandFacts
<1> QED BY <1>1, <1>7, TreeStepDown DEF Tree!Redo

LEMMA RetargetTrees ==
  ASSUME Inv, LiveFinite, StoreCore, NEW t \in Live, Retarget(t), Restore(Stash, t), Inv'
  PROVE  StoreInv' /\ Tree!Land
<1>1. current' = t /\ parent' = parent /\ root' = root /\ children' = children
  BY DEF Retarget
<1>3. /\ Stash \in StoreSet(Live) /\ CacheOK(Live, root, Stash)
      /\ Spells(parent, root, Stash, Stashed)
  BY StashFacts
<1> QED BY <1>1, <1>3, LandFacts

LEMMA EarlierTrees ==
  ASSUME Inv, LiveFinite, StoreCore, Earlier
  PROVE  StoreInv' /\ Tree!Earlier
<1>1. PICK t \in Live : SeqEarlier(t) /\ Restore(Stash, t) BY DEF Earlier
<1>2. Retarget(t) /\ pc' \in {"idle", "push", "move"} BY <1>1 DEF SeqEarlier
<1>3. Inv' BY <1>2, RetargetInv
<1>4. StoreInv' /\ Tree!Land BY <1>1, <1>2, <1>3, RetargetTrees
<1> QED BY <1>1, <1>4, TreeEarlier DEF Tree!Earlier, Tree!Live, Live

LEMMA LaterTrees ==
  ASSUME Inv, LiveFinite, StoreCore, Later
  PROVE  StoreInv' /\ Tree!Later
<1>1. PICK t \in Live : SeqLater(t) /\ Restore(Stash, t) BY DEF Later
<1>2. Retarget(t) /\ pc' \in {"idle", "push", "move"} BY <1>1 DEF SeqLater
<1>3. Inv' BY <1>2, RetargetInv
<1>4. StoreInv' /\ Tree!Land BY <1>1, <1>2, <1>3, RetargetTrees
<1> QED BY <1>1, <1>4, TreeLater DEF Tree!Later, Tree!Live, Live

\* push_undo: the live text goes into the node that is left and, as an empty
\* delta, into the fresh one.
PushedTexts(c) == [n \in Live \cup {c} |-> IF n = c THEN buf ELSE Stashed[n]]

LEMMA PushStore ==
  ASSUME Inv, LiveFinite, StoreCore, PushUndo
  PROVE  \E c \in Node : /\ Push(c) /\ Inv'
                         /\ store' \in StoreSet(Live') /\ CacheOK(Live', root', store')
                         /\ Spells(parent', root', store', PushedTexts(c))
                         /\ Texts' = PushedTexts(c)
                         /\ phase' = "fresh" /\ buf' = buf
<1> DEFINE s == Stash
           D(c) == Live \cup {c}
           delta(c) == [n \in D(c) |-> IF n = c THEN Empty ELSE s.delta[n]]
           cache(c) == [n \in D(c) |-> IF n = c THEN buf ELSE s.cache[n]]
           depth(c) == [n \in D(c) |-> IF n = c THEN s.depth[current] + 1 ELSE s.depth[n]]
           grown(c) == [s EXCEPT !.delta = delta(c), !.cache = cache(c), !.depth = depth(c)]
<1>1. PICK c \in Node : /\ Push(c) /\ phase' = "fresh" /\ buf' = buf
                        /\ store' = TouchWarm(grown(c), root, c, <<c>>)
  BY DEF PushUndo
<1> DEFINE E == D(c)
           d == delta(c)
           k == cache(c)
           h == depth(c)
           g == grown(c)
           one == <<c>>
           u == PushedTexts(c)
<1>2. Inv' BY <1>1, PushInv
<1>3. /\ c \notin Live /\ Live' = E /\ root' = root /\ DOMAIN parent' = E /\ E = Live \cup {c}
      /\ \A n \in E : parent'[n] = IF n = c THEN current ELSE parent[n]
  BY <1>1 DEF Push, Live
<1>4. current \in Live /\ root \in Live /\ buf \in Text BY DEF Inv, TypeOK, StoreInv, StoreCore
<1>5. /\ s \in StoreSet(Live) /\ CacheOK(Live, root, s) /\ Spells(parent, root, s, Stashed)
  BY StashFacts
<1>6. /\ s.base \in Text /\ s.delta \in [Live -> Deltas] /\ s.cache \in [Live -> Text \cup {NoText}]
      /\ s.depth \in [Live -> Nat] /\ s.warm \in Seq(Live) /\ s.keys \in Seq(Live)
      /\ s = [base |-> s.base, delta |-> s.delta, cache |-> s.cache, depth |-> s.depth,
              warm |-> s.warm, keys |-> s.keys]
  BY <1>5 DEF StoreSet
<1>7. /\ Stashed \in [Live -> Text] /\ s.base = Stashed[root]
      /\ \A m \in Live \ {root} : s.delta[m] = Diff(Stashed[parent[m]], Stashed[m])
      /\ \A m \in Live : s.cache[m] \in {NoText, Stashed[m]}
  BY <1>5 DEF Spells, Live
<1> HIDE DEF s
<1>8. /\ d \in [E -> Deltas] /\ k \in [E -> Text \cup {NoText}] /\ h \in [E -> Nat]
  <2>1. d \in [E -> Deltas] BY <1>6 DEF Deltas
  <2>2. k \in [E -> Text \cup {NoText}] BY <1>4, <1>6
  <2>3. h \in [E -> Nat] BY <1>4, <1>6
  <2> QED BY <2>1, <2>2, <2>3
<1>9. \A n \in E : /\ d[n] = IF n = c THEN Empty ELSE s.delta[n]
                   /\ k[n] = IF n = c THEN buf ELSE s.cache[n]
                   /\ n # c => h[n] = s.depth[n]
  OBVIOUS
<1>10. g = [base |-> s.base, delta |-> d, cache |-> k, depth |-> h,
            warm |-> s.warm, keys |-> s.keys]
  <2>1. g = [s EXCEPT !.delta = d, !.cache = k, !.depth = h] OBVIOUS
  <2> HIDE DEF g, d, k, h
  <2> QED BY <1>6, <2>1
<1>11. store' = TouchWarm(g, root, c, one) BY <1>1
<1>12. one \in Seq(E) /\ ToSet(one) = {c} /\ Distinct(one) BY DEF ToSet, Distinct
<1>13. u \in [E -> Text] /\ \A n \in E : u[n] = IF n = c THEN buf ELSE Stashed[n]
  BY <1>4, <1>7 DEF PushedTexts
<1> HIDE DEF d, k, h, g, one, E, u
<1>14. s.warm \in Seq(E) /\ s.keys \in Seq(E) BY <1>3, <1>6, SeqInto
<1>15. g \in StoreSet(E) BY <1>6, <1>8, <1>10, <1>14 DEF StoreSet
<1>16. /\ g.base = s.base /\ g.delta = d /\ g.cache = k /\ g.depth = h
       /\ g.warm = s.warm /\ g.keys = s.keys
  BY <1>10
<1>17. ToSet(s.warm) \subseteq Live /\ ToSet(s.keys) \subseteq Live
  <2>1. \A q \in Seq(Live) : ToSet(q) \subseteq Live BY LenProperties, ElementOfSeq DEF ToSet
  <2> QED BY <1>6, <2>1
<1>18. Lists(g) = Lists(s) /\ Lists(g) \subseteq Live BY <1>16, <1>17 DEF Lists
<1>19. Listed(root, g)
  <2>1. \A n \in ToSet(s.warm) : n # root /\ h[n] % KeyInterval # 0
    BY <1>3, <1>5, <1>9, <1>17 DEF CacheOK, Listed
  <2>2. \A n \in ToSet(s.keys) : n # root /\ h[n] % KeyInterval = 0
    BY <1>3, <1>5, <1>9, <1>17 DEF CacheOK, Listed
  <2> QED BY <1>5, <1>16, <2>1, <2>2 DEF CacheOK, Listed
<1>20. \A n \in E : g.cache[n] # NoText <=> n \in Lists(g) \cup ToSet(one)
  BY <1>3, <1>4, <1>5, <1>9, <1>12, <1>16, <1>18, NoTextIsNone DEF CacheOK
<1>21. root \notin ToSet(one) BY <1>3, <1>4, <1>12
<1>22. /\ store' \in StoreSet(E) /\ CacheOK(E, root, store')
       /\ store'.base = g.base /\ store'.delta = g.delta
       /\ \A m \in E : store'.cache[m] \in {NoText, g.cache[m]}
  BY <1>11, <1>12, <1>15, <1>19, <1>20, <1>21, TouchWarmFacts
<1>23. Spells(parent', root', store', u)
  <2>1. store'.base = u[root'] BY <1>3, <1>4, <1>7, <1>13, <1>16, <1>22
  <2>2. \A n \in E \ {root'} : store'.delta[n] = Diff(u[parent'[n]], u[n])
    <3> SUFFICES ASSUME NEW n \in E \ {root'} PROVE store'.delta[n] = Diff(u[parent'[n]], u[n])
      OBVIOUS
    <3>1. CASE n = c
      <4>1. u[c] = buf /\ u[parent'[c]] = Stashed[current] BY <1>3, <1>4, <1>13, <3>1
      <4>2. Stashed[current] = buf BY <1>4, <1>7 DEF Stashed, Texts
      <4>3. store'.delta[n] = Empty BY <1>9, <1>16, <1>22, <3>1
      <4> QED BY <3>1, <4>1, <4>2, <4>3 DEF Diff
    <3>2. CASE n # c
      <4>1. n \in Live \ {root} /\ parent'[n] = parent[n] BY <1>3, <3>2
      <4>2. parent[n] \in Live BY <4>1 DEF Inv, TypeOK, IsTree
      <4>3. u[n] = Stashed[n] /\ u[parent[n]] = Stashed[parent[n]]
        BY <1>3, <1>13, <4>1, <4>2
      <4>4. store'.delta[n] = s.delta[n] BY <1>9, <1>16, <1>22, <3>2
      <4> QED BY <1>7, <4>1, <4>3, <4>4
    <3> QED BY <3>1, <3>2
  <2>3. \A n \in E : store'.cache[n] \in {NoText, u[n]}
    <3> SUFFICES ASSUME NEW n \in E PROVE store'.cache[n] \in {NoText, u[n]} OBVIOUS
    <3>1. n # c => s.cache[n] \in {NoText, Stashed[n]} BY <1>3, <1>7
    <3>2. g.cache[n] = IF n = c THEN buf ELSE s.cache[n] BY <1>9, <1>16
    <3> QED BY <1>13, <1>22, <3>1, <3>2
  <2> QED BY <1>3, <1>13, <2>1, <2>2, <2>3 DEF Spells
<1>24. Texts' = u BY <1>2, <1>23, TextsNext
<1> QED BY <1>1, <1>2, <1>3, <1>22, <1>23, <1>24 DEF u

LEMMA PushTrees ==
  ASSUME Inv, LiveFinite, StoreCore, PushUndo
  PROVE  StoreInv' /\ Tree!PushUndo
<1>1. PICK c \in Node : /\ Push(c) /\ Inv'
                        /\ store' \in StoreSet(Live') /\ CacheOK(Live', root', store')
                        /\ Spells(parent', root', store', PushedTexts(c))
                        /\ Texts' = PushedTexts(c)
                        /\ phase' = "fresh" /\ buf' = buf
  BY PushStore
<1>2. /\ children'[c] = {} /\ current' = c /\ parent'[c] = current /\ c \notin Live
      /\ current \in Live
  BY <1>1 DEF Push, Inv, TypeOK
<1>3. buf \in Text BY DEF StoreInv, StoreCore
<1>4. Texts \in [Live -> Text] BY DEF StoreInv, StoreCore, Spells, Live
<1>5. PushedTexts(c)[c] = buf /\ PushedTexts(c)[current] = buf
  BY <1>2, <1>4 DEF PushedTexts, Stashed
<1>6. StoreInv' BY <1>1, <1>2, <1>3, <1>5 DEF StoreInv, StoreCore
<1>7. Tree!PushUndo
  <2>1. Tree!Push(c) BY <1>1, TreePush
  <2> QED BY <1>1, <2>1 DEF Tree!PushUndo, Tree!Stashed, PushedTexts, Stashed, Texts,
             Tree!Live, Live
<1> QED BY <1>6, <1>7

\* Nodes are freed and the others keep their parents.
LEMMA ForgetFacts ==
  ASSUME Inv, StoreCore, Inv', Live' \subseteq Live, root' = root,
         \A n \in Live' : parent'[n] = parent[n], store' = Keep(store, Live')
  PROVE  /\ store' \in StoreSet(Live') /\ CacheOK(Live', root', store')
         /\ Spells(parent', root', store', Restricted(Texts, Live'))
         /\ Texts' = Restricted(Texts, Live')
<1> DEFINE S == Live'
           u == Restricted(Texts, S)
<1>1. /\ store \in StoreSet(Live) /\ CacheOK(Live, root, store) BY DEF StoreInv, StoreCore
<1>2. /\ Texts \in [Live -> Text] /\ store.base = Texts[root]
      /\ \A m \in Live \ {root} : store.delta[m] = Diff(Texts[parent[m]], Texts[m])
      /\ \A m \in Live : store.cache[m] \in {NoText, Texts[m]}
  BY DEF StoreInv, StoreCore, Spells, Live
<1>3. root \in S /\ \A n \in S \ {root} : parent'[n] \in S
  BY DEF Inv, TypeOK, IsTree
<1>4. S = DOMAIN parent' BY DEF Live
<1> HIDE DEF S
<1>5. S \in SUBSET Live BY DEF S
<1>6. /\ store' \in StoreSet(S) /\ CacheOK(S, root, store') /\ store'.base = store.base
      /\ \A n \in S : /\ store'.delta[n] = store.delta[n] /\ store'.cache[n] = store.cache[n]
  <2>1. store' = Keep(store, S) BY DEF S
  <2> QED BY <1>1, <1>5, <2>1, KeepFacts
<1>7. u \in [S -> Text] /\ \A n \in S : u[n] = Texts[n] BY <1>2, <1>5 DEF Restricted
<1> HIDE DEF u
<1>8. \A n \in S : parent'[n] = parent[n] BY DEF S
<1>9. Spells(parent', root', store', u)
  <2>1. store'.base = u[root] BY <1>2, <1>3, <1>6, <1>7
  <2>2. \A n \in S \ {root} : store'.delta[n] = Diff(u[parent'[n]], u[n])
    BY <1>2, <1>3, <1>5, <1>6, <1>7, <1>8
  <2>3. \A n \in S : store'.cache[n] \in {NoText, u[n]}
    BY <1>2, <1>5, <1>6, <1>7
  <2> QED BY <1>4, <1>7, <2>1, <2>2, <2>3 DEF Spells
<1>10. Texts' = u BY <1>9, TextsNext
<1> QED BY <1>6, <1>9, <1>10 DEF S, u

\* pop_committed: the node that stays current keeps its own text.
LEMMA PopStore ==
  ASSUME Inv, StoreCore, PopCommitted
  PROVE  /\ Inv' /\ store' \in StoreSet(Live') /\ CacheOK(Live', root', store')
         /\ Spells(parent', root', store', Restricted(Texts, Live'))
         /\ Texts' = Restricted(Texts, Live')
         /\ Live' = Live \ {current} /\ current' = parent[current] /\ current' \in Live'
         /\ parent' = Restricted(parent, Live') /\ root' = root
         /\ buf' = buf /\ phase' = "closed"
<1>1. /\ Pop /\ store' = Keep(store, Live') /\ phase' = "closed" /\ buf' = buf
  BY DEF PopCommitted, Live
<1>2. Inv' BY <1>1, PopInv
<1>3. /\ parent' = Restricted(parent, Live \ {current}) /\ root' = root
      /\ current' = parent[current]
  BY <1>1 DEF Pop
<1>4. Live' = Live \ {current} /\ \A n \in Live' : parent'[n] = parent[n]
  BY <1>3 DEF Live, Restricted
<1>5. current' \in Live' BY <1>2 DEF Inv, TypeOK
<1> QED BY <1>1, <1>2, <1>3, <1>4, <1>5, ForgetFacts

LEMMA PopTrees ==
  ASSUME Inv, StoreInv, PopLastUndo
  PROVE  StoreInv' /\ Tree!PopLastUndo
<1>0. StoreCore BY DEF StoreInv
<1>1. phase = "fresh" /\ PopCommitted /\ Pop BY DEF PopLastUndo, PopCommitted
<1>2. /\ Inv' /\ store' \in StoreSet(Live') /\ CacheOK(Live', root', store')
      /\ Spells(parent', root', store', Restricted(Texts, Live'))
      /\ Texts' = Restricted(Texts, Live')
      /\ current' = parent[current] /\ current' \in Live'
      /\ buf' = buf /\ phase' = "closed"
  BY <1>0, <1>1, PopStore
<1>3. buf \in Text /\ Texts[parent[current]] = buf
  BY <1>1 DEF StoreInv, StoreCore, Pop
<1>4. Texts'[current'] = buf' BY <1>2, <1>3 DEF Restricted
<1>5. StoreInv' BY <1>2, <1>3, <1>4 DEF StoreInv, StoreCore
<1>6. Tree!Pop BY <1>1, TreePop
<1>7. Tree!Forget
  BY <1>2 DEF Tree!Forget, Tree!Restricted, Restricted, Texts, Live
<1> QED BY <1>1, <1>2, <1>5, <1>6, <1>7 DEF Tree!PopLastUndo

\* prune_root_side: the promoted child gets its own text as its base.
LEMMA PromoteFacts ==
  ASSUME Inv, LiveFinite, StoreCore, NEW child \in Live, PruneRoot(child),
         store' = Promote(child)
  PROVE  /\ Inv' /\ store' \in StoreSet(Live') /\ CacheOK(Live', root', store')
         /\ Spells(parent', root', store', Restricted(Texts, Live'))
         /\ Texts' = Restricted(Texts, Live')
<1> DEFINE S == Live'
           u == Restricted(Texts, S)
           p == Warmed(store, root, current, child)
           s == Keep(p, S)
           x == Rope(store, root, child)
           d == [s.delta EXCEPT ![child] = Empty]
           c == [s.cache EXCEPT ![child] = NoText]
           w == Without(s.warm, {child})
           k == Without(s.keys, {child})
<1>1. Inv' BY PruneRootInv
<1>2. PrunedWith(child) = {root} BY PruneFreesRoot
<1>3. /\ S = Live \ {root} /\ root' = child
      /\ \A n \in S : parent'[n] = IF n = child THEN NoNode ELSE parent[n]
  BY <1>2 DEF PruneRoot, Live
<1>4. child \in S /\ \A n \in S \ {child} : parent'[n] \in S
  BY <1>1, <1>3 DEF Inv, TypeOK, IsTree
<1>5. S = DOMAIN parent' BY DEF Live
<1>6. /\ store \in StoreSet(Live) /\ CacheOK(Live, root, store)
      /\ Spells(parent, root, store, Texts)
  BY DEF StoreInv, StoreCore
<1>7. /\ p \in StoreSet(Live) /\ CacheOK(Live, root, p) /\ Spells(parent, root, p, Texts)
  BY <1>6, WarmedFacts
<1>8. x = Texts[child] BY <1>6, RopeSpells
<1>9. store' = [Keep(p, Live \ PrunedWith(child)) EXCEPT
                  !.base = x, !.delta[child] = Empty, !.cache[child] = NoText,
                  !.warm = Without(@, {child}), !.keys = Without(@, {child})]
  BY DEF Promote
<1>10. store' = [s EXCEPT !.base = x, !.delta[child] = Empty, !.cache[child] = NoText,
                          !.warm = Without(@, {child}), !.keys = Without(@, {child})]
  BY <1>2, <1>3, <1>9
<1> HIDE DEF p, x
<1>11. /\ Texts \in [Live -> Text]
       /\ \A m \in Live \ {root} : p.delta[m] = Diff(Texts[parent[m]], Texts[m])
       /\ \A m \in Live : p.cache[m] \in {NoText, Texts[m]}
  BY <1>7 DEF Spells, Live
<1> HIDE DEF S
<1>12. S \in SUBSET Live BY <1>3
<1>13. /\ s \in StoreSet(S) /\ CacheOK(S, root, s)
       /\ \A n \in S : /\ s.delta[n] = p.delta[n] /\ s.cache[n] = p.cache[n]
  BY <1>7, <1>12, KeepFacts
<1>14. store' = [s EXCEPT !.base = x, !.delta = d, !.cache = c, !.warm = w, !.keys = k]
  BY <1>10
<1> HIDE DEF s
<1>15. /\ s.delta \in [S -> Deltas]
       /\ s = [base |-> s.base, delta |-> s.delta, cache |-> s.cache, depth |-> s.depth,
               warm |-> s.warm, keys |-> s.keys]
  BY <1>13 DEF StoreSet
<1>16. store' = [base |-> x, delta |-> d, cache |-> c, depth |-> s.depth, warm |-> w, keys |-> k]
  <2> HIDE DEF d, c, w, k
  <2> QED BY <1>14, <1>15
<1>17. store' = Rerooted(s, child, x, d) BY <1>16 DEF Rerooted
<1>18. d \in [S -> Deltas] /\ \A n \in S \ {child} : d[n] = s.delta[n]
  BY <1>15 DEF Deltas
<1> HIDE DEF d, c, w, k
<1>19. x \in Text BY <1>8, <1>11
<1>20. /\ store' \in StoreSet(S) /\ CacheOK(S, child, store')
       /\ store'.base = x /\ store'.delta = d
       /\ \A m \in S : store'.cache[m] = IF m = child THEN NoText ELSE s.cache[m]
  BY <1>4, <1>13, <1>17, <1>18, <1>19, Rooted
<1>21. u \in [S -> Text] /\ \A n \in S : u[n] = Texts[n] BY <1>11, <1>12 DEF Restricted
<1> HIDE DEF u
<1>22. Spells(parent', root', store', u)
  <2>1. store'.base = u[child] BY <1>4, <1>8, <1>20, <1>21
  <2>2. \A n \in S \ {child} : store'.delta[n] = Diff(u[parent'[n]], u[n])
    BY <1>3, <1>4, <1>11, <1>12, <1>13, <1>18, <1>20, <1>21
  <2>3. \A n \in S : store'.cache[n] \in {NoText, u[n]}
    BY <1>11, <1>12, <1>13, <1>20, <1>21
  <2> QED BY <1>3, <1>5, <1>21, <2>1, <2>2, <2>3 DEF Spells
<1>23. Texts' = u BY <1>1, <1>22, TextsNext
<1> QED BY <1>1, <1>3, <1>20, <1>22, <1>23 DEF S, u

\* One iteration of cap, or its end, frees nodes and moves no text.
LEMMA CapStore ==
  ASSUME Inv, LiveFinite, StoreCore, CapUndo
  PROVE  /\ Inv' /\ store' \in StoreSet(Live') /\ CacheOK(Live', root', store')
         /\ Spells(parent', root', store', Restricted(Texts, Live'))
         /\ Texts' = Restricted(Texts, Live')
         /\ current' = current /\ current' \in Live' /\ Live' \subseteq Live
         /\ parent'[current] \in {NoNode, parent[current]}
         /\ children'[current] \subseteq children[current]
         /\ buf' = buf /\ phase' = phase
<1>0. buf' = buf /\ phase' = phase /\ current \in Live BY DEF CapUndo, Inv, TypeOK
<1>1. CASE \E leaf \in Live : DropLeaf(leaf) /\ store' = Keep(store, Live \ {leaf})
  <2>1. PICK leaf \in Live : DropLeaf(leaf) /\ store' = Keep(store, Live \ {leaf}) BY <1>1
  <2>2. Inv' BY <2>1, DropLeafInv
  <2>3. /\ parent' = Restricted(parent, Live \ {leaf}) /\ root' = root /\ current' = current
        /\ \A n \in Live \ {leaf} : children'[n] \subseteq children[n]
    BY <2>1 DEF DropLeaf
  <2>4. Live' = Live \ {leaf} /\ \A n \in Live' : parent'[n] = parent[n]
    BY <2>3 DEF Live, Restricted
  <2>5. current' \in Live' BY <2>2 DEF Inv, TypeOK
  <2>6. /\ store' \in StoreSet(Live') /\ CacheOK(Live', root', store')
        /\ Spells(parent', root', store', Restricted(Texts, Live'))
        /\ Texts' = Restricted(Texts, Live')
    BY <2>1, <2>2, <2>3, <2>4, ForgetFacts
  <2> QED BY <1>0, <2>2, <2>3, <2>4, <2>5, <2>6
<1>2. CASE \E child \in Live : PruneRoot(child) /\ store' = Promote(child)
  <2>1. PICK child \in Live : PruneRoot(child) /\ store' = Promote(child) BY <1>2
  <2>2. /\ Inv' /\ store' \in StoreSet(Live') /\ CacheOK(Live', root', store')
        /\ Spells(parent', root', store', Restricted(Texts, Live'))
        /\ Texts' = Restricted(Texts, Live')
    BY <2>1, PromoteFacts
  <2>3. /\ current' = current /\ Live' \subseteq Live
        /\ \A n \in Live' : /\ parent'[n] \in {NoNode, parent[n]}
                            /\ children'[n] \subseteq children[n]
    BY <2>1 DEF PruneRoot, Live, Restricted
  <2>4. current' \in Live' BY <2>2 DEF Inv, TypeOK
  <2> QED BY <1>0, <2>2, <2>3, <2>4
<1>3. CASE CapDone /\ store' = Keep(store, DOMAIN parent')
  <2>2. Inv' BY <1>3, CapDoneInv
  <2>3. /\ root' = root /\ current' = current /\ Live' \subseteq Live
        /\ \A n \in Live' : /\ parent'[n] = parent[n]
                            /\ children'[n] \subseteq children[n]
    <3>1. root' = root /\ current' = current BY <1>3 DEF CapDone
    <3>2. CASE pc = "push"
      <4>1. ClearRedo BY <1>3, <3>2 DEF CapDone
      <4> QED BY <3>1, <4>1 DEF ClearRedo, Restricted, Live
    <3>3. CASE pc # "push"
      <4>1. parent' = parent /\ children' = children BY <1>3, <3>3 DEF CapDone, links
      <4> QED BY <3>1, <4>1 DEF Live
    <3> QED BY <3>2, <3>3
  <2>4. current' \in Live' BY <2>2 DEF Inv, TypeOK
  <2>5. store' = Keep(store, Live') BY <1>3 DEF Live
  <2>6. /\ store' \in StoreSet(Live') /\ CacheOK(Live', root', store')
        /\ Spells(parent', root', store', Restricted(Texts, Live'))
        /\ Texts' = Restricted(Texts, Live')
    BY <2>2, <2>3, <2>5, ForgetFacts
  <2> QED BY <1>0, <2>2, <2>3, <2>4, <2>6
<1> QED BY <1>1, <1>2, <1>3 DEF CapUndo

LEMMA CapTrees ==
  ASSUME Inv, LiveFinite, StoreInv, CapUndo
  PROVE  StoreInv' /\ Tree!CapUndo
<1>0. StoreCore BY DEF StoreInv
<1>1. /\ Inv' /\ store' \in StoreSet(Live') /\ CacheOK(Live', root', store')
      /\ Spells(parent', root', store', Restricted(Texts, Live'))
      /\ Texts' = Restricted(Texts, Live')
      /\ current' = current /\ current' \in Live' /\ Live' \subseteq Live
      /\ parent'[current] \in {NoNode, parent[current]}
      /\ children'[current] \subseteq children[current]
      /\ buf' = buf /\ phase' = phase
  BY <1>0, CapStore
<1>2. Texts'[current'] = Texts[current] BY <1>1 DEF Restricted
<1>3. parent'[current'] # NoNode => /\ parent'[current'] = parent[current]
                                    /\ Texts'[parent'[current']] = Texts[parent[current]]
  <2> SUFFICES ASSUME parent'[current'] # NoNode
               PROVE  /\ parent'[current'] = parent[current]
                      /\ Texts'[parent'[current']] = Texts[parent[current]]
    OBVIOUS
  <2>1. parent'[current'] = parent[current] BY <1>1
  <2>2. parent'[current'] \in Live' BY <1>1 DEF Inv, TypeOK
  <2> QED BY <1>1, <2>1, <2>2 DEF Restricted
<1>4. StoreInv' BY <1>1, <1>2, <1>3 DEF StoreInv, StoreCore
<1>5. Tree!Forget
  BY <1>1 DEF Tree!Forget, Tree!Restricted, Restricted, Texts, Live
<1>6. \/ \E n \in Tree!Live : Tree!DropLeaf(n)
      \/ \E n \in Tree!Live : Tree!PruneRoot(n)
      \/ Tree!CapDone
  BY TreeDropLeaf, TreePruneRoot, TreeCapDone, TreeHelpers DEF CapUndo
<1> QED BY <1>1, <1>4, <1>5, <1>6 DEF Tree!CapUndo

\* A step that touches neither the links nor the store changes no text.
LEMMA TextsStay ==
  ASSUME Inv, StoreCore, Inv', parent' = parent, root' = root, store' = store
  PROVE  Texts' = Texts /\ Live' = Live
<1>1. Spells(parent', root', store', Texts) BY DEF StoreInv, StoreCore
<1> QED BY <1>1, TextsNext DEF Live

LEMMA EditTrees ==
  ASSUME Inv, StoreInv, Inv', NEW t \in Text, Edit(t)
  PROVE  StoreInv' /\ Tree!Edit(t)
<1>0. StoreCore BY DEF StoreInv
<1>1. /\ phase # "closed" /\ pc = "idle" /\ buf' = t /\ phase' = "edited"
      /\ UNCHANGED <<arenaVars, store>>
  BY DEF Edit, Typed
<1>2. parent' = parent /\ root' = root /\ store' = store /\ current' = current
      /\ children' = children
  BY <1>1 DEF arenaVars
<1>3. Texts' = Texts /\ Live' = Live BY <1>0, <1>2, TextsStay
<1>4. StoreInv' BY <1>1, <1>2, <1>3 DEF StoreInv, StoreCore
<1>5. Tree!Edit(t)
  BY <1>1, <1>3 DEF Tree!Edit, Tree!arenaVars, arenaVars, Texts
<1> QED BY <1>4, <1>5

LEMMA SetLevelsTrees ==
  ASSUME Inv, StoreInv, Inv', SetUndoLevels
  PROVE  StoreInv' /\ Tree!SetUndoLevels
<1>0. StoreCore BY DEF StoreInv
<1>1. PICK l \in Levels : SetLevels(l) BY DEF SetUndoLevels
<1>2. /\ store' = store /\ buf' = buf /\ phase' = phase
      /\ parent' = parent /\ root' = root /\ current' = current /\ children' = children
  BY <1>1 DEF SetUndoLevels, SetLevels, links
<1>3. Texts' = Texts /\ Live' = Live BY <1>0, <1>2, TextsStay
<1>4. StoreInv' BY <1>2, <1>3 DEF StoreInv, StoreCore
<1>5. Tree!SetUndoLevels BY <1>1, <1>2, <1>3, TreeSetLevels DEF Tree!SetUndoLevels, Texts
<1> QED BY <1>4, <1>5

\* A store that caches nothing.
LEMMA NothingCached ==
  ASSUME NEW D, NEW r, NEW s \in StoreSet(D), s.warm = <<>>, s.keys = <<>>,
         \A n \in D : s.cache[n] = NoText
  PROVE  CacheOK(D, r, s)
<1>1. Lists(s) = {} BY DEF Lists, ToSet
<1>2. WarmCap \in Nat /\ KeyCap \in Nat BY StoreAssumption
<1>3. Listed(r, s) BY <1>2 DEF Listed, Distinct, ToSet
<1> QED BY <1>1, <1>3 DEF CacheOK

\* set_content: the one node that is left keeps the text the tree knew.
LEMMA SetContentTrees ==
  ASSUME Inv, StoreCore, NEW t \in Text, SetContent(t)
  PROVE  StoreInv' /\ Tree!SetContent(t)
<1> DEFINE x == Rope(store, root, current)
           d == [n \in {current} |-> Empty]
           c == [n \in {current} |-> NoText]
           h == [n \in {current} |-> 0]
           u == Restricted(Texts, {current})
<1>1. /\ ClearAll /\ buf' = t /\ phase' = "closed"
      /\ store' = [base |-> x, delta |-> d, cache |-> c, depth |-> h, warm |-> <<>>, keys |-> <<>>]
  BY DEF SetContent
<1>2. Inv' BY <1>1, ClearAllInv
<1>3. /\ DOMAIN parent' = {current} /\ Live' = {current} /\ root' = current /\ current' = current
      /\ children'[current] = {} /\ current \in Live
  BY <1>1 DEF ClearAll, Live, Inv, TypeOK
<1>4. /\ Spells(parent, root, store, Texts) /\ Texts \in [Live -> Text]
  BY DEF StoreInv, StoreCore, Spells, Live
<1>5. x = Texts[current] /\ x \in Text BY <1>3, <1>4, RopeSpells
<1>6. /\ d \in [{current} -> Deltas] /\ c \in [{current} -> Text \cup {NoText}]
      /\ h \in [{current} -> Nat] /\ c[current] = NoText
  BY DEF Deltas
<1>7. u \in [{current} -> Text] /\ u[current] = Texts[current] BY <1>3, <1>4 DEF Restricted
<1> HIDE DEF x, d, c, h, u
<1>8. <<>> \in Seq({current}) OBVIOUS
<1>9. store' \in StoreSet({current}) BY <1>1, <1>5, <1>6, <1>8 DEF StoreSet
<1>10. /\ store'.base = x /\ store'.cache[current] = NoText
       /\ store'.warm = <<>> /\ store'.keys = <<>>
  BY <1>1, <1>6
<1>11. CacheOK({current}, current, store') BY <1>9, <1>10, NothingCached
<1>12. Spells(parent', root', store', u)
  BY <1>3, <1>5, <1>7, <1>10 DEF Spells
<1>13. Texts' = u BY <1>2, <1>12, TextsNext
<1>14. StoreInv' BY <1>1, <1>3, <1>9, <1>11, <1>12, <1>13 DEF StoreInv, StoreCore
<1>15. Tree!SetContent(t)
  BY <1>1, <1>13, TreeClearAll DEF Tree!SetContent, Tree!Restricted, Restricted, u, Texts, Live
<1> QED BY <1>14, <1>15

\* The undofile holds the base and the deltas; the caches and depths are new.
LEMMA ReopenTrees ==
  ASSUME Inv, LiveFinite, StoreCore, Reopen
  PROVE  StoreInv' /\ Tree!Reopen
<1> DEFINE s == Stash
           c == [n \in Live |-> NoText]
           h == [n \in Live |-> Cardinality(Anc(parent, n)) - 1]
<1>1. /\ Reload /\ buf' = buf /\ phase' = "closed"
      /\ store' = [s EXCEPT !.cache = c, !.depth = h, !.warm = <<>>, !.keys = <<>>]
  BY DEF Reopen
<1>2. Inv' BY <1>1, ReloadInv
<1>3. /\ parent' = parent /\ root' = root /\ current' = current /\ children' = children
      /\ Live' = Live /\ current \in Live
  BY <1>1 DEF Reload, Live, Inv, TypeOK
<1>4. /\ s \in StoreSet(Live) /\ Spells(parent, root, s, Stashed) BY StashFacts
<1>5. /\ s.base \in Text /\ s.delta \in [Live -> Deltas]
      /\ s = [base |-> s.base, delta |-> s.delta, cache |-> s.cache, depth |-> s.depth,
              warm |-> s.warm, keys |-> s.keys]
  BY <1>4 DEF StoreSet
<1> HIDE DEF s
<1>6. ASSUME NEW n \in Live PROVE h[n] \in Nat
  <2> DEFINE A == Anc(parent, n)
  <2>1. A \in SUBSET Live /\ n \in A BY AncSelf, AncDomain DEF Live
  <2> HIDE DEF A
  <2>2. IsFiniteSet(A) BY <2>1, FS_Subset DEF LiveFinite
  <2>3. Cardinality(A) \in Nat /\ Cardinality(A) # 0
    BY <2>1, <2>2, FS_CardinalityType, FS_EmptySet
  <2>4. h[n] = Cardinality(A) - 1 BY DEF A
  <2> HIDE DEF h
  <2> QED BY <2>3, <2>4
<1>7. h \in [Live -> Nat] BY <1>6
<1>8. c \in [Live -> Text \cup {NoText}] /\ \A n \in Live : c[n] = NoText OBVIOUS
<1> HIDE DEF c, h
<1>9. store' = [base |-> s.base, delta |-> s.delta, cache |-> c, depth |-> h,
                warm |-> <<>>, keys |-> <<>>]
  BY <1>1, <1>5
<1>10. <<>> \in Seq(Live) OBVIOUS
<1>11. store' \in StoreSet(Live) BY <1>5, <1>7, <1>8, <1>9, <1>10 DEF StoreSet
<1>12. /\ store'.base = s.base /\ store'.delta = s.delta /\ store'.cache = c
       /\ store'.warm = <<>> /\ store'.keys = <<>>
  BY <1>9
<1>13. CacheOK(Live, root, store') BY <1>8, <1>11, <1>12, NothingCached
<1>14. Spells(parent', root', store', Stashed)
  BY <1>3, <1>4, <1>8, <1>12 DEF Spells, Live
<1>15. Texts' = Stashed BY <1>2, <1>14, TextsNext
<1>16. Stashed[current] = buf BY <1>3 DEF Stashed, Texts
<1>17. buf \in Text BY DEF StoreInv, StoreCore
<1>18. StoreInv'
  BY <1>1, <1>3, <1>11, <1>13, <1>14, <1>15, <1>16, <1>17 DEF StoreInv, StoreCore
<1>19. Tree!Reopen
  BY <1>1, <1>15, TreeReload DEF Tree!Reopen, Tree!Stashed, Stashed, Texts
<1> QED BY <1>18, <1>19

LEMMA StoreStart ==
  ASSUME StoreInit
  PROVE  Inv /\ LiveFinite /\ StoreInv /\ Tree!TreeInit
<1> DEFINE d == [n \in {root} |-> Empty]
           c == [n \in {root} |-> NoText]
           h == [n \in {root} |-> 0]
           u == [n \in {root} |-> buf]
<1>1. /\ ArenaInit /\ buf \in Text /\ phase = "closed"
      /\ store = [base |-> buf, delta |-> d, cache |-> c, depth |-> h, warm |-> <<>>, keys |-> <<>>]
  BY DEF StoreInit
<1>2. Inv BY <1>1, InitInv
<1>3. /\ DOMAIN parent = {root} /\ Live = {root} /\ current = root /\ children[current] = {}
  BY <1>1 DEF ArenaInit, Live
<1>4. LiveFinite BY <1>3, FS_Singleton DEF LiveFinite
<1>6. /\ d \in [{root} -> Deltas] /\ c \in [{root} -> Text \cup {NoText}]
      /\ h \in [{root} -> Nat] /\ c[root] = NoText
  BY DEF Deltas
<1>7. u \in [{root} -> Text] /\ u[root] = buf BY <1>1
<1> HIDE DEF d, c, h
<1>8. <<>> \in Seq({root}) OBVIOUS
<1>9. store \in StoreSet({root}) BY <1>1, <1>6, <1>8 DEF StoreSet
<1>10. /\ store.base = buf /\ store.cache[root] = NoText
       /\ store.warm = <<>> /\ store.keys = <<>>
  BY <1>1, <1>6
<1>11. CacheOK({root}, root, store) BY <1>9, <1>10, NothingCached
<1>12. Spells(parent, root, store, u) BY <1>3, <1>7, <1>10 DEF Spells
<1>13. Texts = u BY <1>2, <1>12, TextsAre DEF SpellsTexts
<1>14. StoreInv BY <1>1, <1>3, <1>9, <1>11, <1>12, <1>13 DEF StoreInv, StoreCore
<1>15. Tree!TreeInit BY <1>1, <1>13, TreeInitArena DEF Tree!TreeInit, Texts
<1> QED BY <1>2, <1>4, <1>14, <1>15

\* Every step of the store is a step of the arena or leaves it alone.
LEMMA StoreStepIsArena == StoreNext => [ArenaNext]_arenaVars
<1> SUFFICES ASSUME StoreNext PROVE [ArenaNext]_arenaVars OBVIOUS
<1>1. CASE PushUndo BY <1>1, PushIsArena
<1>2. CASE \E t \in Text : Edit(t) BY <1>2 DEF Edit, Typed
<1>3. CASE Undo \/ Redo \/ Earlier \/ Later BY <1>3, HistoryIsArena
<1>4. CASE PopLastUndo BY <1>4, PopIsArena DEF PopLastUndo
<1>5. CASE CapUndo BY <1>5, CapIsArena
<1>6. CASE \E t \in Text : SetContent(t) BY <1>6 DEF SetContent, ArenaNext
<1>7. CASE Reopen BY <1>7 DEF Reopen, ArenaNext
<1>8. CASE SetUndoLevels BY <1>8 DEF SetUndoLevels, ArenaNext
<1> QED BY <1>1, <1>2, <1>3, <1>4, <1>5, <1>6, <1>7, <1>8 DEF StoreNext

LEMMA StoreStep ==
  ASSUME Inv, LiveFinite, StoreInv, [StoreNext]_storeVars
  PROVE  Inv' /\ LiveFinite' /\ StoreInv' /\ [Tree!TreeNext]_(Tree!treeVars)
<1>0. StoreCore BY DEF StoreInv
<1>1. [ArenaNext]_arenaVars BY StoreStepIsArena DEF storeVars
<1>2. Inv' /\ LiveFinite' BY <1>1, NextInv, LiveFiniteNext DEF Inv
<1>3. CASE PushUndo BY <1>0, <1>2, <1>3, PushTrees DEF Tree!TreeNext
<1>4. CASE \E t \in Text : Edit(t) BY <1>2, <1>4, EditTrees DEF Tree!TreeNext
<1>5. CASE Undo BY <1>0, <1>2, <1>5, UndoTrees DEF Tree!TreeNext
<1>6. CASE Redo BY <1>0, <1>2, <1>6, RedoTrees DEF Tree!TreeNext
<1>7. CASE Earlier BY <1>0, <1>2, <1>7, EarlierTrees DEF Tree!TreeNext
<1>8. CASE Later BY <1>0, <1>2, <1>8, LaterTrees DEF Tree!TreeNext
<1>9. CASE PopLastUndo BY <1>2, <1>9, PopTrees DEF Tree!TreeNext
<1>10. CASE CapUndo BY <1>2, <1>10, CapTrees DEF Tree!TreeNext
<1>11. CASE \E t \in Text : SetContent(t) BY <1>0, <1>2, <1>11, SetContentTrees DEF Tree!TreeNext
<1>12. CASE Reopen BY <1>0, <1>2, <1>12, ReopenTrees DEF Tree!TreeNext
<1>13. CASE SetUndoLevels BY <1>2, <1>13, SetLevelsTrees DEF Tree!TreeNext
<1>14. CASE UNCHANGED storeVars
  <2>1. /\ UNCHANGED arenaVars /\ store' = store /\ buf' = buf /\ phase' = phase
        /\ parent' = parent /\ root' = root /\ current' = current /\ children' = children
    BY <1>14 DEF storeVars, arenaVars
  <2>2. Texts' = Texts /\ Live' = Live BY <1>0, <1>2, <2>1, TextsStay
  <2>3. StoreInv' BY <2>1, <2>2 DEF StoreInv, StoreCore
  <2>4. UNCHANGED Tree!treeVars
    BY <2>1, <2>2 DEF Tree!treeVars, Tree!arenaVars, arenaVars, Texts
  <2> QED BY <1>2, <2>3, <2>4
<1> QED BY <1>3, <1>4, <1>5, <1>6, <1>7, <1>8, <1>9, <1>10, <1>11, <1>12, <1>13, <1>14 DEF StoreNext

(***************************************************************************)
(* The undo tree's promise, for any number of nodes, texts and any caps:   *)
(* every step of the store that keeps one base, deltas and evictable       *)
(* caches is the same step of the tree whose nodes simply hold their       *)
(* texts.                                                                  *)
(***************************************************************************)
THEOREM StoreImplementsTree == StoreSpec => ImplementsTree
<1>1. StoreInit => Inv /\ LiveFinite /\ StoreInv /\ Tree!TreeInit BY StoreStart
<1>2. Inv /\ LiveFinite /\ StoreInv /\ [StoreNext]_storeVars
        => (Inv /\ LiveFinite /\ StoreInv)' /\ [Tree!TreeNext]_(Tree!treeVars)
  BY StoreStep
<1> QED BY <1>1, <1>2, PTL DEF StoreSpec, ImplementsTree, Tree!TreeSpec

LEMMA StoreInvariant == StoreSpec => [](Inv /\ LiveFinite /\ StoreInv)
<1>1. StoreInit => Inv /\ LiveFinite /\ StoreInv BY StoreStart
<1>2. Inv /\ LiveFinite /\ StoreInv /\ [StoreNext]_storeVars => (Inv /\ LiveFinite /\ StoreInv)'
  BY StoreStep
<1> QED BY <1>1, <1>2, PTL DEF StoreSpec

\* The store's fields keep their types: a delta applied to the wrong text would
\* leave garbage in them.
THEOREM StoreTyped == StoreSpec => []StoreTypeOK
<1>1. Inv /\ LiveFinite /\ StoreInv => StoreTypeOK
  <2> SUFFICES ASSUME Inv, StoreInv PROVE StoreTypeOK OBVIOUS
  <2>1. /\ store.base \in Text /\ store.delta \in [Live -> Deltas]
        /\ store.cache \in [Live -> Text \cup {NoText}]
        /\ store.depth \in [Live -> Nat] /\ store.warm \in Seq(Live) /\ store.keys \in Seq(Live)
    BY DEF StoreInv, StoreCore, StoreSet
  <2>2. \A q \in Seq(Live) : ToSet(q) \subseteq Live BY LenProperties, ElementOfSeq DEF ToSet
  <2>3. ToSet(store.warm) \cup ToSet(store.keys) \subseteq Live BY <2>1, <2>2
  <2> QED BY <2>1, <2>3 DEF StoreTypeOK, StoreInv, StoreCore, Inv, Deltas
<1> QED BY <1>1, StoreInvariant, PTL

\* Replaying the deltas from the base gives every node the text its cache holds:
\* what is cached, and what was evicted, never shows.
THEOREM StoreCacheIsPure == StoreSpec => []CacheIsPure
<1>1. Inv /\ LiveFinite /\ StoreInv => CacheIsPure
  <2> SUFFICES ASSUME Inv, StoreInv, NEW n \in Live PROVE Content(n) = Rope(Uncached, root, n)
    BY DEF CacheIsPure
  <2> DEFINE c == [m \in Live |-> NoText]
             p == [store EXCEPT !.cache = c]
  <2>1. store \in StoreSet(Live) /\ Spells(parent, root, store, Texts) BY DEF StoreInv, StoreCore
  <2>2. c \in [Live -> Text \cup {NoText}] /\ \A m \in Live : c[m] = NoText OBVIOUS
  <2>3. Uncached = p BY DEF Uncached
  <2> HIDE DEF c
  <2>4. p.base = store.base /\ p.delta = store.delta /\ p.cache = c
    BY <2>1, <2>2, Recached
  <2> HIDE DEF p
  <2>5. Spells(parent, root, p, Texts) BY <2>1, <2>2, <2>4 DEF Spells, Live
  <2>6. Rope(p, root, n) = Texts[n] BY <2>5, RopeSpells
  <2>7. Texts[n] = Content(n) BY DEF Texts
  <2> QED BY <2>3, <2>6, <2>7
<1> QED BY <1>1, StoreInvariant, PTL

\* No text is retained outside the two LRUs, and neither outgrows its cap.
THEOREM StoreCacheIsBounded == StoreSpec => []CacheIsBounded
<1>1. Inv /\ LiveFinite /\ StoreInv => CacheIsBounded
  <2> SUFFICES ASSUME Inv, StoreInv PROVE CacheIsBounded OBVIOUS
  <2> DEFINE W == ToSet(store.warm)
             K == ToSet(store.keys)
             C == {n \in Live : store.cache[n] # NoText}
  <2>1. /\ store.warm \in Seq(Live) /\ store.keys \in Seq(Live)
    BY DEF StoreInv, StoreCore, StoreSet
  <2>2. /\ Distinct(store.warm) /\ Distinct(store.keys)
        /\ Len(store.warm) <= WarmCap /\ Len(store.keys) <= KeyCap
        /\ \A n \in W : store.depth[n] % KeyInterval # 0
        /\ \A n \in K : store.depth[n] % KeyInterval = 0
        /\ \A n \in Live : store.cache[n] # NoText <=> n \in W \cup K
    BY DEF StoreInv, StoreCore, CacheOK, Listed, Lists
  <2>3. \A q \in Seq(Live) : ToSet(q) \subseteq Live BY LenProperties, ElementOfSeq DEF ToSet
  <2>4. W \cup K \subseteq Live BY <2>1, <2>3
  <2>5. /\ IsFiniteSet(W) /\ Cardinality(W) = Len(store.warm) /\ Len(store.warm) \in Nat
        /\ IsFiniteSet(K) /\ Cardinality(K) = Len(store.keys) /\ Len(store.keys) \in Nat
    BY <2>1, <2>2, DistinctLen
  <2> HIDE DEF W, K
  <2>6. C = W \cup K BY <2>2, <2>4
  <2>7. W \cap K = {} BY <2>2
  <2>8. Cardinality(W \cup K) = Cardinality(W) + Cardinality(K) - Cardinality(W \cap K)
    BY <2>5, FS_Union
  <2>9. Cardinality(W \cap K) = 0 BY <2>7, FS_EmptySet
  <2> HIDE DEF C
  <2>10. Len(store.warm) + Len(store.keys) = Cardinality(C)
    BY <2>5, <2>6, <2>8, <2>9
  <2> QED BY <2>2, <2>6, <2>10 DEF CacheIsBounded, W, K, C
<1> QED BY <1>1, StoreInvariant, PTL

----------------------------------------------------------------------------
(***************************************************************************)
(* The editor's groups.  As long as no command has broken the boundary     *)
(* protocol, the store spells out the texts, and a group stands on the     *)
(* text it was opened on: once it is armed, that text is one u away.       *)
(***************************************************************************)
LEMMA PushFacts ==
  ASSUME Inv, LiveFinite, StoreCore, PushUndo
  PROVE  /\ StoreCore' /\ children'[current'] = {}
         /\ parent'[current'] = current /\ parent'[current'] # NoNode
         /\ Texts'[parent'[current']] = buf /\ buf' = buf
         /\ Live' = Live \cup {current'} /\ current' \notin Live
         /\ undoLevels' = undoLevels /\ pc' # "idle"
<1>1. PICK c \in Node : Push(c) /\ Texts' = PushedTexts(c) /\ buf' = buf BY PushStore
<1>2. /\ children'[c] = {} /\ current' = c /\ parent'[c] = current /\ c \notin Live
      /\ current \in Live /\ Live' = Live \cup {c} /\ undoLevels' = undoLevels
      /\ pc' = "push" /\ current # NoNode
  BY <1>1, ArenaAssumption DEF Push, Inv, TypeOK, Live
<1>3. Texts \in [Live -> Text] BY DEF StoreCore, Spells, Live
<1>4. PushedTexts(c)[current] = buf BY <1>2, <1>3 DEF PushedTexts, Stashed
<1>5. StoreCore' BY PushTrees DEF StoreInv
<1> QED BY <1>1, <1>2, <1>4, <1>5

\* A boundary is taken back while the text is as it was before it.
LEMMA PopFacts ==
  ASSUME Inv, StoreCore, PopCommitted, Texts[parent[current]] = buf
  PROVE  StoreCore' /\ Live' = Live \ {current} /\ buf' = buf /\ undoLevels' = undoLevels
<1>1. /\ store' \in StoreSet(Live') /\ CacheOK(Live', root', store')
      /\ Spells(parent', root', store', Restricted(Texts, Live'))
      /\ Texts' = Restricted(Texts, Live') /\ Live' = Live \ {current}
      /\ current' = parent[current] /\ current' \in Live' /\ buf' = buf
  BY PopStore
<1>2. Texts'[current'] = buf BY <1>1 DEF Restricted
<1>3. undoLevels' = undoLevels BY DEF PopCommitted, Pop
<1>4. buf \in Text BY DEF StoreCore
<1> QED BY <1>1, <1>2, <1>3, <1>4 DEF StoreCore

\* cap never frees the state one u away: it needs two states above the root.
LEMMA PruneKeepsParent ==
  ASSUME Inv, LiveFinite, NEW child \in Live, PruneRoot(child), parent[current] # NoNode
  PROVE  parent'[current] = parent[current]
<1>1. current \in Live /\ root \in Live /\ parent[root] = NoNode /\ undoLevels \in Nat
  BY ArenaAssumption DEF Inv, TypeOK, IsTree
<1>2. current # child
  <2> SUFFICES ASSUME current = child PROVE FALSE OBVIOUS
  <2>1. parent[current] = root BY <1>1 DEF PruneRoot, Inv, IsTree
  <2>2. Anc(parent, current) = {current} \cup Anc(parent, root)
    BY <1>1, <2>1, AncStep, ParentFun DEF Live, Inv
  <2>3. Anc(parent, root) = {root} BY <1>1, AncStep, ParentFun DEF Live, Inv
  <2>4. \A n \in Live : onPath[n] BY NoOffPathLeaf DEF PruneRoot
  <2>5. Live \subseteq {root} \cup {current} BY <2>2, <2>3, <2>4 DEF Inv, PathExact
  <2>6. IsFiniteSet({root}) /\ Cardinality({root}) = 1 BY FS_Singleton
  <2> DEFINE R == {root}
             P == R \cup {current}
  <2>7. IsFiniteSet(P) /\ Cardinality(P) \in Nat /\ Cardinality(P) <= 2
    <3> HIDE DEF R
    <3>1. /\ IsFiniteSet(R \cup {current})
          /\ Cardinality(R \cup {current}) = IF current \in R THEN Cardinality(R) ELSE Cardinality(R) + 1
      BY <2>6, FS_AddElement DEF R
    <3> QED BY <2>6, <3>1 DEF R
  <2>8. Live \in SUBSET P BY <2>5
  <2> HIDE DEF P
  <2>9. Cardinality(Live) <= Cardinality(P) /\ Cardinality(Live) \in Nat
    BY <2>7, <2>8, FS_Subset, FS_CardinalityType
  <2>10. undoLevels > 0 /\ Cardinality(Live) - 1 > undoLevels BY DEF PruneRoot, OverBudget
  <2> QED BY <1>1, <2>7, <2>9, <2>10
<1>3. Inv' BY PruneRootInv
<1>4. current \in DOMAIN parent' BY <1>3 DEF PruneRoot, Inv, TypeOK, Live
<1> QED BY <1>2, <1>4 DEF PruneRoot

LEMMA CapFacts ==
  ASSUME Inv, LiveFinite, FreshIsLeaf, StoreCore, CapUndo
  PROVE  /\ StoreCore' /\ buf' = buf /\ current' = current /\ undoLevels' = undoLevels
         /\ children'[current'] \subseteq children[current]
         /\ parent'[current'] \in {NoNode, parent[current]}
         /\ parent[current] # NoNode => parent'[current'] = parent[current]
         /\ parent'[current'] # NoNode => Texts'[parent'[current']] = Texts[parent[current]]
         /\ undoLevels = 0 => Live' = Live
<1>1. /\ Inv' /\ store' \in StoreSet(Live') /\ CacheOK(Live', root', store')
      /\ Spells(parent', root', store', Restricted(Texts, Live'))
      /\ Texts' = Restricted(Texts, Live')
      /\ current' = current /\ current' \in Live' /\ Live' \subseteq Live
      /\ parent'[current] \in {NoNode, parent[current]}
      /\ children'[current] \subseteq children[current]
      /\ buf' = buf
  BY CapStore
<1>2. Texts'[current'] = Texts[current] BY <1>1 DEF Restricted
<1>3. StoreCore' BY <1>1, <1>2 DEF StoreCore
<1>4. parent'[current'] # NoNode => Texts'[parent'[current']] = Texts[parent[current]]
  <2> SUFFICES ASSUME parent'[current'] # NoNode
               PROVE  Texts'[parent'[current']] = Texts[parent[current]]
    OBVIOUS
  <2>1. parent'[current'] = parent[current] BY <1>1
  <2>2. parent'[current'] \in Live' BY <1>1 DEF Inv, TypeOK
  <2> QED BY <1>1, <2>1, <2>2 DEF Restricted
<1>5. CASE \E leaf \in Live : DropLeaf(leaf)
  <2>1. PICK leaf \in Live : DropLeaf(leaf) BY <1>5
  <2>2. undoLevels' = undoLevels /\ undoLevels # 0
    <3>1. undoLevels \in Nat BY ArenaAssumption DEF Inv, TypeOK
    <3> QED BY <2>1, <3>1 DEF DropLeaf, OverBudget
  <2>3. parent'[current] = parent[current]
    BY <1>1, <2>1 DEF DropLeaf, Restricted, Live
  <2> QED BY <1>1, <1>3, <1>4, <2>2, <2>3
<1>6. CASE \E child \in Live : PruneRoot(child)
  <2>1. PICK child \in Live : PruneRoot(child) BY <1>6
  <2>2. undoLevels' = undoLevels /\ undoLevels # 0
    <3>1. undoLevels \in Nat BY ArenaAssumption DEF Inv, TypeOK
    <3> QED BY <2>1, <3>1 DEF PruneRoot, OverBudget
  <2>3. parent[current] # NoNode => parent'[current] = parent[current]
    BY <2>1, PruneKeepsParent
  <2> QED BY <1>1, <1>3, <1>4, <2>2, <2>3
<1>7. CASE CapDone
  <2>1. undoLevels' = undoLevels BY <1>7 DEF CapDone
  <2>2. CASE pc = "push"
    <3>1. ClearRedo BY <1>7, <2>2 DEF CapDone
    <3>2. children[current] = {} BY <2>2 DEF FreshIsLeaf
    <3>3. ASSUME NEW m \in Live, m # current, current \in Anc(parent, m) PROVE FALSE
      <4>1. PICK c \in Anc(parent, m) : parent[c] = current
        BY <3>3, ParentFun, AncEntered DEF Live, Inv
      <4>2. c \in Live BY <4>1, AncDomain DEF Live
      <4>3. c \in children[current] BY <4>1, <4>2 DEF Inv, IsTree, TypeOK
      <4> QED BY <3>2, <4>3
    <3>4. Live' = {m \in Live : m = current \/ current \notin Anc(parent, m)}
      BY <3>1 DEF ClearRedo, Restricted, Live
    <3>5. Live' = Live BY <3>3, <3>4
    <3>6. parent'[current] = parent[current]
      BY <1>1, <3>1, <3>4 DEF ClearRedo, Restricted, Live
    <3> QED BY <1>1, <1>3, <1>4, <2>1, <3>5, <3>6
  <2>3. CASE pc # "push"
    <3>1. parent' = parent BY <1>7, <2>3 DEF CapDone, links
    <3> QED BY <1>1, <1>3, <1>4, <2>1, <3>1 DEF Live
  <2> QED BY <2>2, <2>3
<1> QED BY <1>5, <1>6, <1>7 DEF CapUndo

\* An idle group has added its boundary and nothing else.
Kept ==
  ~touched /\ undoLevels = 0 =>
    IF armed THEN Live = atOpen.nodes \cup {current} /\ current \notin atOpen.nodes
             ELSE Live = atOpen.nodes

InGroup ==
  /\ armed => parent[current] # NoNode /\ Texts[parent[current]] = atOpen.text
  /\ ~armed => buf = atOpen.text
  /\ ~touched => buf = atOpen.text
  /\ Kept

Follows ==
  /\ StoreCore
  /\ cmd # "none" => children[current] = {}
  /\ Grouped /\ armed => children[current] = {}
  /\ cmd = "subst" /\ parent[current] # NoNode => Texts[parent[current]] = buf
  /\ Grouped => InGroup

EditorInv ==
  /\ groupDepth \in Nat /\ armed \in BOOLEAN /\ touched \in BOOLEAN /\ strayed \in BOOLEAN
  /\ armed => Grouped
  /\ Grouped /\ cmd # "none" => armed
  /\ Grouped /\ cmd = "subst" => strayed
  /\ ~strayed => Follows

LEMMA StoreStays ==
  ASSUME Inv, Inv', StoreCore, UNCHANGED storeVars
  PROVE  /\ StoreCore' /\ Texts' = Texts /\ Live' = Live /\ parent' = parent
         /\ current' = current /\ children' = children /\ buf' = buf
         /\ undoLevels' = undoLevels
<1>1. /\ store' = store /\ buf' = buf /\ undoLevels' = undoLevels
      /\ parent' = parent /\ root' = root /\ current' = current /\ children' = children
  BY DEF storeVars, arenaVars
<1>2. Texts' = Texts /\ Live' = Live BY <1>1, TextsStay
<1> QED BY <1>1, <1>2 DEF StoreCore

\* push_undo_at, inside a group or outside.
LEMMA BoundaryFacts ==
  ASSUME Inv, LiveFinite, Inv', EditorInv, Follows, PushUndoAt
  PROVE  /\ StoreCore' /\ children'[current'] = {}
         /\ Grouped' <=> Grouped
         /\ armed' \in BOOLEAN /\ (armed' <=> Grouped')
         /\ ~Grouped => Texts'[parent'[current']] = buf'
         /\ Grouped' => InGroup'
<1>1. UNCHANGED <<groupDepth, touched, atOpen>> BY DEF PushUndoAt
<1>2. CASE Suppressed
  <2>1. UNCHANGED storeVars /\ armed' = armed BY <1>2 DEF PushUndoAt
  <2>2. /\ StoreCore' /\ Texts' = Texts /\ Live' = Live /\ parent' = parent
        /\ current' = current /\ children' = children /\ buf' = buf
        /\ undoLevels' = undoLevels
    BY <2>1, StoreStays DEF Follows
  <2>3. Grouped /\ armed /\ children[current] = {} /\ InGroup
    BY <1>2 DEF Suppressed, Follows
  <2> QED BY <1>1, <2>1, <2>2, <2>3 DEF Grouped, InGroup, Kept, EditorInv
<1>3. CASE ~Suppressed
  <2>1. PushUndo /\ armed' = Grouped BY <1>3 DEF PushUndoAt
  <2>2. /\ StoreCore' /\ children'[current'] = {}
        /\ parent'[current'] = current /\ parent'[current'] # NoNode
        /\ Texts'[parent'[current']] = buf /\ buf' = buf
        /\ Live' = Live \cup {current'} /\ current' \notin Live
        /\ undoLevels' = undoLevels
    BY <2>1, PushFacts DEF Follows
  <2>3. armed' \in BOOLEAN /\ (armed' <=> Grouped)
    <3>1. Grouped \in BOOLEAN BY DEF Grouped
    <3> QED BY <2>1, <3>1
  <2>4. Grouped' => InGroup'
    <3> SUFFICES ASSUME Grouped PROVE InGroup' BY <1>1 DEF Grouped
    <3>1. ~armed /\ InGroup BY <1>3 DEF Suppressed, Follows
    <3>2. buf = atOpen.text BY <3>1 DEF InGroup
    <3>3. ~touched /\ undoLevels = 0 => Live = atOpen.nodes BY <3>1 DEF InGroup, Kept
    <3>4. Kept' BY <1>1, <2>2, <2>3, <3>3 DEF Kept
    <3> QED BY <1>1, <2>2, <2>3, <3>2, <3>4 DEF InGroup
  <2> QED BY <1>1, <2>2, <2>3, <2>4 DEF Grouped
<1> QED BY <1>2, <1>3

LEMMA ArmedFacts ==
  ASSUME EditorInv, PushUndoAt
  PROVE  armed' \in BOOLEAN /\ (armed' <=> Grouped)
<1>1. Grouped \in BOOLEAN BY DEF Grouped
<1>2. CASE Suppressed
  <2>1. armed' = armed BY <1>2 DEF PushUndoAt
  <2> QED BY <1>2, <2>1 DEF Suppressed, EditorInv
<1>3. CASE ~Suppressed
  <2>1. armed' = Grouped BY <1>3 DEF PushUndoAt
  <2> QED BY <1>1, <2>1
<1> QED BY <1>2, <1>3

LEMMA BeginInv ==
  ASSUME Inv, LiveFinite, Inv', EditorInv, NEW c \in {"change", "subst", "insert"}, Begin(c)
  PROVE  EditorInv'
<1>1. /\ PushUndoAt /\ cmd' = c /\ strayed' = (strayed \/ (c = "subst" /\ Grouped))
      /\ UNCHANGED <<groupDepth, touched, atOpen>>
  BY DEF Begin, StraysIf, PushUndoAt
<1>2. strayed' \in BOOLEAN /\ (strayed' <=> strayed \/ (c = "subst" /\ Grouped))
  BY <1>1, Zenon DEF EditorInv
<1>3. Grouped' <=> Grouped BY <1>1 DEF Grouped
<1>4. armed' \in BOOLEAN /\ (armed' <=> Grouped) BY <1>1, ArmedFacts
<1>5. ~strayed' => Follows'
  <2> SUFFICES ASSUME ~strayed' PROVE Follows' OBVIOUS
  <2>1. Follows /\ ~(c = "subst" /\ Grouped) BY <1>2 DEF EditorInv
  <2>2. /\ StoreCore' /\ children'[current'] = {}
        /\ ~Grouped => Texts'[parent'[current']] = buf'
        /\ Grouped' => InGroup'
    BY <1>1, <2>1, BoundaryFacts
  <2> QED BY <1>1, <1>3, <2>1, <2>2 DEF Follows
<1> QED BY <1>1, <1>2, <1>3, <1>4, <1>5 DEF EditorInv

LEMMA BreakInsertInv ==
  ASSUME Inv, LiveFinite, Inv', EditorInv, BreakInsert
  PROVE  EditorInv'
<1>1. /\ PushUndoAt /\ cmd = "insert" /\ cmd' = cmd /\ strayed' = strayed
      /\ UNCHANGED <<groupDepth, touched, atOpen>>
  BY DEF BreakInsert, PushUndoAt
<1>3. Grouped' <=> Grouped BY <1>1 DEF Grouped
<1>4. armed' \in BOOLEAN /\ (armed' <=> Grouped) BY <1>1, ArmedFacts
<1>5. ~strayed' => Follows'
  <2> SUFFICES ASSUME ~strayed' PROVE Follows' OBVIOUS
  <2>1. Follows BY <1>1 DEF EditorInv
  <2>2. /\ StoreCore' /\ children'[current'] = {} /\ (Grouped' => InGroup')
    BY <1>1, <2>1, BoundaryFacts
  <2> QED BY <1>1, <2>2 DEF Follows
<1> QED BY <1>1, <1>3, <1>4, <1>5 DEF EditorInv

\* A change of the text under a command's boundary.
LEMMA MutateInv ==
  ASSUME Inv, Inv', EditorInv, NEW t \in Text, Mutate(t), cmd \in {"change", "subst", "insert"},
         cmd' \in {"none", cmd}, cmd = "subst" => cmd' = "none"
  PROVE  EditorInv'
<1>1. /\ buf' = t /\ store' = store /\ undoLevels' = undoLevels
      /\ parent' = parent /\ root' = root /\ current' = current /\ children' = children
      /\ touched' = TRUE /\ UNCHANGED <<groupDepth, armed, atOpen, strayed>>
  BY DEF Mutate, Typed, arenaVars
<1>2. Grouped' <=> Grouped BY <1>1 DEF Grouped
<1>3. ~strayed' => Follows'
  <2> SUFFICES ASSUME ~strayed PROVE Follows' BY <1>1
  <2>1. Follows /\ StoreCore /\ children[current] = {} BY DEF EditorInv, Follows
  <2>2. Texts' = Texts /\ Live' = Live BY <1>1, <2>1, TextsStay
  <2>3. StoreCore' BY <1>1, <2>1, <2>2 DEF StoreCore
  <2>4. Grouped' => InGroup'
    <3> SUFFICES ASSUME Grouped PROVE InGroup' BY <1>2
    <3>1. armed /\ InGroup BY <2>1 DEF EditorInv, Follows
    <3> QED BY <1>1, <2>2, <3>1 DEF InGroup, Kept
  <2> QED BY <1>1, <2>1, <2>3, <2>4 DEF Follows
<1> QED BY <1>1, <1>2, <1>3 DEF EditorInv

LEMMA ChangeInv ==
  ASSUME Inv, Inv', EditorInv, NEW t \in Text, Change(t) \/ Substitute(t) \/ Type(t)
  PROVE  EditorInv'
BY MutateInv DEF Change, Substitute, Type

LEMMA EndInsertInv ==
  ASSUME Inv, Inv', EditorInv, EndInsert
  PROVE  EditorInv'
<1>1. /\ UNCHANGED storeVars /\ cmd = "insert" /\ cmd' = "none"
      /\ UNCHANGED <<groupDepth, armed, touched, atOpen, strayed>>
  BY DEF EndInsert, groupVars
<1>2. ~strayed' => Follows'
  <2> SUFFICES ASSUME ~strayed PROVE Follows' BY <1>1
  <2>1. Follows BY DEF EditorInv
  <2>2. /\ StoreCore' /\ Texts' = Texts /\ Live' = Live /\ parent' = parent
        /\ current' = current /\ children' = children /\ buf' = buf
        /\ undoLevels' = undoLevels
    BY <1>1, <2>1, StoreStays DEF Follows
  <2> QED BY <1>1, <2>1, <2>2 DEF Follows, Grouped, InGroup, Kept
<1> QED BY <1>1, <1>2 DEF EditorInv, Grouped

LEMMA GroupEnterInv ==
  ASSUME Inv, Inv', EditorInv, GroupEnter
  PROVE  EditorInv'
<1>1. /\ UNCHANGED storeVars /\ cmd = "none" /\ cmd' = cmd /\ strayed' = strayed
      /\ groupDepth' = groupDepth + 1
  BY DEF GroupEnter, Ready
<1>2. groupDepth' \in Nat /\ Grouped' BY <1>1 DEF EditorInv, Grouped
<1>3. \/ Grouped /\ armed' = armed /\ touched' = touched /\ atOpen' = atOpen
      \/ ~Grouped /\ armed' = FALSE /\ touched' = FALSE /\ atOpen' = [text |-> buf, nodes |-> Live]
  BY DEF GroupEnter, Snapshot
<1>4. ~strayed' => Follows'
  <2> SUFFICES ASSUME ~strayed PROVE Follows' BY <1>1
  <2>1. Follows BY DEF EditorInv
  <2>2. /\ StoreCore' /\ Texts' = Texts /\ Live' = Live /\ parent' = parent
        /\ current' = current /\ children' = children /\ buf' = buf
        /\ undoLevels' = undoLevels
    BY <1>1, <2>1, StoreStays DEF Follows
  <2>3. CASE Grouped
    <3>1. InGroup /\ armed' = armed /\ touched' = touched /\ atOpen' = atOpen
      BY <1>3, <2>1, <2>3 DEF Follows
    <3>2. InGroup' BY <2>2, <3>1 DEF InGroup, Kept
    <3> QED BY <1>1, <1>2, <2>1, <2>2, <2>3, <3>1, <3>2 DEF Follows
  <2>4. CASE ~Grouped
    <3>1. /\ armed' = FALSE /\ touched' = FALSE
          /\ atOpen'.text = buf /\ atOpen'.nodes = Live
      BY <1>3, <2>4
    <3>2. InGroup' BY <2>2, <3>1 DEF InGroup, Kept
    <3> QED BY <1>1, <1>2, <2>1, <2>2, <3>1, <3>2 DEF Follows
  <2> QED BY <2>3, <2>4
<1> QED BY <1>1, <1>2, <1>3, <1>4 DEF EditorInv

\* undo_group_exit: an armed group that touched nothing still has, as the text
\* it would undo to, the text that is there.
LEMMA GroupExitInv ==
  ASSUME Inv, Inv', EditorInv, GroupExit
  PROVE  EditorInv'
<1>1. /\ cmd = "none" /\ cmd' = cmd /\ strayed' = strayed /\ touched' = touched
      /\ atOpen' = atOpen /\ groupDepth' = groupDepth - 1 /\ Grouped
  BY DEF GroupExit, Ready
<1>2. groupDepth' \in Nat BY <1>1 DEF EditorInv, Grouped
<1>3. CASE groupDepth > 1
  <2>1. UNCHANGED storeVars /\ armed' = armed BY <1>3 DEF GroupExit
  <2>2. Grouped' BY <1>1, <1>2, <1>3 DEF Grouped, EditorInv
  <2>3. ~strayed' => Follows'
    <3> SUFFICES ASSUME ~strayed PROVE Follows' BY <1>1
    <3>1. Follows BY DEF EditorInv
    <3>2. /\ StoreCore' /\ Texts' = Texts /\ Live' = Live /\ parent' = parent
          /\ current' = current /\ children' = children /\ buf' = buf
          /\ undoLevels' = undoLevels
      BY <2>1, <3>1, StoreStays DEF Follows
    <3>3. InGroup' BY <1>1, <2>1, <3>1, <3>2 DEF Follows, InGroup, Kept
    <3> QED BY <1>1, <2>1, <3>1, <3>2, <3>3 DEF Follows
  <2> QED BY <1>1, <1>2, <2>1, <2>2, <2>3 DEF EditorInv
<1>4. CASE ~(groupDepth > 1)
  <2>1. /\ armed' = FALSE
        /\ IF Untouched THEN PopIfLeaf ELSE UNCHANGED storeVars
    BY <1>4 DEF GroupExit
  <2>2. ~Grouped' BY <1>1, <1>2, <1>4 DEF Grouped, EditorInv
  <2>3. ~strayed' => Follows'
    <3> SUFFICES ASSUME ~strayed PROVE Follows' BY <1>1
    <3>1. Follows BY DEF EditorInv
    <3>2. StoreCore'
      <4>1. CASE UNCHANGED storeVars BY <3>1, <4>1, StoreStays DEF Follows
      <4>2. CASE Untouched /\ PopCommitted
        <5>1. Texts[parent[current]] = buf
          BY <1>1, <3>1, <4>2 DEF Untouched, Follows, InGroup
        <5> QED BY <3>1, <4>2, <5>1, PopFacts DEF Follows
      <4> QED BY <2>1, <4>1, <4>2 DEF PopIfLeaf
    <3> QED BY <1>1, <2>1, <2>2, <3>2 DEF Follows
  <2> QED BY <1>1, <1>2, <2>1, <2>2, <2>3 DEF EditorInv
<1> QED BY <1>3, <1>4

\* :s that replaced nothing takes its own boundary back.
LEMMA SubstituteNothingInv ==
  ASSUME Inv, Inv', EditorInv, SubstituteNothing
  PROVE  EditorInv'
<1>1. /\ cmd = "subst" /\ cmd' = "none" /\ PopIfLeaf
      /\ UNCHANGED <<groupDepth, armed, touched, atOpen, strayed>>
  BY DEF SubstituteNothing, groupVars
<1>2. ~strayed' => Follows'
  <2> SUFFICES ASSUME ~strayed PROVE Follows' BY <1>1
  <2>1. Follows /\ ~Grouped BY <1>1 DEF EditorInv
  <2>2. StoreCore'
    <3>1. CASE UNCHANGED storeVars BY <2>1, <3>1, StoreStays DEF Follows
    <3>2. CASE CanPop /\ PopCommitted
      <4>1. Texts[parent[current]] = buf BY <1>1, <2>1, <3>2 DEF CanPop, Follows
      <4> QED BY <2>1, <3>2, <4>1, PopFacts DEF Follows
    <3> QED BY <1>1, <3>1, <3>2 DEF PopIfLeaf
  <2> QED BY <1>1, <2>1, <2>2 DEF Follows, Grouped
<1> QED BY <1>1, <1>2 DEF EditorInv, Grouped

\* u, <C-r>, g- and g+: they stray inside a group, and outside one they restore
\* the text of the node they land on.
LEMMA HistoryInv ==
  ASSUME Inv, LiveFinite, Inv', EditorInv, History \/ InsertUndo
  PROVE  EditorInv'
<1>1. /\ Undo \/ Redo \/ Earlier \/ Later
      /\ touched' = TRUE /\ UNCHANGED <<groupDepth, armed, atOpen>> /\ cmd' = cmd
      /\ strayed' \in BOOLEAN /\ (strayed \/ Grouped \/ cmd # "none" => strayed')
  BY DEF History, InsertUndo, Historic, StraysIf, EditorInv, Grouped
<1>2. ~strayed' => Follows'
  <2> SUFFICES ASSUME ~strayed' PROVE Follows' OBVIOUS
  <2>1. Follows /\ ~Grouped /\ cmd = "none" BY <1>1 DEF EditorInv
  <2>2. StoreCore'
    <3>1. StoreCore BY <2>1 DEF Follows
    <3>2. StoreInv' BY <1>1, <3>1, UndoTrees, RedoTrees, EarlierTrees, LaterTrees
    <3> QED BY <3>2 DEF StoreInv
  <2> QED BY <1>1, <2>1, <2>2 DEF Follows, Grouped
<1> QED BY <1>1, <1>2 DEF EditorInv, Grouped

LEMMA TrimInv ==
  ASSUME Inv, LiveFinite, FreshIsLeaf, Inv', EditorInv, Trim
  PROVE  EditorInv'
<1>1. /\ CapUndo /\ cmd' = cmd
      /\ UNCHANGED <<groupDepth, armed, touched, atOpen, strayed>>
  BY DEF Trim, groupVars
<1>2. ~strayed' => Follows'
  <2> SUFFICES ASSUME ~strayed PROVE Follows' BY <1>1
  <2>1. Follows BY DEF EditorInv
  <2>2. /\ StoreCore' /\ buf' = buf /\ current' = current /\ undoLevels' = undoLevels
        /\ children'[current'] \subseteq children[current]
        /\ parent'[current'] \in {NoNode, parent[current]}
        /\ parent[current] # NoNode => parent'[current'] = parent[current]
        /\ parent'[current'] # NoNode => Texts'[parent'[current']] = Texts[parent[current]]
        /\ undoLevels = 0 => Live' = Live
    BY <1>1, <2>1, CapFacts DEF Follows
  <2>3. Grouped' => InGroup'
    <3> SUFFICES ASSUME Grouped PROVE InGroup' BY <1>1 DEF Grouped
    <3>1. InGroup BY <2>1 DEF Follows
    <3>2. Kept' BY <1>1, <2>2, <3>1 DEF InGroup, Kept
    <3> QED BY <1>1, <2>2, <3>1, <3>2 DEF InGroup
  <2> QED BY <1>1, <2>1, <2>2, <2>3 DEF Follows, Grouped
<1> QED BY <1>1, <1>2 DEF EditorInv, Grouped

EditorAll == Inv /\ LiveFinite /\ FreshIsLeaf /\ EditorInv

LEMMA EditorStart == EditorInit => EditorAll
<1> SUFFICES ASSUME EditorInit PROVE EditorAll OBVIOUS
<1>1. /\ StoreInit /\ groupDepth = 0 /\ armed = FALSE /\ touched = FALSE /\ cmd = "none"
      /\ strayed = FALSE
  BY DEF EditorInit
<1>2. Inv /\ LiveFinite /\ StoreCore BY <1>1, StoreStart DEF StoreInv
<1>3. FreshIsLeaf BY <1>1 DEF StoreInit, ArenaInit, FreshIsLeaf
<1>4. Follows BY <1>1, <1>2 DEF Follows, Grouped
<1> QED BY <1>1, <1>2, <1>3, <1>4 DEF EditorAll, EditorInv, Grouped

LEMMA EditorStep == EditorAll /\ [EditorNext]_editorVars => EditorAll'
<1> SUFFICES ASSUME Inv, LiveFinite, FreshIsLeaf, EditorInv, [EditorNext]_editorVars
             PROVE  EditorAll'
  BY DEF EditorAll
<1>1. [ArenaNext]_arenaVars BY EditorStepIsArena DEF editorVars, storeVars
<1>2. Inv' /\ LiveFinite' /\ FreshIsLeaf'
  BY <1>1, NextInv, LiveFiniteNext, FreshIsLeafNext DEF Inv
<1>3. EditorInv'
  <2>1. CASE GroupEnter BY <1>2, <2>1, GroupEnterInv
  <2>2. CASE GroupExit BY <1>2, <2>2, GroupExitInv
  <2>3. CASE \E c \in {"change", "subst", "insert"} : Begin(c) BY <1>2, <2>3, BeginInv
  <2>4. CASE \E t \in Text : Change(t) \/ Substitute(t) \/ Type(t) BY <1>2, <2>4, ChangeInv
  <2>5. CASE SubstituteNothing BY <1>2, <2>5, SubstituteNothingInv
  <2>6. CASE BreakInsert BY <1>2, <2>6, BreakInsertInv
  <2>7. CASE EndInsert BY <1>2, <2>7, EndInsertInv
  <2>8. CASE History \/ InsertUndo BY <1>2, <2>8, HistoryInv
  <2>9. CASE Trim BY <1>2, <2>9, TrimInv
  <2>10. CASE UNCHANGED editorVars
    <3>1. /\ UNCHANGED storeVars /\ cmd' = cmd
          /\ UNCHANGED <<groupDepth, armed, touched, atOpen, strayed>>
      BY <2>10 DEF editorVars, groupVars
    <3>2. ~strayed' => Follows'
      <4> SUFFICES ASSUME ~strayed PROVE Follows' BY <3>1
      <4>1. Follows BY DEF EditorInv
      <4>2. /\ StoreCore' /\ Texts' = Texts /\ Live' = Live /\ parent' = parent
            /\ current' = current /\ children' = children /\ buf' = buf
            /\ undoLevels' = undoLevels
        BY <1>2, <3>1, <4>1, StoreStays DEF Follows
      <4> QED BY <3>1, <4>1, <4>2 DEF Follows, Grouped, InGroup, Kept
    <3> QED BY <3>1, <3>2 DEF EditorInv, Grouped
  <2> QED
    BY <2>1, <2>2, <2>3, <2>4, <2>5, <2>6, <2>7, <2>8, <2>9, <2>10 DEF EditorNext
<1> QED BY <1>2, <1>3 DEF EditorAll

LEMMA EditorInvariant == EditorSpec => []EditorAll
BY EditorStart, EditorStep, PTL DEF EditorSpec

\* Only undo_group_exit closes a group.
LEMMA ClosesIsExit ==
  ASSUME EditorInv, [EditorNext]_editorVars, GroupCloses
  PROVE  GroupExit
<1>1. groupDepth = 1 /\ groupDepth' = 0 BY DEF GroupCloses
<1>2. ~GroupEnter BY <1>1 DEF GroupEnter
<1>3. ~\E c \in {"change", "subst", "insert"} : Begin(c) BY <1>1 DEF Begin, PushUndoAt
<1>4. ~\E t \in Text : Change(t) \/ Substitute(t) \/ Type(t)
  BY <1>1 DEF Change, Substitute, Type, Mutate
<1>5. ~SubstituteNothing /\ ~EndInsert BY <1>1 DEF SubstituteNothing, EndInsert, groupVars
<1>6. ~BreakInsert BY <1>1 DEF BreakInsert, PushUndoAt
<1>7. ~History /\ ~InsertUndo BY <1>1 DEF History, InsertUndo, Historic
<1>8. ~Trim BY <1>1 DEF Trim, groupVars
<1>9. ~UNCHANGED editorVars BY <1>1 DEF editorVars, groupVars
<1> QED BY <1>2, <1>3, <1>4, <1>5, <1>6, <1>7, <1>8, <1>9 DEF EditorNext

\* One u reverts the entire group: for every nesting of groups, every number of
\* commands inside and every undolevels, the node u goes to holds the text from
\* before the group, unless a :s or a history command strayed inside it.
THEOREM EditorGroupIsOneStep == EditorSpec => GroupIsOneStep
<1> DEFINE OneStep == GroupCloses /\ buf # atOpen.text /\ ~strayed
                        => /\ parent'[current'] # NoNode
                           /\ Content(parent[current])' = atOpen.text
<1>1. EditorAll /\ EditorAll' /\ [EditorNext]_editorVars => [OneStep]_editorVars
  <2> SUFFICES ASSUME EditorAll, Inv', [EditorNext]_editorVars,
                      GroupCloses, buf # atOpen.text, ~strayed
               PROVE  /\ parent'[current'] # NoNode
                      /\ Content(parent[current])' = atOpen.text
    BY DEF EditorAll
  <2>1. GroupExit /\ groupDepth = 1 BY ClosesIsExit DEF EditorAll, GroupCloses
  <2>2. Follows /\ InGroup BY <2>1 DEF EditorAll, EditorInv, Follows, Grouped
  <2>3. armed /\ touched BY <2>2 DEF InGroup
  <2>4. UNCHANGED storeVars BY <2>1, <2>3 DEF GroupExit, Untouched
  <2>5. Texts' = Texts /\ parent' = parent /\ current' = current
    BY <2>2, <2>4, StoreStays DEF EditorAll, Follows
  <2>6. parent[current] # NoNode /\ Texts[parent[current]] = atOpen.text
    BY <2>2, <2>3 DEF InGroup
  <2>7. parent'[current'] # NoNode BY <2>5, <2>6
  <2>8. parent'[current'] \in Live' BY <2>7 DEF Inv, TypeOK
  <2>9. Content(parent[current])' = Texts'[parent'[current']] BY <2>8 DEF Texts
  <2> QED BY <2>5, <2>6, <2>7, <2>9
<1> QED BY <1>1, EditorInvariant, PTL DEF EditorSpec, GroupIsOneStep

\* A group that touched nothing leaves exactly the states it found.
THEOREM EditorIdleGroupKeepsStates == EditorSpec => IdleGroupKeepsStates
<1> DEFINE Keeps == GroupCloses /\ ~touched /\ undoLevels = 0 /\ ~strayed
                      => DOMAIN parent' = atOpen.nodes
<1>1. EditorAll /\ [EditorNext]_editorVars => [Keeps]_editorVars
  <2> SUFFICES ASSUME EditorAll, [EditorNext]_editorVars,
                      GroupCloses, ~touched, undoLevels = 0, ~strayed
               PROVE  DOMAIN parent' = atOpen.nodes
    OBVIOUS
  <2>1. GroupExit /\ groupDepth = 1 BY ClosesIsExit DEF EditorAll, GroupCloses
  <2>2. Grouped /\ Follows /\ InGroup /\ armed \in BOOLEAN
    BY <2>1 DEF EditorAll, EditorInv, Follows, Grouped
  <2>3. CASE armed
    <3>1. /\ Live = atOpen.nodes \cup {current} /\ current \notin atOpen.nodes
          /\ parent[current] # NoNode /\ children[current] = {}
      BY <2>2, <2>3 DEF InGroup, Kept, Follows
    <3>2. PopCommitted BY <2>1, <2>3, <3>1 DEF GroupExit, Untouched, PopIfLeaf, CanPop
    <3>3. DOMAIN parent' = Live \ {current} BY <3>2 DEF PopCommitted, Pop, Restricted
    <3> QED BY <3>1, <3>3
  <2>4. CASE ~armed
    <3>1. Live = atOpen.nodes BY <2>2, <2>4 DEF InGroup, Kept
    <3>2. UNCHANGED storeVars BY <2>1, <2>4 DEF GroupExit, Untouched
    <3> QED BY <3>1, <3>2 DEF storeVars, arenaVars, Live
  <2> QED BY <2>2, <2>3, <2>4
<1> QED BY <1>1, EditorInvariant, PTL DEF EditorSpec, IdleGroupKeepsStates

\* No command that keeps to the protocol changes the text of a state that has
\* successors.
THEOREM EditorOnlyTipsChange == EditorSpec => OnlyTipsChange
<1> DEFINE Tips == pc = "idle" /\ pc' = "idle" /\ current' = current /\ buf' # buf /\ ~strayed
                     => children[current] = {}
<1>1. EditorAll /\ [EditorNext]_editorVars => [Tips]_editorVars
  <2> SUFFICES ASSUME EditorAll, EditorNext, pc = "idle", pc' = "idle",
                      current' = current, buf' # buf, ~strayed
               PROVE  children[current] = {}
    OBVIOUS
  <2>1. Inv /\ Follows BY DEF EditorAll, EditorInv
  <2>2. current \in Live /\ seq[current] \in Nat /\ current # NoNode
    BY <2>1, ArenaAssumption DEF Inv, TypeOK
  <2>3. ~UNCHANGED storeVars BY DEF storeVars
  <2>4. ~PopCommitted /\ ~PushUndo /\ ~CapUndo BY DEF PopCommitted, PushUndo, CapUndo
  <2>5. ~Undo
    <3> SUFFICES ASSUME Undo PROVE FALSE OBVIOUS
    <3>1. parent[current] # NoNode /\ parent[current] = current BY DEF Undo, StepUp
    <3>2. seq[current] < seq[current] BY <2>1, <2>2, <3>1 DEF Inv, SeqOrdered
    <3> QED BY <2>2, <3>2
  <2>6. ~Redo /\ ~Later BY DEF Redo, StepDown, Later, SeqLater
  <2>7. ~Earlier
    <3> SUFFICES ASSUME Earlier PROVE FALSE OBVIOUS
    <3>1. PICK t \in Live : SeqEarlier(t) BY DEF Earlier
    <3>2. t = current /\ seq[t] < seq[current] BY <3>1 DEF SeqEarlier, Retarget, IsBelow
    <3> QED BY <2>2, <3>2
  <2>8. ~GroupEnter /\ ~EndInsert BY <2>3 DEF GroupEnter, EndInsert
  <2>9. ~GroupExit /\ ~SubstituteNothing
    BY <2>3, <2>4 DEF GroupExit, SubstituteNothing, PopIfLeaf
  <2>10. ~BreakInsert /\ ~(\E c \in {"change", "subst", "insert"} : Begin(c))
    BY <2>3, <2>4 DEF BreakInsert, Begin, PushUndoAt
  <2>11. ~History /\ ~InsertUndo BY <2>5, <2>6, <2>7 DEF History, InsertUndo, Historic
  <2>12. ~Trim BY <2>4 DEF Trim
  <2>13. cmd # "none"
    BY <2>8, <2>9, <2>10, <2>11, <2>12 DEF EditorNext, Change, Substitute, Type
  <2> QED BY <2>1, <2>13 DEF Follows
<1> QED BY <1>1, EditorInvariant, PTL DEF EditorSpec, OnlyTipsChange
=============================================================================
