----------------------------- MODULE UndoArena -----------------------------
(***************************************************************************)
(* The link structure of the undo tree of one buffer                       *)
(* (crates/hjkl-buffer/src/undo.rs, struct UndoTree): an arena of nodes,   *)
(* each a buffer state the user can land on, with its parent, its          *)
(* children, the child <C-r> follows (lastChild), its change number (seq)  *)
(* and the flag onPath that says the node lies between the root and        *)
(* current.  What the nodes contain is left to UndoTree and UndoStore.     *)
(*                                                                         *)
(* The slab's live slots are the common domain of the per-node functions,  *)
(* so a freed node is in no domain.  A children vector only ever gets the  *)
(* node with the highest seq appended and elements removed, so it is a set *)
(* here and its last element is the one with the greatest seq.             *)
(*                                                                         *)
(* The loop of cap() is run one iteration at a time: pc says which caller  *)
(* is in it, and nothing else is enabled until it has finished.            *)
(***************************************************************************)
EXTENDS Naturals, FiniteSets

CONSTANTS Node,     \* the slots of the arena
          NoNode,   \* the None of an Option<NodeId>
          MaxSeq,   \* bound on next_seq
          Levels    \* the values :set undolevels takes; 0 is unlimited

ASSUME ArenaAssumption == /\ NoNode \notin Node
                          /\ MaxSeq \in Nat
                          /\ Levels \subseteq Nat

VARIABLES parent, children, lastChild, onPath, seq,  \* per live node
          nextSeq, root, current,
          undoLevels,                                \* settings.undo_levels
          pc                                         \* who is inside cap()

links == <<parent, children, lastChild, onPath, seq>>
arenaVars == <<parent, children, lastChild, onPath, seq, nextSeq, root,
               current, undoLevels, pc>>

Live == DOMAIN parent

Restricted(f, S) == [n \in S |-> f[n]]

(***************************************************************************)
(* The nodes a walk along the parent links from n visits, n included: the  *)
(* least set that holds n and is closed under par.                         *)
(***************************************************************************)
Closed(par, S) == \A k \in S : par[k] \in S \cup {NoNode}

Anc(par, n) ==
  {m \in DOMAIN par :
     \A S \in SUBSET DOMAIN par : n \in S /\ Closed(par, S) => m \in S}

Leaves == {n \in Live : children[n] = {}}

\* Mutant: the redo target is not re-derived.
IsLastForgotten(s, S) == s = NoNode

\* s is the last element of a children vector that holds the nodes of S.
IsLast(s, S) ==
  IF S = {} THEN s = NoNode
            ELSE s \in S /\ \A d \in S : seq[d] <= seq[s]

\* node_below / node_above: the neighbours of current in seq order.
IsBelow(t) ==
  /\ seq[t] < seq[current]
  /\ \A n \in Live : seq[n] < seq[current] => seq[n] <= seq[t]

IsAbove(t) ==
  /\ seq[t] > seq[current]
  /\ \A n \in Live : seq[n] > seq[current] => seq[n] >= seq[t]

----------------------------------------------------------------------------
\* UndoTree::new
ArenaInit ==
  \E r \in Node :
    /\ parent = [n \in {r} |-> NoNode]
    /\ children = [n \in {r} |-> {}]
    /\ lastChild = [n \in {r} |-> NoNode]
    /\ onPath = [n \in {r} |-> TRUE]
    /\ seq = [n \in {r} |-> 0]
    /\ nextSeq = 1
    /\ root = r
    /\ current = r
    /\ undoLevels \in Levels
    /\ pc = "idle"

\* push: a fresh child of current, which becomes current.
Push(c) ==
  /\ pc = "idle"
  /\ nextSeq < MaxSeq
  /\ c \in Node \ Live
  /\ LET dom == Live \cup {c} IN
     /\ parent' = [n \in dom |-> IF n = c THEN current ELSE parent[n]]
     /\ children' = [n \in dom |-> IF n = c THEN {}
                                   ELSE IF n = current THEN children[n] \cup {c}
                                   ELSE children[n]]
     /\ lastChild' = [n \in dom |-> IF n = c THEN NoNode
                                    ELSE IF n = current THEN c
                                    ELSE lastChild[n]]
     /\ onPath' = [n \in dom |-> IF n = c THEN TRUE ELSE onPath[n]]
     /\ seq' = [n \in dom |-> IF n = c THEN nextSeq ELSE seq[n]]
  /\ nextSeq' = nextSeq + 1
  /\ current' = c
  /\ pc' = "push"
  /\ UNCHANGED <<root, undoLevels>>

\* undo_step: to the parent, which will redo back to the node just left.
StepUp ==
  /\ pc = "idle"
  /\ parent[current] # NoNode
  /\ lastChild' = [lastChild EXCEPT ![parent[current]] = current]
  /\ onPath' = [onPath EXCEPT ![current] = FALSE]
  /\ current' = parent[current]
  /\ UNCHANGED <<parent, children, seq, nextSeq, root, undoLevels, pc>>

\* redo_step, then cap_undo.
StepDown ==
  /\ pc = "idle"
  /\ lastChild[current] # NoNode
  /\ onPath' = [onPath EXCEPT ![lastChild[current]] = TRUE]
  /\ current' = lastChild[current]
  /\ pc' = "move"
  /\ UNCHANGED <<parent, children, lastChild, seq, nextSeq, root, undoLevels>>

(***************************************************************************)
(* retarget_current.  The first loop climbs from t to the first node that  *)
(* is flagged (the fork), flagging what it passes and making each parent   *)
(* name it; the second climbs from current to the fork and clears flags.   *)
(***************************************************************************)
Fork(t) ==
  CHOOSE f \in Anc(parent, t) :
    onPath[f] /\ \A k \in Anc(parent, t) : onPath[k] => k \in Anc(parent, f)

Joining(t) == Anc(parent, t) \ Anc(parent, Fork(t))

\* Mutant: the flags of the branch that is left stay set.
LeavingNothing(t) == {}

Leaving(t) == Anc(parent, current) \ Anc(parent, Fork(t))

\* Mutant: every redo target on the way becomes the landing node.
RelinkedToTarget(S) ==
  [n \in Live |-> IF \E m \in S : parent[m] = n
                  THEN CHOOSE m \in S : children[m] \cap S = {}
                  ELSE lastChild[n]]

\* Mutant: retarget_current leaves the redo targets alone.
RelinkedNever(S) == lastChild

\* lastChild once every parent of a node of S names that node.
Relinked(S) ==
  [n \in Live |-> IF \E m \in S : parent[m] = n
                  THEN CHOOSE m \in S : parent[m] = n
                  ELSE lastChild[n]]

Retarget(t) ==
  /\ lastChild' = Relinked(Joining(t))
  /\ onPath' = [n \in Live |->
                  (onPath[n] \/ n \in Joining(t)) /\ n \notin Leaving(t)]
  /\ current' = t
  /\ UNCHANGED <<parent, children, seq, nextSeq, root, undoLevels>>

\* seq_earlier_step, one g- or :earlier step.
SeqEarlier(t) ==
  /\ pc = "idle"
  /\ IsBelow(t)
  /\ Retarget(t)
  /\ pc' = pc

\* seq_later_step, one g+ or :later step, then cap_undo.
SeqLater(t) ==
  /\ pc = "idle"
  /\ IsAbove(t)
  /\ Retarget(t)
  /\ pc' = "move"

\* pop_committed gives the popped seq back only if it was the newest.
SeqAfterPop == IF seq[current] + 1 = nextSeq THEN nextSeq - 1 ELSE nextSeq

\* pop_committed: drop current, a leaf, without moving the buffer.
Pop ==
  /\ pc = "idle"
  /\ children[current] = {}
  /\ parent[current] # NoNode
  /\ LET par == parent[current]
         rest == Live \ {current}
         siblings == children[par] \ {current}
     IN /\ \E s \in siblings \cup {NoNode} :
             /\ IsLast(s, siblings)
             /\ lastChild' = [n \in rest |-> IF n = par THEN s ELSE lastChild[n]]
        /\ children' = [n \in rest |-> IF n = par THEN siblings ELSE children[n]]
        /\ parent' = Restricted(parent, rest)
        /\ onPath' = Restricted(onPath, rest)
        /\ seq' = Restricted(seq, rest)
        /\ nextSeq' = SeqAfterPop
        /\ current' = par
  /\ UNCHANGED <<root, undoLevels, pc>>

----------------------------------------------------------------------------
(***************************************************************************)
(* The loop of cap().                                                      *)
(***************************************************************************)
\* Mutant: cap stops one node early.
OverBudgetByTwo == undoLevels > 0 /\ Cardinality(Live) - 2 > undoLevels

OverBudget == undoLevels > 0 /\ Cardinality(Live) - 1 > undoLevels

\* Mutant: cap drops the oldest leaf, on the undo line or not.
AllLeaves == Leaves

OffPathLeaves == {n \in Leaves : ~onPath[n]}

\* lowest_offpath_leaf and detach_leaf.
DropLeaf(leaf) ==
  /\ pc # "idle"
  /\ OverBudget
  /\ leaf \in OffPathLeaves
  /\ \A n \in OffPathLeaves : seq[leaf] <= seq[n]
  /\ LET par == parent[leaf]
         rest == Live \ {leaf}
         siblings == children[par] \ {leaf}
     IN /\ \E s \in siblings \cup {NoNode} :
             /\ IsLast(s, siblings)
             /\ lastChild' = [n \in rest |-> IF n = par /\ lastChild[n] = leaf
                                             THEN s ELSE lastChild[n]]
        /\ children' = [n \in rest |-> IF n = par THEN siblings ELSE children[n]]
        /\ parent' = Restricted(parent, rest)
        /\ onPath' = Restricted(onPath, rest)
        /\ seq' = Restricted(seq, rest)
  /\ UNCHANGED <<nextSeq, root, current, undoLevels, pc>>

\* What prune_root_side frees: the root and its branches other than child's.
PrunedWith(child) ==
  {root} \cup {m \in Live : \E c \in children[root] \ {child} : c \in Anc(parent, m)}

PruneRoot(child) ==
  /\ pc # "idle"
  /\ OverBudget
  /\ OffPathLeaves = {}
  /\ root # current
  /\ child \in children[root]
  /\ onPath[child]
  /\ LET rest == Live \ PrunedWith(child) IN
     /\ parent' = [n \in rest |-> IF n = child THEN NoNode ELSE parent[n]]
     /\ children' = Restricted(children, rest)
     /\ lastChild' = Restricted(lastChild, rest)
     /\ onPath' = Restricted(onPath, rest)
     /\ seq' = Restricted(seq, rest)
  /\ root' = child
  /\ UNCHANGED <<nextSeq, current, undoLevels, pc>>

\* Mutant: a push drops every branch off the undo line.
ClearRedoAllBranches ==
  LET rest == {m \in Live : onPath[m]} IN
  /\ parent' = Restricted(parent, rest)
  /\ children' = [n \in rest |-> children[n] \cap rest]
  /\ lastChild' = Restricted(lastChild, rest)
  /\ onPath' = Restricted(onPath, rest)
  /\ seq' = Restricted(seq, rest)

\* clear_redo: drop everything below current.
ClearRedo ==
  LET rest == {m \in Live : m = current \/ current \notin Anc(parent, m)} IN
  /\ parent' = Restricted(parent, rest)
  /\ children' = [n \in rest |-> IF n = current THEN {} ELSE children[n]]
  /\ lastChild' = [n \in rest |-> IF n = current THEN NoNode ELSE lastChild[n]]
  /\ onPath' = Restricted(onPath, rest)
  /\ seq' = Restricted(seq, rest)

\* The loop ends; push_undo_at then calls clear_redo.
CapDone ==
  /\ pc # "idle"
  /\ ~(OverBudget /\ (OffPathLeaves # {} \/ root # current))
  /\ IF pc = "push" THEN ClearRedo ELSE UNCHANGED links
  /\ pc' = "idle"
  /\ UNCHANGED <<nextSeq, root, current, undoLevels>>

----------------------------------------------------------------------------
\* clear_all: current is all that is left, and keeps its seq.
ClearAll ==
  /\ pc = "idle"
  /\ parent' = [n \in {current} |-> NoNode]
  /\ children' = [n \in {current} |-> {}]
  /\ lastChild' = [n \in {current} |-> NoNode]
  /\ onPath' = [n \in {current} |-> TRUE]
  /\ seq' = Restricted(seq, {current})
  /\ root' = current
  /\ UNCHANGED <<nextSeq, current, undoLevels, pc>>

(***************************************************************************)
(* to_serializable, then from_serializable on the file it wrote: the       *)
(* flags are set again by a walk up from current that makes each ancestor  *)
(* name its child on the path, and a lastChild that is no child is         *)
(* cleared.  Slots are renumbered in the file, which a model with          *)
(* unordered slots does not see.                                           *)
(***************************************************************************)
Reload ==
  /\ pc = "idle"
  /\ onPath' = [n \in Live |-> n \in Anc(parent, current)]
  /\ LET relinked == Relinked(Anc(parent, current)) IN
     lastChild' = [n \in Live |-> IF relinked[n] \in children[n]
                                  THEN relinked[n] ELSE NoNode]
  /\ UNCHANGED <<parent, children, seq, nextSeq, root, current, undoLevels, pc>>

\* :set undolevels
SetLevels(l) ==
  /\ pc = "idle"
  /\ undoLevels' = l
  /\ UNCHANGED <<links, nextSeq, root, current, pc>>

ArenaNext ==
  \/ \E c \in Node : Push(c)
  \/ StepUp
  \/ StepDown
  \/ \E t \in Live : SeqEarlier(t)
  \/ \E t \in Live : SeqLater(t)
  \/ Pop
  \/ \E leaf \in Live : DropLeaf(leaf)
  \/ \E child \in Live : PruneRoot(child)
  \/ CapDone
  \/ ClearAll
  \/ Reload
  \/ \E l \in Levels : SetLevels(l)

ArenaSpec == ArenaInit /\ [][ArenaNext]_arenaVars

----------------------------------------------------------------------------
TypeOK ==
  /\ parent \in [Live -> Live \cup {NoNode}]
  /\ Live \subseteq Node
  /\ children \in [Live -> SUBSET Live]
  /\ lastChild \in [Live -> Live \cup {NoNode}]
  /\ onPath \in [Live -> BOOLEAN]
  /\ seq \in [Live -> Nat]
  /\ nextSeq \in Nat
  /\ root \in Live
  /\ current \in Live
  /\ undoLevels \in Levels
  /\ pc \in {"idle", "push", "move"}

(***************************************************************************)
(* The links form one tree: both directions agree, a redo target is a      *)
(* child, the root alone has no parent, and every parent walk ends at it.  *)
(* materialize and retarget_current follow parent in unbounded loops, so a *)
(* link left dangling by a prune, a pop or a branch drop would hang them.  *)
(***************************************************************************)
AllRooted == \A n \in Live : root \in Anc(parent, n)

IsTree ==
  /\ \A n, m \in Live : m \in children[n] <=> parent[m] = n
  /\ \A n \in Live : lastChild[n] \in children[n] \cup {NoNode}
  /\ \A n \in Live : parent[n] = NoNode <=> n = root
  /\ AllRooted

(***************************************************************************)
(* Change numbers are unique, grow along every branch and stay below       *)
(* next_seq, also after pop_committed has given one back: by_seq holds     *)
(* every live node exactly once.                                           *)
(***************************************************************************)
SeqOrdered ==
  /\ \A n \in Live : seq[n] < nextSeq
  /\ \A n, m \in Live : seq[n] = seq[m] => n = m
  /\ \A n \in Live : parent[n] # NoNode => seq[parent[n]] < seq[n]

(***************************************************************************)
(* UndoNode::on_path: the flagged nodes are exactly the walk from current  *)
(* to the root.                                                            *)
(***************************************************************************)
PathExact == \A n \in Live : onPath[n] <=> n \in Anc(parent, current)

(***************************************************************************)
(* Every ancestor of current names its child on the path as the redo       *)
(* target: after any number of u, <C-r> retraces the same branch           *)
(* (retarget_current relies on it above the fork).                         *)
(***************************************************************************)
RedoRetracesPath ==
  \A n \in Live : onPath[n] /\ n # root => lastChild[parent[n]] = n

(***************************************************************************)
(* A node with children always has a redo target, whatever leaf cap or     *)
(* pop_committed removed from under it: <C-r> never stops short of a leaf. *)
(***************************************************************************)
RedoReachable == \A n \in Live : children[n] # {} => lastChild[n] # NoNode

(***************************************************************************)
(* cap(): the state the user is on and its whole undo line outlive every   *)
(* abandoned branch.  One iteration frees off-path nodes only, or, when no *)
(* off-path leaf is left, the root and nothing else.                       *)
(***************************************************************************)
CapSparesUndoLine ==
  [][pc # "idle" /\ pc' = pc =>
       \/ \A n \in Live \ DOMAIN parent' : ~onPath[n]
       \/ /\ \A n \in Leaves : onPath[n]
          /\ Live \ DOMAIN parent' = {root}]_arenaVars

(***************************************************************************)
(* An edit after an undo forks: with unlimited undolevels push_undo_at     *)
(* frees nothing from its push to its closing clear_redo, so the old       *)
(* forward branches stay reachable for g- and g+.                          *)
(***************************************************************************)
PushKeepsBranches ==
  [][undoLevels = 0 /\ "push" \in {pc, pc'}
       => Live \subseteq DOMAIN parent']_arenaVars

(***************************************************************************)
(* When the loop of cap ends, the tree is within undolevels, however far   *)
(* above it a lowered setting had left it.                                 *)
(***************************************************************************)
CapReached ==
  [][pc # "idle" /\ pc' = "idle" /\ undoLevels > 0
       => Cardinality(DOMAIN parent') - 1 <= undoLevels]_arenaVars
=============================================================================
