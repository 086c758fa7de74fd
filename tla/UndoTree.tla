------------------------------ MODULE UndoTree ------------------------------
(***************************************************************************)
(* What the undo tree promises the editor, with every node simply holding  *)
(* its text: the live text is stashed into the node a history command      *)
(* leaves, and the command restores exactly the text of the node it lands  *)
(* on.  UndoStore, where the tree keeps one base text, deltas and an       *)
(* evictable cache, implements this specification.                         *)
(*                                                                         *)
(* phase is the protocol between the tree and the editor: the text is      *)
(* changed only after a boundary was committed (push_undo) and before the  *)
(* next move through history, and a boundary is taken back only while the  *)
(* text is as it was when the boundary was committed.                      *)
(***************************************************************************)
EXTENDS UndoArena

CONSTANT Text

VARIABLES text,   \* the state each live node restores
          buf,    \* the live text of the buffer
          phase   \* of the editor's use of the tree

treeVars == <<arenaVars, text, buf, phase>>

Stashed == [text EXCEPT ![current] = buf]

TreeInit ==
  /\ ArenaInit
  /\ buf \in Text
  /\ text = [n \in {root} |-> buf]
  /\ phase = "closed"

\* push_undo_at
PushUndo ==
  \E c \in Node :
    /\ Push(c)
    /\ text' = [n \in Live \cup {c} |-> IF n = c THEN buf ELSE Stashed[n]]
    /\ phase' = "fresh"
    /\ UNCHANGED buf

\* A change of the text after a push_undo.
Edit(t) ==
  /\ pc = "idle"
  /\ phase # "closed"
  /\ buf' = t
  /\ phase' = "edited"
  /\ UNCHANGED <<arenaVars, text>>

\* Stash the live text, move, and restore the text of the landing node.
Land == text' = Stashed /\ buf' = Stashed[current'] /\ phase' = "closed"

Undo == StepUp /\ Land
Redo == StepDown /\ Land
Earlier == \E t \in Live : SeqEarlier(t) /\ Land
Later == \E t \in Live : SeqLater(t) /\ Land

\* What is freed takes its text with it; the live text does not move.
Forget == text' = Restricted(text, DOMAIN parent') /\ UNCHANGED buf

\* pop_last_undo by a command that took its boundary and changed nothing.
PopLastUndo == phase = "fresh" /\ Pop /\ Forget /\ phase' = "closed"

CapUndo ==
  /\ \/ \E n \in Live : DropLeaf(n)
     \/ \E n \in Live : PruneRoot(n)
     \/ CapDone
  /\ Forget
  /\ UNCHANGED phase

\* set_content: the text is replaced and the history forgotten.  The node
\* that survives keeps the text it had.
SetContent(t) ==
  /\ ClearAll
  /\ text' = Restricted(text, {current})
  /\ buf' = t
  /\ phase' = "closed"

\* The buffer is written with its undofile and opened again.
Reopen ==
  /\ Reload
  /\ text' = Stashed
  /\ phase' = "closed"
  /\ UNCHANGED buf

SetUndoLevels == (\E l \in Levels : SetLevels(l)) /\ UNCHANGED <<text, buf, phase>>

TreeNext ==
  \/ PushUndo
  \/ \E t \in Text : Edit(t)
  \/ Undo
  \/ Redo
  \/ Earlier
  \/ Later
  \/ PopLastUndo
  \/ CapUndo
  \/ \E t \in Text : SetContent(t)
  \/ Reopen
  \/ SetUndoLevels

TreeSpec == TreeInit /\ [][TreeNext]_treeVars
=============================================================================
