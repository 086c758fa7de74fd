----------------------------- MODULE EditorUndo -----------------------------
(***************************************************************************)
(* How the editor drives the undo tree: push_undo before a change, undo    *)
(* groups that make :g, :normal and a macro one undo step                  *)
(* (crates/hjkl-buffer/src/content.rs, crates/hjkl-engine/src/editor.rs),  *)
(* the substitute command, which takes its boundary back when it replaced  *)
(* nothing, and an insert session.  Unlike UndoStore, where the protocol   *)
(* is assumed, the commands here do what the code does, and it is checked  *)
(* whether they follow it.                                                 *)
(*                                                                         *)
(* A command is a step that takes the boundary and steps that change the   *)
(* text; cmd is the command under way.  dirty_gen is only ever compared    *)
(* with its value at the opening of the group, so touched says whether     *)
(* they differ.                                                            *)
(***************************************************************************)
EXTENDS UndoStore

CONSTANT MaxDepth  \* how deep groups nest

VARIABLES groupDepth, armed, touched, cmd,
          atOpen,    \* history: the buffer and the tree when the group opened
          strayed    \* history: a command has broken the boundary protocol

groupVars == <<groupDepth, armed, touched, atOpen>>
editorVars == <<storeVars, groupVars, cmd, strayed>>

Snapshot == [text |-> buf, nodes |-> Live]

Grouped == groupDepth > 0

EditorInit ==
  /\ StoreInit
  /\ groupDepth = 0
  /\ armed = FALSE
  /\ touched = FALSE
  /\ cmd = "none"
  /\ atOpen = Snapshot
  /\ strayed = FALSE

\* The editor is between two keys; cap has finished.
Ready == pc = "idle" /\ cmd = "none"

\* The uses of the tree that do not keep to the protocol: :s inside a group,
\* as in :g/pat/s/x/y/; u, <C-r>, g- and g+ inside a group, as in a macro; and
\* <C-o> followed by u inside an insert session.
StraysIf(P) == strayed' = (strayed \/ P)

\* undo_group_enter
GroupEnter ==
  /\ Ready
  /\ groupDepth < MaxDepth
  /\ groupDepth' = groupDepth + 1
  /\ IF Grouped THEN UNCHANGED <<armed, touched, atOpen>>
     ELSE armed' = FALSE /\ touched' = FALSE /\ atOpen' = Snapshot
  /\ UNCHANGED <<storeVars, cmd, strayed>>

\* pop_committed is refused at the root and above a child.
CanPop == children[current] = {} /\ parent[current] # NoNode
PopIfLeaf == IF CanPop THEN PopCommitted ELSE UNCHANGED storeVars

\* Mutant: an idle group keeps its boundary.
UntouchedNever == FALSE

\* undo_group_exit: an armed group that touched nothing takes its boundary
\* back.
Untouched == armed /\ ~touched

GroupExit ==
  /\ Ready
  /\ Grouped
  /\ groupDepth' = groupDepth - 1
  /\ IF groupDepth > 1 THEN UNCHANGED <<storeVars, armed>>
     ELSE /\ IF Untouched THEN PopIfLeaf ELSE UNCHANGED storeVars
          /\ armed' = FALSE
  /\ UNCHANGED <<touched, cmd, atOpen, strayed>>

\* Mutant: a group suppresses every boundary, its first one too.
SuppressedInGroup == Grouped

\* push_undo_at: inside a group only the first call takes a boundary.
Suppressed == Grouped /\ armed

PushUndoAt ==
  /\ IF Suppressed THEN UNCHANGED <<storeVars, armed>>
     ELSE PushUndo /\ armed' = Grouped
  /\ UNCHANGED <<groupDepth, touched, atOpen>>

\* Mutant: :s takes no boundary.
BeginSubstBare(c) ==
  /\ Ready
  /\ IF c = "subst" THEN UNCHANGED <<storeVars, groupVars>> ELSE PushUndoAt
  /\ cmd' = c
  /\ StraysIf(c = "subst" /\ Grouped)

Begin(c) ==
  /\ Ready
  /\ PushUndoAt
  /\ cmd' = c
  /\ StraysIf(c = "subst" /\ Grouped)

\* A change of the text, which bumps dirty_gen.
Mutate(t) ==
  /\ Typed(t)
  /\ touched' = TRUE
  /\ UNCHANGED <<phase, groupDepth, armed, atOpen, strayed>>

Change(t) == cmd = "change" /\ Mutate(t) /\ cmd' = "none"

\* apply_substitute found something to replace...
Substitute(t) == cmd = "subst" /\ Mutate(t) /\ cmd' = "none"

\* ... or nothing, or only counted (flag n), and calls pop_last_undo.
SubstituteNothing ==
  /\ cmd = "subst"
  /\ pc = "idle"
  /\ PopIfLeaf
  /\ cmd' = "none"
  /\ UNCHANGED <<groupVars, strayed>>

\* An insert session: any number of characters after one boundary...
Type(t) == cmd = "insert" /\ Mutate(t) /\ UNCHANGED cmd

\* ... and another one where a cursor key breaks it in two.
BreakInsert == cmd = "insert" /\ pc = "idle" /\ PushUndoAt /\ UNCHANGED <<cmd, strayed>>

\* <Esc>.  What leaving changes in the text (an unused indent, a paired tag) is
\* one more Type.
EndInsert ==
  /\ cmd = "insert"
  /\ pc = "idle"
  /\ cmd' = "none"
  /\ UNCHANGED <<storeVars, groupVars, strayed>>

\* A history command restores a text, which bumps dirty_gen.
Historic(Step) ==
  /\ Step
  /\ touched' = TRUE
  /\ UNCHANGED <<groupDepth, armed, atOpen>>

History ==
  /\ cmd = "none"
  /\ \/ Historic(Undo)
     \/ Historic(Redo)
     \/ Historic(Earlier)
     \/ Historic(Later)
  /\ StraysIf(Grouped)
  /\ UNCHANGED cmd

\* <C-o>u: end_step goes back to insert mode and takes no new boundary.
InsertUndo ==
  /\ cmd = "insert"
  /\ Historic(Undo)
  /\ StraysIf(TRUE)
  /\ UNCHANGED cmd

Trim == CapUndo /\ UNCHANGED <<groupVars, cmd, strayed>>

EditorNext ==
  \/ GroupEnter
  \/ GroupExit
  \/ \E c \in {"change", "subst", "insert"} : Begin(c)
  \/ \E t \in Text : Change(t) \/ Substitute(t) \/ Type(t)
  \/ SubstituteNothing
  \/ BreakInsert
  \/ EndInsert
  \/ History
  \/ InsertUndo
  \/ Trim

EditorSpec == EditorInit /\ [][EditorNext]_editorVars

----------------------------------------------------------------------------
GroupCloses == groupDepth = 1 /\ groupDepth' = 0

(***************************************************************************)
(* One u reverts the entire group (the module comment of                   *)
(* hjkl-ex/src/global.rs): when an outermost group that changed the text   *)
(* closes, the node u goes to holds the text from before the group.  Not   *)
(* so with a :s or a history command inside the group.                     *)
(***************************************************************************)
GroupIsOneStep ==
  [][GroupCloses /\ buf # atOpen.text /\ ~strayed
       => /\ parent'[current'] # NoNode
          /\ Content(parent[current])' = atOpen.text]_editorVars

(***************************************************************************)
(* A group that touched nothing loses no undo state: every state that was  *)
(* there when it opened is still reachable.  With a limit on the undo      *)
(* levels it may: the boundary the group takes and gives back can push the *)
(* oldest state out.                                                       *)
(***************************************************************************)
IdleGroupKeepsStates ==
  [][GroupCloses /\ ~touched /\ undoLevels = 0 /\ ~strayed
       => DOMAIN parent' = atOpen.nodes]_editorVars

(***************************************************************************)
(* No command changes the text of a state that already has successors: the *)
(* edges below it were computed from the text it had.  Not so once a       *)
(* command has broken the boundary protocol.                               *)
(***************************************************************************)
OnlyTipsChange ==
  [][pc = "idle" /\ pc' = "idle" /\ current' = current /\ buf' # buf /\ ~strayed
       => children[current] = {}]_editorVars
=============================================================================
