---------------------------- MODULE MCEditorUndo ----------------------------
\* EditorUndo on four slots.
EXTENDS EditorUndo

Symmetry == Permutations(Node) \cup Permutations(Text)
\* What comes after a command that broke the protocol is not followed.
Followed == ~strayed
\* A macro without insert sessions.
NoInsert == cmd # "insert"
=============================================================================
