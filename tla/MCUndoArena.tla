---------------------------- MODULE MCUndoArena ----------------------------
\* UndoArena on a handful of slots.
EXTENDS UndoArena, TLC

Symmetry == Permutations(Node)
=============================================================================
