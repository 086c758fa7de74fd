---------------------------- MODULE MCUndoStore ----------------------------
\* UndoStore with caps of one and keyframes at every second depth, so that
\* eviction, pinning and replay all happen on four slots.
EXTENDS UndoStore

Symmetry == Permutations(Node) \cup Permutations(Text)
=============================================================================
