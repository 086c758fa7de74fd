----------------------------- MODULE MCSwapFiles -----------------------------
\* SwapFiles with processes that can trade places.
EXTENDS SwapFiles, TLC

Symmetry == Permutations(Pid)
\* Two processes that write one file are followed no further.
Unshared == shared = {}
=============================================================================
