----------------------------- MODULE MCLspClient -----------------------------
\* LspClient on a few buffers, files and processes.
EXTENDS LspClient

\* The files play the same part, so let the first buffer have a fixed one.
\* (TLC's SYMMETRY is unsound for liveness; a renamed behaviour is not lost by
\* leaving the other first steps out.)
FirstFile ==
  slot[1] = "unused" /\ slot'[1] # "unused" =>
    cmds'[Len(cmds')].f = CHOOSE f \in File : TRUE
=============================================================================
