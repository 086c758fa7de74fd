----------------------------- MODULE MCStateFile -----------------------------
(* Two threads of one process and one of another update an index with room   *)
(* for two files; the first process has the pid of one that died.            *)
EXTENDS StateFile

CONSTANTS p1, p2, t1, t2

MCCalls == [a \in Actor |-> IF a = <<p2, t2>> THEN 0 ELSE 1]

MCOldTemps == [p \in Proc |-> IF p = p1 THEN {0} ELSE {}]
=============================================================================
