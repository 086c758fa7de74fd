----------------------------- MODULE MCFileLock -----------------------------
(* Two processes of two threads; one thread may acquire twice, and so nest.  *)
EXTENDS FileLock

CONSTANTS p1, p2, t1, t2

MCCalls == [a \in Actor |-> IF a = <<p1, t1>> THEN 2 ELSE 1]
=============================================================================
