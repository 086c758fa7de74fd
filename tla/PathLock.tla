------------------------------ MODULE PathLock ------------------------------
(***************************************************************************)
(* What hjkl-fs::lock promises its callers about one path: a readers-writer *)
(* lock between processes that is a mutex between the threads of one        *)
(* process.  A thread is granted the lock when nobody holds it against it,  *)
(* gives it back, or loses it with its process.                             *)
(***************************************************************************)
CONSTANTS Proc, Thread

VARIABLE held   \* held[a]: "none", or the mode in which a holds the path

Threads == Proc \X Thread

\* Nobody else may hold the path against a's request for mode m.
Grantable(a, m) ==
    \A b \in Threads \ {a} :
        held[b] /= "none" => b[1] /= a[1] /\ held[b] = "shared" /\ m = "shared"

Grant(a, m) ==
    /\ held[a] = "none"
    /\ Grantable(a, m)
    /\ held' = [held EXCEPT ![a] = m]

GiveBack(a) ==
    /\ held[a] /= "none"
    /\ held' = [held EXCEPT ![a] = "none"]

ProcessDies(p) == held' = [a \in Threads |-> IF a[1] = p THEN "none" ELSE held[a]]

PathInit == held = [a \in Threads |-> "none"]

PathNext ==
    \/ \E a \in Threads : GiveBack(a) \/ \E m \in {"shared", "exclusive"} : Grant(a, m)
    \/ \E p \in Proc : ProcessDies(p)

PathSpec == PathInit /\ [][PathNext]_held
=============================================================================
