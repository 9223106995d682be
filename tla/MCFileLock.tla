----------------------------- MODULE MCFileLock -----------------------------
(***************************************************************************)
(* Instances of FileLock: three calls in two processes, of which one may   *)
(* die and leave a single call, or two that race for its lock.             *)
(***************************************************************************)
EXTENDS FileLock, TLC

CONSTANTS c1, c2, c3, p1, p2

TwoProcs  == (c1 :> p1) @@ (c2 :> p1) @@ (c3 :> p2)
DeadOwner == (c1 :> p1) @@ (c2 :> p2) @@ (c3 :> p2)

\* An access that keeps failing with EPERM and a lock that was not given back are only
\* given up after a timeout.
Troubles  == {M \in SUBSET Mishaps : M \cap {"write", "remove"} # {} => "timeout" \in M}
OnlyDeath == {{"crash"}}
=============================================================================
