------------------------- MODULE MCRecoveryHandoff -------------------------
(* An instance of RecoveryHandoff for TLC: a daemon, a one-shot run and a   *)
(* discover of one instance, and a second daemon whose configuration        *)
(* reaches the same database by another path and so takes another lock.     *)
EXTENDS RecoveryHandoff, TLC

CONSTANTS d1, d2, r1, q1, t1, l1, l2

AllProcs == {d1, r1, q1, d2}
Roles == (d1 :> "daemon") @@ (r1 :> "run") @@ (q1 :> "discover") @@ (d2 :> "daemon")
Locks == [p \in AllProcs |-> IF p = d2 THEN l2 ELSE l1]
=============================================================================
