---------------------------- MODULE MCStormHalt ----------------------------
(* Instances of StormHalt for TLC: two groups in one lane and one in none.  *)
EXTENDS StormHalt

CONSTANTS s1, s2, s3, l1, l2

GroupLanes == [s \in Storms |-> IF s = s3 THEN NoLane ELSE l1]
=============================================================================
