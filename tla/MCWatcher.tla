----------------------------- MODULE MCWatcher -----------------------------
(* Instances of Watcher for TLC: the casts are the situations the watcher   *)
(* was written for, each with room for the events it needs.                 *)
EXTENDS Watcher

CONSTANTS rev, gat, fix1, fix2, park1, park2, wrk, trp, par, chd

AllCasts == {{rev, gat}, {park1, park2, wrk}, {trp}, {par, chd}}
EventLimit == [cast \in AllCasts |-> 3]
LongLimit == [cast \in AllCasts |-> IF rev \in cast THEN 4 ELSE 2]
PickOrder == [p \in Parked |-> IF p = park1 THEN 2 ELSE 1]
=============================================================================
