------------------------------ MODULE OneEver ------------------------------
(***************************************************************************)
(* What the controller promises about automatic recovery, and nothing of   *)
(* how: a task is reserved at most once, an intervention starts at most    *)
(* once and only for a reserved task, and the native commands of that      *)
(* intervention are issued at most once each, in the order of the phase    *)
(* table of execute_reserved_handoff, until the intervention is closed.    *)
(* RecoveryHandoff, with its processes, locks, crashes and restarts,       *)
(* implements this specification.                                          *)
(***************************************************************************)
EXTENDS Naturals

CONSTANT Tasks

Commands == {"subscription", "comment", "reassign", "unblock"}

(* The blocker phases in their order; a child alert has the first two. *)
Rank == [subscription |-> 1, comment |-> 2, reassign |-> 3, unblock |-> 4]

PhasesOf(k) == IF k = "child" THEN {"subscription", "comment"} ELSE Commands

VARIABLES
    stage,      \* none -> reserved -> started
    kind,       \* what the reservation is for
    issued,     \* how often each native command was issued for the task
    closed      \* the intervention reached its end, by completion or error

avars == <<stage, kind, issued, closed>>

Init ==
    /\ stage = [t \in Tasks |-> "none"]
    /\ kind = [t \in Tasks |-> "none"]
    /\ issued = [t \in Tasks |-> [c \in Commands |-> 0]]
    /\ closed = [t \in Tasks |-> FALSE]

Reserve(t, k) ==
    /\ stage[t] = "none"
    /\ stage' = [stage EXCEPT ![t] = "reserved"]
    /\ kind' = [kind EXCEPT ![t] = k]
    /\ UNCHANGED <<issued, closed>>

Start(t) ==
    /\ stage[t] = "reserved"
    /\ stage' = [stage EXCEPT ![t] = "started"]
    /\ UNCHANGED <<kind, issued, closed>>

(* A command goes out once, after every earlier one, and never after the end. *)
Issue(t, c) ==
    /\ stage[t] = "started"
    /\ ~closed[t]
    /\ c \in PhasesOf(kind[t])
    /\ issued[t][c] = 0
    /\ \A d \in Commands : Rank[d] < Rank[c] => issued[t][d] = 1
    /\ issued' = [issued EXCEPT ![t][c] = 1]
    /\ UNCHANGED <<stage, kind, closed>>

Close(t) ==
    /\ stage[t] = "started"
    /\ ~closed[t]
    /\ closed' = [closed EXCEPT ![t] = TRUE]
    /\ UNCHANGED <<stage, kind, issued>>

Next ==
    \E t \in Tasks :
        \/ \E k \in {"blocker", "child"} : Reserve(t, k)
        \/ Start(t)
        \/ \E c \in Commands : Issue(t, c)
        \/ Close(t)

Spec == Init /\ [][Next]_avars
=============================================================================
