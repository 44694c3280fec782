---------------------------- MODULE StreamCursor ----------------------------
(***************************************************************************)
(* The durable stream cursor of one board under every sequence of calls    *)
(* its interface accepts: reconciliation with any identity, retention      *)
(* floor and observed maximum id, frames that are new, replayed, older     *)
(* than the cursor or from another generation, transport failures, and the *)
(* marks their alerts leave.                                               *)
(* A refused call raises StateError after a rollback and changes nothing;  *)
(* the guards leave it out.                                                *)
(***************************************************************************)
EXTENDS StreamRows

CONSTANTS
    Identities,     \* board generations
    MaxId,          \* bound on event ids
    MaxCount        \* bound on resets and on consecutive failures

ASSUME CursorAssumption ==
    MaxId \in Nat /\ MaxCount \in Nat /\ "" \notin Identities

VARIABLES
    row,            \* stream_cursors
    handled         \* stream_handled_events

vars == <<row, handled>>

Init == row = Uninitialized /\ handled = {}

Optional(S) == {{}} \cup {{x} : x \in S}

ReconcileStreamCursor(identity, floor, observed) ==
    /\ row' = Reconciled(row, identity, floor, observed)
    /\ row'.resets <= MaxCount
    /\ UNCHANGED handled

CommitStreamFrame(identity, cursor, ids) ==
    /\ CommitAllowed(row, handled, identity, cursor, ids)
    /\ row' = Committed(row, cursor, ids)
    /\ handled' = handled \cup ids

RecordStreamTransportFailure ==
    /\ row.identity # "" /\ row.failures < MaxCount
    /\ row' = FailureRecorded(row)
    /\ UNCHANGED handled

MarkStreamAlert(delivered) ==
    /\ row.identity # ""
    /\ row' = AlertMarked(row, delivered)
    /\ UNCHANGED handled

Next ==
    \/ \E identity \in Identities,
          floor \in Optional(0 .. MaxId), observed \in Optional(0 .. MaxId) :
              ReconcileStreamCursor(identity, floor, observed)
    \/ \E identity \in Identities, ids \in SUBSET (1 .. MaxId), cursor \in 0 .. MaxId :
              CommitStreamFrame(identity, cursor, ids)
    \/ RecordStreamTransportFailure
    \/ \E delivered \in BOOLEAN : MarkStreamAlert(delivered)

Spec == Init /\ [][Next]_vars

-----------------------------------------------------------------------------
(* A cursor never stands on an event that was not durably accepted, through *)
(* any mixture of resets, replays and older frames (the crash boundary of   *)
(* commit_stream_frame).                                                    *)
CursorStandsOnHandled == row.cursor > 0 => row.cursor \in handled

(* The cursor goes backwards only to zero and only by a counted reset.      *)
OnlyResetsGoBack ==
    [][row'.cursor < row.cursor => row'.cursor = 0 /\ row'.resets = row.resets + 1]_vars
=============================================================================
