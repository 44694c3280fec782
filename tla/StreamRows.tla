----------------------------- MODULE StreamRows -----------------------------
(***************************************************************************)
(* The stream_cursors row of one board and what each method of             *)
(* ControllerState makes of it.  Every method is one SQLite transaction,   *)
(* so each is one function from row to row.  Optional arguments are sets   *)
(* with at most one element; events are their ids.                         *)
(***************************************************************************)
EXTENDS Naturals, FiniteSetsExt

(* get_stream_cursor of a board without a row. *)
Uninitialized ==
    [identity |-> "", cursor |-> 0, reset |-> TRUE, resets |-> 0,
     failures |-> 0, sent |-> FALSE, attempted |-> FALSE]

(* reconcile_stream_cursor: identity_changed, id_rollback, retention_gap. *)
MustResync(row, identity, floor, observed) ==
    \/ row.identity # "" /\ row.identity # identity
    \/ \E o \in observed : o < row.cursor
    \/ row.cursor > 0 /\ \E f \in floor : f > row.cursor

Reconciled(row, identity, floor, observed) ==
    LET resync == MustResync(row, identity, floor, observed)
    IN  [row EXCEPT !.identity = identity,
                    !.cursor = IF resync THEN 0 ELSE @,
                    !.resets = IF resync THEN @ + 1 ELSE @,
                    !.reset = row.identity # "" /\ (resync \/ @)]

EpisodeOver(row) == [row EXCEPT !.failures = 0, !.sent = FALSE, !.attempted = FALSE]

(* Mutant: the final event id is not compared with the cursor. *)
CommitAllowedBeyond(row, handled, identity, cursor, ids) ==
    /\ row.identity # "" /\ row.identity = identity
    /\ IF ids = {} THEN cursor = row.cursor
       ELSE /\ Max(ids) <= cursor
            /\ cursor > row.cursor => \A i \in ids : i > row.cursor
            /\ cursor = row.cursor => ids \subseteq handled

(* commit_stream_frame: the checks that raise StateError ... *)
CommitAllowed(row, handled, identity, cursor, ids) ==
    /\ row.identity # "" /\ row.identity = identity
    /\ IF ids = {} THEN cursor = row.cursor
       ELSE /\ Max(ids) = cursor
            /\ cursor > row.cursor => \A i \in ids : i > row.cursor
            /\ cursor = row.cursor => ids \subseteq handled

(* Mutant: the frame's cursor is adopted whatever it is. *)
CommittedAtFrame(row, cursor, ids) ==
    IF ids = {} THEN EpisodeOver(row)
    ELSE [EpisodeOver(row) EXCEPT !.cursor = cursor, !.reset = FALSE]

(* ... and the update: an older replay keeps the cursor, an empty frame     *)
(* only ends the failure episode.                                           *)
Committed(row, cursor, ids) ==
    IF ids = {} THEN EpisodeOver(row)
    ELSE [EpisodeOver(row) EXCEPT
            !.cursor = IF cursor < row.cursor THEN row.cursor ELSE cursor,
            !.reset = FALSE]

(* record_stream_transport_failure *)
FailureRecorded(row) == [row EXCEPT !.failures = @ + 1]

(* mark_stream_alert_sent, mark_stream_alert_attempted *)
AlertMarked(row, delivered) ==
    [row EXCEPT !.sent = @ \/ delivered, !.attempted = TRUE]
=============================================================================
