--------------------------- MODULE StreamObserver ---------------------------
(***************************************************************************)
(* One cycle after another of the daemon's event observation               *)
(* (StreamObserver.poll): boards are polled serially, each over a          *)
(* connection that persists between cycles; a frame is classified event by *)
(* event, its actionable events reserve their tasks, and only then is it   *)
(* committed at the cursor.  The process may be stopped or killed between  *)
(* any two of these steps, connections fail, and the current-state reader  *)
(* raises.                                                                 *)
(*                                                                         *)
(* Durable: row, handled, reserved.  Volatile: the rest except log, which  *)
(* is the native board.  What the classifier says of an event is a choice  *)
(* here.                                                                   *)
(***************************************************************************)
EXTENDS StreamRows, Sequences

CONSTANTS
    BoardOrder,     \* the watched boards, in the order poll visits them
    Tasks,
    TaskOf,         \* [board -> [event id -> task]]
    MaxEvents,      \* bound on the events of a board
    MaxFrame,       \* events the server puts in one frame
    Threshold,      \* alert_after_consecutive_failures
    MaxFaults,      \* bound on failures, stops, crashes and rollbacks together
    HistoryMayMove  \* a board may lose its newest events (restore, trim)

Boards == {BoardOrder[i] : i \in DOMAIN BoardOrder}

(* With no board to watch, poll returns at once: there is at least one.     *)
ASSUME ObserverAssumption ==
    /\ BoardOrder \in Seq(Boards) /\ BoardOrder # <<>>
    /\ MaxEvents \in Nat /\ MaxFrame \in Nat \ {0}
    /\ Threshold \in Nat \ {0} /\ MaxFaults \in Nat /\ HistoryMayMove \in BOOLEAN
    /\ TaskOf \in [Boards -> [1 .. MaxEvents -> Tasks]]

VARIABLES
    log,            \* native: the ids 1 .. log[b] exist
    row,            \* stream_cursors
    handled,        \* stream_handled_events
    reserved,       \* blocker_reservations
    pc,             \* where poll is
    at,             \* index of the board being polled
    socket,         \* the adapter has an open connection
    position,       \* the adapter's own cursor
    backoff,        \* a reconnect is not due yet
    frame,          \* ids of the frame received and not yet classified
    verdicts,       \* ids of the frame, classified, by verdict
    notice,         \* the frame ends an episode that was alerted
    stop,           \* stop_event
    faults,
    owed,           \* history: ids committed with an actionable verdict
    alerts,         \* history: alerts sent in the current outage episode
    torn,           \* history: deaths between an alert and its mark, this episode
    moved           \* history: boards that lost events they had shown

durable  == <<row, handled, reserved>>
volatile == <<socket, position, backoff, frame, verdicts, notice, stop>>
history  == <<owed, alerts, torn, moved>>
vars == <<log, durable, pc, at, volatile, faults, history>>

NoVerdicts == [reserve |-> {}, skip |-> {}]

(* The identity poll passes is endpoint|board: it never changes in a daemon. *)
Identity == "endpoint"

Init ==
    /\ log = [b \in Boards |-> 0]
    /\ row = [b \in Boards |-> Uninitialized]
    /\ handled = [b \in Boards |-> {}]
    /\ reserved = [b \in Boards |-> {}]
    /\ pc = "down"
    /\ at = 1
    /\ socket = [b \in Boards |-> FALSE]
    /\ position = [b \in Boards |-> 0]
    /\ backoff = [b \in Boards |-> FALSE]
    /\ frame = {} /\ verdicts = NoVerdicts /\ notice = FALSE
    /\ stop = FALSE
    /\ faults = 0
    /\ owed = [b \in Boards |-> {}]
    /\ alerts = [b \in Boards |-> 0]
    /\ torn = [b \in Boards |-> 0]
    /\ moved = {}

Board == BoardOrder[at]

Fault == faults < MaxFaults /\ faults' = faults + 1

-----------------------------------------------------------------------------
(* The cycle around poll. *)

Start ==
    /\ pc = "down"
    /\ pc' = "poll" /\ at' = 1
    /\ UNCHANGED <<log, durable, volatile, faults, history>>

(* The board loop is left: after the last board, on a stop between boards,  *)
(* or when a stop abandoned a frame.                                        *)
LeaveLoop(next) ==
    /\ pc' = next /\ at' = 1
    /\ frame' = {} /\ verdicts' = NoVerdicts /\ notice' = FALSE

(* Mutant: a board that is done ends the loop. *)
AdvanceReturning ==
    /\ pc' = "rest" /\ at' = 1
    /\ frame' = {} /\ verdicts' = NoVerdicts /\ notice' = FALSE

(* On to the next board. *)
Advance ==
    /\ IF at = Len(BoardOrder) THEN pc' = "rest" /\ at' = 1
       ELSE pc' = "poll" /\ at' = at + 1
    /\ frame' = {} /\ verdicts' = NoVerdicts /\ notice' = FALSE

(* Storm check, sweep and handoff follow, then the next cycle or, after a   *)
(* stop request, the end of the process, which closes every connection.     *)
Gone ==
    /\ LeaveLoop("down")
    /\ socket' = [b \in Boards |-> FALSE]
    /\ position' = [b \in Boards |-> 0]
    /\ backoff' = [b \in Boards |-> FALSE]
    /\ stop' = FALSE

EndCycle ==
    /\ pc = "rest"
    /\ IF stop THEN Gone
       ELSE pc' = "poll" /\ at' = 1 /\ UNCHANGED volatile
    /\ UNCHANGED <<log, durable, faults, history>>

RequestStop ==
    /\ pc # "down" /\ ~stop
    /\ Fault
    /\ stop' = TRUE
    /\ UNCHANGED <<log, durable, pc, at, socket, position, backoff, frame, verdicts, notice,
                   history>>

Crash ==
    /\ pc # "down"
    /\ Fault
    /\ Gone
    /\ torn' = [torn EXCEPT ![Board] = IF pc \in {"delivered", "undelivered"} THEN @ + 1 ELSE @]
    /\ UNCHANGED <<log, durable, owed, alerts, moved>>

-----------------------------------------------------------------------------
(* Connecting and receiving. *)

StopBetweenBoards ==
    /\ pc = "poll" /\ stop
    /\ LeaveLoop("rest")
    /\ UNCHANGED <<log, durable, socket, position, backoff, stop, faults, history>>

SkipBackedOff ==
    /\ pc = "poll" /\ ~stop /\ backoff[Board]
    /\ Advance
    /\ UNCHANGED <<log, durable, socket, position, backoff, stop, faults, history>>

Reconcile ==
    /\ pc = "poll" /\ ~stop /\ ~backoff[Board]
    /\ row' = [row EXCEPT ![Board] = Reconciled(@, Identity, {}, {})]
    /\ pc' = "connect"
    /\ UNCHANGED <<log, handled, reserved, at, volatile, faults, history>>

(* Mutant: an open connection is kept wherever it stands. *)
AlignedWhileOpen == socket[Board]

Aligned == socket[Board] /\ position[Board] = row[Board].cursor

(* _ensure_connected: an open connection is kept only at the durable cursor. *)
Connect ==
    /\ pc = "connect"
    /\ IF Aligned THEN UNCHANGED <<socket, position>>
       ELSE /\ socket' = [socket EXCEPT ![Board] = TRUE]
            /\ position' = [position EXCEPT ![Board] = row[Board].cursor]
    /\ pc' = "recv"
    /\ UNCHANGED <<log, durable, at, backoff, frame, verdicts, notice, stop, faults, history>>

(* A transport or authentication failure is recorded and may alert; other   *)
(* stream errors only back off.                                             *)
StreamFails(counted) ==
    /\ Fault
    /\ socket' = [socket EXCEPT ![Board] = FALSE]
    /\ backoff' = [backoff EXCEPT ![Board] = TRUE]
    /\ IF counted
       THEN /\ row' = [row EXCEPT ![Board] = FailureRecorded(@)]
            /\ pc' = "alert"
            /\ UNCHANGED <<at, frame, verdicts, notice>>
       ELSE Advance /\ UNCHANGED row
    /\ UNCHANGED <<log, handled, reserved, position, stop, history>>

ConnectFails(counted) == pc = "connect" /\ ~Aligned /\ StreamFails(counted)

RecvFails(counted) == pc = "recv" /\ StreamFails(counted)

FrameReceived(ids) ==
    /\ frame' = ids
    /\ notice' = (row[Board].sent \/ row[Board].attempted)
    /\ pc' = "classify"
    /\ UNCHANGED <<log, durable, at, socket, backoff, verdicts, stop, faults, history>>

(* The server sends what follows the adapter's position, in order. *)
RecvFrame ==
    /\ pc = "recv"
    /\ \E last \in position[Board] + 1 .. log[Board] :
          /\ last <= position[Board] + MaxFrame
          /\ position' = [position EXCEPT ![Board] = last]
          /\ FrameReceived(position[Board] + 1 .. last)

(* Nothing arrived within the receive timeout. *)
RecvIdle ==
    /\ pc = "recv"
    /\ position[Board] >= log[Board]
    /\ FrameReceived({})
    /\ UNCHANGED position

-----------------------------------------------------------------------------
(* Classifying, reserving, committing. *)

ClassifyOne ==
    /\ pc = "classify" /\ frame # {} /\ ~stop
    /\ LET event == Min(frame)
       IN  /\ frame' = frame \ {event}
           /\ \/ verdicts' = [verdicts EXCEPT !.reserve = @ \cup {event}]
              \/ verdicts' = [verdicts EXCEPT !.skip = @ \cup {event}]
    /\ UNCHANGED <<log, durable, pc, at, socket, position, backoff, notice, stop, faults,
                   history>>

(* Mutant: a stop mid-frame keeps what is classified already. *)
AbandonRestOfFrame ==
    /\ pc = "classify" /\ frame # {} /\ stop
    /\ pc' = "reserve" /\ frame' = verdicts.reserve
    /\ UNCHANGED <<log, durable, at, socket, position, backoff, verdicts, notice, stop, faults,
                   history>>

(* A stop mid-frame: the frame is neither reserved nor committed. *)
AbandonFrame ==
    /\ pc = "classify" /\ frame # {} /\ stop
    /\ LeaveLoop("rest")
    /\ UNCHANGED <<log, durable, socket, position, backoff, stop, faults, history>>

(* CurrentStateReaderError: the cycle ends with an error; the connection    *)
(* stays open, past the durable cursor.                                     *)
ReaderFails ==
    /\ pc = "classify" /\ frame # {} /\ ~stop
    /\ Fault
    /\ LeaveLoop("poll")
    /\ UNCHANGED <<log, durable, socket, position, backoff, stop, history>>

FrameClassified ==
    /\ pc = "classify" /\ frame = {}
    /\ pc' = "reserve"
    /\ frame' = verdicts.reserve
    /\ UNCHANGED <<log, durable, at, socket, position, backoff, verdicts, notice, stop, faults,
                   history>>

(* Mutant: only the first actionable event of a frame is reserved. *)
ReserveFirst ==
    /\ pc = "reserve" /\ frame # {}
    /\ frame' = {}
    /\ reserved' = [reserved EXCEPT ![Board] = @ \cup {TaskOf[Board][Min(frame)]}]
    /\ UNCHANGED <<log, row, handled, pc, at, socket, position, backoff, verdicts, notice, stop,
                   faults, history>>

(* reserve_stream_event commits each reservation by itself. *)
ReserveOne ==
    /\ pc = "reserve" /\ frame # {}
    /\ LET event == Min(frame)
       IN  /\ frame' = frame \ {event}
           /\ reserved' = [reserved EXCEPT ![Board] = @ \cup {TaskOf[Board][event]}]
    /\ UNCHANGED <<log, row, handled, pc, at, socket, position, backoff, verdicts, notice, stop,
                   faults, history>>

CommitFrame ==
    /\ pc = "reserve" /\ frame = {}
    /\ LET ids == verdicts.reserve \cup verdicts.skip
       IN  /\ CommitAllowed(row[Board], handled[Board], Identity, position[Board], ids)
           /\ row' = [row EXCEPT ![Board] = Committed(@, position[Board], ids)]
           /\ handled' = [handled EXCEPT ![Board] = @ \cup ids]
    /\ owed' = [owed EXCEPT ![Board] = @ \cup verdicts.reserve]
    /\ alerts' = [alerts EXCEPT ![Board] = 0]
    /\ torn' = [torn EXCEPT ![Board] = 0]
    /\ IF notice
       THEN pc' = "recovered" /\ UNCHANGED <<at, frame, verdicts, notice>>
       ELSE Advance
    /\ UNCHANGED <<log, reserved, socket, position, backoff, stop, faults, moved>>

-----------------------------------------------------------------------------
(* Self-health notices. *)

(* Mutant: every failure from the threshold on alerts. *)
AlertDueFromThreshold == row[Board].failures >= Threshold /\ ~stop

(* _maybe_alert up to the delivery. *)
AlertDue ==
    /\ ~row[Board].sent /\ ~row[Board].attempted
    /\ row[Board].failures >= Threshold
    /\ ~stop

SendAlert ==
    /\ pc = "alert" /\ AlertDue
    /\ pc' \in {"delivered", "undelivered"}
    /\ alerts' = [alerts EXCEPT ![Board] = @ + 1]
    /\ UNCHANGED <<log, durable, at, volatile, faults, owed, torn, moved>>

MarkAlert ==
    /\ pc \in {"delivered", "undelivered"}
    /\ row' = [row EXCEPT ![Board] = AlertMarked(@, pc = "delivered")]
    /\ Advance
    /\ UNCHANGED <<log, handled, reserved, socket, position, backoff, stop, faults, history>>

NoAlert ==
    /\ pc = "alert" /\ ~AlertDue
    /\ Advance
    /\ UNCHANGED <<log, durable, socket, position, backoff, stop, faults, history>>

(* _send_recovery: best effort, and silent after a stop. *)
SendRecovery ==
    /\ pc = "recovered"
    /\ Advance
    /\ UNCHANGED <<log, durable, socket, position, backoff, stop, faults, history>>

-----------------------------------------------------------------------------
(* The environment. *)

Emit(b) ==
    /\ log[b] < MaxEvents
    /\ log' = [log EXCEPT ![b] = @ + 1]
    /\ UNCHANGED <<durable, pc, at, volatile, faults, history>>

(* The board's history is cut back; the ids it lost are given out again.    *)
RollBack(b) ==
    /\ HistoryMayMove /\ log[b] > 0
    /\ Fault
    /\ \E last \in 0 .. log[b] - 1 : log' = [log EXCEPT ![b] = last]
    /\ moved' = moved \cup {b}
    /\ UNCHANGED <<durable, pc, at, volatile, owed, alerts, torn>>

BackoffExpires(b) ==
    /\ backoff[b]
    /\ backoff' = [backoff EXCEPT ![b] = FALSE]
    /\ UNCHANGED <<log, durable, pc, at, socket, position, frame, verdicts, notice, stop, faults,
                   history>>

-----------------------------------------------------------------------------
Poll ==
    \/ EndCycle
    \/ StopBetweenBoards \/ SkipBackedOff
    \/ Reconcile \/ Connect
    \/ RecvFrame \/ RecvIdle
    \/ ClassifyOne \/ AbandonFrame \/ FrameClassified
    \/ ReserveOne \/ CommitFrame
    \/ SendAlert \/ MarkAlert \/ NoAlert \/ SendRecovery

Failure ==
    \/ RequestStop \/ Crash \/ ReaderFails
    \/ \E counted \in BOOLEAN : ConnectFails(counted) \/ RecvFails(counted)

Environment == \E b \in Boards : Emit(b) \/ RollBack(b) \/ BackoffExpires(b)

Next == Start \/ Poll \/ Failure \/ Environment

Spec == Init /\ [][Next]_vars

(* The daemon loop runs until it is stopped and its supervisor starts it    *)
(* again; a backoff delay is bounded by max_delay.  The board owes no       *)
(* events, and failures end only because they are counted.                  *)
Fairness ==
    /\ WF_vars(Start)
    /\ WF_vars(Poll)
    /\ \A b \in Boards : WF_vars(BackoffExpires(b))

FairSpec == Spec /\ Fairness

-----------------------------------------------------------------------------
PcValues == {"down", "poll", "connect", "recv", "classify", "reserve", "recovered",
             "alert", "delivered", "undelivered", "rest"}

(* No event is ever passed over: every id up to the durable cursor was      *)
(* accepted, although the adapter's own cursor runs ahead when a frame is   *)
(* abandoned, the reader raises, or the process dies.                       *)
CursorCovered == \A b \in Boards : 1 .. row[b].cursor \subseteq handled[b]

(* The reservation is durable before the event that caused it is: no        *)
(* actionable event is accepted and its task forgotten.                     *)
ActionableReserved ==
    \A b \in Boards : \A i \in owed[b] : TaskOf[b][i] \in reserved[b]

(* All of a frame or nothing of it: reservations and accepted events come   *)
(* only from a frame classified to its end, starting at the durable cursor  *)
(* (poll's abandoned frame: "nothing is reserved and the cursor stays put").*)
FrameIsWhole ==
    [][reserved' # reserved \/ handled' # handled =>
        verdicts.reserve \cup verdicts.skip = row[Board].cursor + 1 .. position[Board]]_vars

(* One alert for an outage episode, and one more only for each time the     *)
(* process died between delivering an alert and recording it; once recorded *)
(* the episode is known to have been alerted until a frame ends it.         *)
AlertsAccounted ==
    \A b \in Boards :
        /\ alerts[b] <= 1 + torn[b]
        /\ row[b].attempted => alerts[b] > 0
        /\ row[b].sent => row[b].attempted
        /\ alerts[b] > torn[b] /\ ~(pc \in {"delivered", "undelivered"} /\ b = Board)
               => row[b].attempted

(* Every event of a board whose history never moved back is eventually      *)
(* accepted, in spite of stops, crashes, outages and reader failures, once  *)
(* those end: no board is lost behind another one's backoff, moved history  *)
(* or abandoned frame.  (After a move an event can get an id at or below    *)
(* the durable cursor: the daemon gives reconcile no maximum, so that event *)
(* is never seen.)                                                          *)
EveryEventHandled ==
    \A b \in Boards : \A i \in 1 .. MaxEvents :
        []<>(b \in moved \/ log[b] < i \/ i \in handled[b])
=============================================================================
