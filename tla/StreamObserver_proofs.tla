----------------------- MODULE StreamObserver_proofs -----------------------
(***************************************************************************)
(* Proofs about StreamObserver for every nonempty sequence of boards, every *)
(* assignment of tasks to events and every bound: what a cycle does to the  *)
(* durable rows of a board, and that these rows are those of StreamCursor.  *)
(***************************************************************************)
EXTENDS StreamObserver, TLAPS, WellFoundedInduction

(* Min is defined by CHOOSE; that it exists is the least-number principle.  *)
LEMMA MinIsElement ==
    ASSUME NEW S, S \subseteq Nat, S # {}
    PROVE  Min(S) \in S
<1>1. IsWellFoundedOn({x \in Nat \X Nat : x[1] < x[2]}, Nat)
  BY NatLessThanWellFounded DEF OpToRel
<1>2. PICK m \in S : \A n \in S : <<n, m>> \notin {x \in Nat \X Nat : x[1] < x[2]}
  BY <1>1, WFMin
<1>3. ASSUME NEW n \in S PROVE m <= n
  <2>1. ~(n < m)
    BY <1>2
  <2> QED BY <2>1
<1> QED BY <1>3 DEF Min

LEMMA SomeBoard == Len(BoardOrder) \in Nat \ {0} /\ 1 \in 1 .. Len(BoardOrder)
BY ObserverAssumption

LEMMA BoardsOfOrder == \A i \in 1 .. Len(BoardOrder) : BoardOrder[i] \in Boards
BY ObserverAssumption DEF Boards

-----------------------------------------------------------------------------
(* What the methods of the store make of a row.                             *)

RowFields == {"identity", "cursor", "reset", "resets", "failures", "sent", "attempted"}

Named(r) == r.identity = Identity
Fresh(r) == r.identity = ""

RowOK(r) ==
    /\ DOMAIN r = RowFields
    /\ r.cursor \in 0 .. MaxEvents
    /\ r.resets = 0 /\ r.failures \in Nat
    /\ r.sent \in BOOLEAN /\ r.attempted \in BOOLEAN
    /\ Named(r) \/ Fresh(r)

(* The rows differ in their alert marks, failures and identity only.        *)
SameCursor(r, q) == q.cursor = r.cursor
SameMarks(r, q) == q.sent = r.sent /\ q.attempted = r.attempted

(* A change of these four fields keeps the domains of a row.                *)
LEMMA RowBasics ==
    ASSUME NEW r, RowOK(r), NEW q, DOMAIN q = RowFields, q.cursor \in 0 .. MaxEvents,
           q.resets = r.resets, q.failures \in Nat, q.identity = r.identity,
           q.sent \in BOOLEAN, q.attempted \in BOOLEAN
    PROVE  RowOK(q)
<1>1. Named(q) \/ Fresh(q)
  BY Zenon DEF RowOK, Named, Fresh
<1> QED BY <1>1 DEF RowOK

LEMMA RowUninitialized ==
    /\ RowOK(Uninitialized) /\ Fresh(Uninitialized) /\ Uninitialized.cursor = 0
    /\ Uninitialized.failures = 0
    /\ Uninitialized.sent = FALSE /\ Uninitialized.attempted = FALSE
<1>1. PICK e : /\ Uninitialized = [identity |-> e, cursor |-> 0, reset |-> TRUE, resets |-> 0,
                                   failures |-> 0, sent |-> FALSE, attempted |-> FALSE]
               /\ \A r : Fresh(r) <=> r.identity = e
  BY Zenon DEF Uninitialized, Fresh
<1>2. Uninitialized.identity = e
  BY <1>1
<1>3. Fresh(Uninitialized)
  BY <1>1, <1>2
<1>4. MaxEvents \in Nat
  BY ObserverAssumption
<1> QED BY <1>1, <1>3, <1>4 DEF RowOK, RowFields

(* The identity never changes, so nothing is ever reset.                    *)
LEMMA RowReconciled ==
    ASSUME NEW r, RowOK(r), NEW q, q = Reconciled(r, Identity, {}, {})
    PROVE  /\ RowOK(q) /\ Named(q) /\ SameCursor(r, q) /\ SameMarks(r, q)
           /\ q.failures = r.failures
<1>1. ~MustResync(r, Identity, {}, {})
  <2>1. ~(r.identity # "" /\ r.identity # Identity)
    BY Zenon DEF RowOK, Named, Fresh
  <2> QED BY <2>1, Zenon DEF MustResync
<1>2. PICK flag : q = [r EXCEPT !.identity = Identity, !.cursor = r.cursor,
                                !.resets = r.resets, !.reset = flag]
  BY <1>1, Zenon DEF Reconciled
<1> QED BY <1>2 DEF RowOK, RowFields, Named, SameCursor, SameMarks, Identity

LEMMA RowFailed ==
    ASSUME NEW r, RowOK(r), NEW q, q = FailureRecorded(r)
    PROVE  /\ RowOK(q) /\ SameCursor(r, q) /\ SameMarks(r, q)
           /\ q.failures = r.failures + 1 /\ q.identity = r.identity
<1>1. /\ DOMAIN q = RowFields /\ q.failures = r.failures + 1 /\ q.identity = r.identity
      /\ q.cursor = r.cursor /\ q.resets = r.resets
      /\ q.sent = r.sent /\ q.attempted = r.attempted
  BY DEF FailureRecorded, RowOK, RowFields
<1>2. q.cursor \in 0 .. MaxEvents /\ q.failures \in Nat
      /\ q.sent \in BOOLEAN /\ q.attempted \in BOOLEAN
  BY <1>1 DEF RowOK
<1> QED BY <1>1, <1>2, RowBasics DEF SameCursor, SameMarks

LEMMA RowMarked ==
    ASSUME NEW r, RowOK(r), NEW delivered \in BOOLEAN, NEW q, q = AlertMarked(r, delivered)
    PROVE  /\ RowOK(q) /\ SameCursor(r, q) /\ q.attempted = TRUE
           /\ q.failures = r.failures /\ q.identity = r.identity
<1>1. q = [r EXCEPT !.sent = r.sent \/ delivered, !.attempted = TRUE]
  BY Zenon DEF AlertMarked
<1>2. (r.sent \/ delivered) \in BOOLEAN
  OBVIOUS
<1>3. /\ DOMAIN q = RowFields /\ q.failures = r.failures /\ q.identity = r.identity
      /\ q.cursor = r.cursor /\ q.resets = r.resets
      /\ q.sent \in BOOLEAN /\ q.attempted = TRUE
  BY <1>1, <1>2 DEF RowOK, RowFields
<1>4. q.cursor \in 0 .. MaxEvents /\ q.failures \in Nat
  BY <1>3 DEF RowOK
<1> QED BY <1>3, <1>4, RowBasics DEF SameCursor

(* What a commit leaves of row r. *)
EpisodeEnded(r, cursor, q) ==
    /\ RowOK(q) /\ q.cursor = cursor /\ q.identity = r.identity
    /\ q.failures = 0 /\ q.sent = FALSE /\ q.attempted = FALSE

LEMMA RowCommitted ==
    ASSUME NEW r, RowOK(r), NEW cursor \in 0 .. MaxEvents, r.cursor <= cursor, NEW ids,
           ids = {} => cursor = r.cursor
    PROVE  EpisodeEnded(r, cursor, Committed(r, cursor, ids))
<1> DEFINE over == EpisodeOver(r)
           q == Committed(r, cursor, ids)
<1>1. /\ DOMAIN over = RowFields /\ over.failures = 0 /\ over.identity = r.identity
      /\ over.cursor = r.cursor /\ over.resets = r.resets
      /\ over.sent = FALSE /\ over.attempted = FALSE
  BY DEF EpisodeOver, RowOK, RowFields
<1>2. ~(cursor < r.cursor) /\ r.cursor \in Nat /\ r.failures \in Nat
  BY ObserverAssumption DEF RowOK
<1>3. ASSUME ids = {}
      PROVE  /\ DOMAIN q = RowFields /\ q.failures = 0 /\ q.identity = r.identity
             /\ q.cursor = cursor /\ q.resets = r.resets
             /\ q.sent = FALSE /\ q.attempted = FALSE
  <2>1. q = over
    BY <1>3, Zenon DEF Committed
  <2>2. q.cursor = cursor
    BY <1>1, <1>3, <2>1
  <2> QED BY <1>1, <2>1, <2>2
<1>4. ASSUME ids # {}
      PROVE  /\ DOMAIN q = RowFields /\ q.failures = 0 /\ q.identity = r.identity
             /\ q.cursor = cursor /\ q.resets = r.resets
             /\ q.sent = FALSE /\ q.attempted = FALSE
  <2>1. q = [over EXCEPT !.cursor = IF cursor < r.cursor THEN r.cursor ELSE cursor,
                         !.reset = FALSE]
    BY <1>4, Zenon DEF Committed
  <2> HIDE DEF over
  <2>2. q = [over EXCEPT !.cursor = cursor, !.reset = FALSE]
    BY <1>2, <2>1
  <2> QED BY <1>1, <2>2 DEF RowFields
<1>5. /\ DOMAIN q = RowFields /\ q.failures = 0 /\ q.identity = r.identity
      /\ q.cursor = cursor /\ q.resets = r.resets
      /\ q.sent = FALSE /\ q.attempted = FALSE
  BY <1>3, <1>4
<1>6. q.failures \in Nat
  BY <1>5
<1>7. q.sent \in BOOLEAN /\ q.attempted \in BOOLEAN
  BY <1>5, Zenon
<1>8. RowOK(q)
  BY <1>5, <1>6, <1>7, RowBasics
<1> QED BY <1>5, <1>8, Zenon DEF EpisodeEnded
-----------------------------------------------------------------------------
(* The inductive invariant.  Between a receive and the commit, what is left *)
(* of the frame and what is classified already make up the ids from the     *)
(* durable cursor to the adapter's own one (InFrame); it is this that makes *)
(* a commit cover every id, and that an abandoned frame must throw away.    *)

Domains ==
    /\ DOMAIN row = Boards /\ DOMAIN handled = Boards
    /\ DOMAIN reserved = Boards /\ DOMAIN owed = Boards
    /\ \A b \in Boards : RowOK(row[b])
    /\ log \in [Boards -> 0 .. MaxEvents]
    /\ DOMAIN position = Boards /\ \A b \in Boards : position[b] \in 0 .. MaxEvents
    /\ alerts \in [Boards -> Nat] /\ torn \in [Boards -> Nat]
    /\ pc \in PcValues /\ at \in 1 .. Len(BoardOrder)

Ids == verdicts.reserve \cup verdicts.skip

Following(b) == row[b].cursor + 1 .. position[b]

InFrame ==
    /\ DOMAIN verdicts = {"reserve", "skip"}
    /\ pc \notin {"classify", "reserve", "recovered"} => verdicts = NoVerdicts
    /\ pc \notin {"down", "poll", "rest"} => Named(row[Board])
    /\ pc = "recv" => position[Board] = row[Board].cursor
    /\ pc \in {"classify", "reserve"} => row[Board].cursor <= position[Board]
    /\ pc = "classify" => frame \cup Ids = Following(Board)
    /\ pc = "reserve" =>
           /\ Ids = Following(Board)
           /\ \A i \in verdicts.reserve \ frame : TaskOf[Board][i] \in reserved[Board]

(* A delivered alert is counted before it is marked. *)
Sent == pc \in {"delivered", "undelivered"} => alerts[Board] > 0

IInv ==
    /\ Domains /\ InFrame /\ Sent
    /\ CursorCovered /\ ActionableReserved /\ AlertsAccounted

LEMMA BoardInBoards == Domains => Board \in Boards
BY BoardsOfOrder DEF Domains, Board

LEMMA InitIInv == Init => IInv
<1> SUFFICES ASSUME Init PROVE IInv
  OBVIOUS
<1>1. Domains
  BY RowUninitialized, SomeBoard, ObserverAssumption DEF Init, Domains, PcValues
<1>2. InFrame /\ Sent
  BY DEF Init, InFrame, Sent, NoVerdicts
<1>3. CursorCovered
  BY RowUninitialized DEF Init, CursorCovered
<1>4. ActionableReserved
  BY DEF Init, ActionableReserved
<1>5. AlertsAccounted
  BY RowUninitialized DEF Init, AlertsAccounted
<1> QED BY <1>1, <1>2, <1>3, <1>4, <1>5 DEF IInv

-----------------------------------------------------------------------------
(* Between the boards nothing is under way. *)

Outside ==
    /\ pc \in {"down", "poll", "rest"}
    /\ at \in 1 .. Len(BoardOrder)
    /\ verdicts = NoVerdicts

LEMMA OutsideIsQuiet == Outside => InFrame /\ Sent
BY DEF Outside, InFrame, Sent, NoVerdicts

LEMMA AdvanceLeaves ==
    ASSUME Domains, Advance
    PROVE  Outside'
<1>1. at \in 1 .. Len(BoardOrder) /\ Len(BoardOrder) \in Nat
  BY SomeBoard DEF Domains
<1>2. CASE at = Len(BoardOrder)
  BY <1>2, SomeBoard DEF Advance, Outside
<1>3. CASE at # Len(BoardOrder)
  <2>1. at + 1 \in 1 .. Len(BoardOrder)
    BY <1>1, <1>3
  <2> QED BY <1>3, <2>1 DEF Advance, Outside
<1> QED BY <1>2, <1>3

LEMMA LeaveLoopLeaves ==
    ASSUME NEW next \in {"down", "poll", "rest"}, LeaveLoop(next)
    PROVE  Outside'
BY SomeBoard DEF LeaveLoop, Outside

(* A step that writes no row, accepts nothing and sends no alert: what      *)
(* remains to be shown of it is where it leaves the frame.                  *)
LEMMA Frame ==
    ASSUME IInv, UNCHANGED <<durable, owed, alerts, torn>>, InFrame', Sent',
           log' \in [Boards -> 0 .. MaxEvents],
           DOMAIN position' = Boards, \A b \in Boards : position'[b] \in 0 .. MaxEvents,
           pc' \in PcValues, at' \in 1 .. Len(BoardOrder),
           pc \in {"delivered", "undelivered"} => pc' = pc /\ at' = at
    PROVE  IInv'
<1>1. Domains'
  BY DEF IInv, Domains, durable, history
<1>2. CursorCovered' /\ ActionableReserved'
  BY DEF IInv, CursorCovered, ActionableReserved, durable, history
<1>3. AlertsAccounted'
  BY DEF IInv, AlertsAccounted, durable, history, Board
<1> QED BY <1>1, <1>2, <1>3 DEF IInv

(* Steps that leave the boards, or move between them, and write nothing.    *)
LEMMA LeavingIInv ==
    ASSUME IInv, UNCHANGED <<log, durable, history>>, Outside',
           pc \notin {"delivered", "undelivered"},
           DOMAIN position' = Boards, \A b \in Boards : position'[b] \in 0 .. MaxEvents
    PROVE  IInv'
<1>1. InFrame' /\ Sent'
  BY OutsideIsQuiet, PTL
<1>2. pc' \in PcValues /\ at' \in 1 .. Len(BoardOrder)
  BY DEF Outside, PcValues
<1>3. log' \in [Boards -> 0 .. MaxEvents]
  BY DEF IInv, Domains
<1> QED BY <1>1, <1>2, <1>3, Frame DEF history

LEMMA CycleIInv ==
    ASSUME IInv,
           \/ Start \/ EndCycle \/ StopBetweenBoards \/ SkipBackedOff
           \/ AbandonFrame \/ ReaderFails \/ NoAlert \/ SendRecovery
    PROVE  IInv'
<1>1. UNCHANGED <<log, durable, history>> /\ pc \notin {"delivered", "undelivered"}
  BY DEF Start, EndCycle, StopBetweenBoards, SkipBackedOff, AbandonFrame, ReaderFails, NoAlert,
         SendRecovery, history
<1>2. Outside'
  <2>1. CASE Start \/ (EndCycle /\ ~stop)
    BY <2>1, SomeBoard DEF Start, EndCycle, Outside, volatile, IInv, InFrame
  <2>2. CASE EndCycle /\ stop
    BY <2>2, LeaveLoopLeaves DEF EndCycle, Gone
  <2>3. CASE StopBetweenBoards \/ AbandonFrame \/ ReaderFails
    BY <2>3, LeaveLoopLeaves DEF StopBetweenBoards, AbandonFrame, ReaderFails
  <2>4. CASE SkipBackedOff \/ NoAlert \/ SendRecovery
    BY <2>4, AdvanceLeaves DEF SkipBackedOff, NoAlert, SendRecovery, IInv
  <2> QED BY <2>1, <2>2, <2>3, <2>4
<1>3. DOMAIN position' = Boards /\ \A b \in Boards : position'[b] \in 0 .. MaxEvents
  <2>1. CASE EndCycle /\ stop
    BY <2>1, ObserverAssumption DEF EndCycle, Gone
  <2>2. CASE ~(EndCycle /\ stop)
    <3>1. position' = position
      BY <2>2 DEF Start, EndCycle, StopBetweenBoards, SkipBackedOff, AbandonFrame, ReaderFails,
                  NoAlert, SendRecovery, volatile
    <3> QED BY <3>1 DEF IInv, Domains
  <2> QED BY <2>1, <2>2
<1> QED BY <1>1, <1>2, <1>3, LeavingIInv

(* A step of the environment, and a stop request, change nothing the        *)
(* invariant speaks of but the log.                                         *)
LEMMA EnvironmentIInv ==
    ASSUME IInv, Environment \/ RequestStop \/ UNCHANGED vars
    PROVE  IInv'
<1>1. UNCHANGED <<durable, owed, alerts, torn, pc, at, position, frame, verdicts>>
  BY DEF Environment, Emit, RollBack, BackoffExpires, RequestStop, vars, volatile, history
<1>2. log' \in [Boards -> 0 .. MaxEvents]
  <2>1. ASSUME NEW b \in Boards, Emit(b) PROVE log' \in [Boards -> 0 .. MaxEvents]
    <3>1. log[b] \in 0 .. MaxEvents /\ log \in [Boards -> 0 .. MaxEvents]
      BY DEF IInv, Domains
    <3>2. log[b] + 1 \in 0 .. MaxEvents /\ log' = [log EXCEPT ![b] = log[b] + 1]
      BY <2>1, <3>1, ObserverAssumption DEF Emit
    <3> QED BY <3>1, <3>2
  <2>2. ASSUME NEW b \in Boards, RollBack(b) PROVE log' \in [Boards -> 0 .. MaxEvents]
    <3>1. log[b] \in 0 .. MaxEvents /\ log \in [Boards -> 0 .. MaxEvents]
      BY DEF IInv, Domains
    <3>2. \E last \in 0 .. log[b] - 1 : log' = [log EXCEPT ![b] = last]
      BY <2>2, Zenon DEF RollBack
    <3>3. PICK last \in 0 .. log[b] - 1 : log' = [log EXCEPT ![b] = last]
      BY <3>2
    <3>4. last \in 0 .. MaxEvents
      BY <3>1, <3>3, ObserverAssumption
    <3> QED BY <3>1, <3>3, <3>4
  <2>3. CASE \A b \in Boards : ~Emit(b) /\ ~RollBack(b)
    BY <2>3 DEF Environment, BackoffExpires, RequestStop, vars, IInv, Domains
  <2> QED BY <2>1, <2>2, <2>3
<1>3. InFrame' /\ Sent'
  BY <1>1 DEF IInv, InFrame, Sent, Ids, Following, Board, durable, history
<1> QED BY <1>1, <1>2, <1>3, Frame DEF IInv, Domains

LEMMA ConnectIInv ==
    ASSUME IInv, Connect
    PROVE  IInv'
<1>1. /\ pc = "connect" /\ pc' = "recv"
      /\ UNCHANGED <<log, durable, at, frame, verdicts, history>>
      /\ position' = position \/ position' = [position EXCEPT ![Board] = row[Board].cursor]
  BY DEF Connect
<1>2. Board \in Boards /\ Domains /\ Board' = Board
  BY <1>1, BoardInBoards DEF IInv, Board
<1>3. row[Board].cursor \in 0 .. MaxEvents
  BY <1>2 DEF Domains, RowOK
<1>4. position'[Board] = row[Board].cursor
  BY <1>1, <1>2 DEF Connect, Aligned, Domains
<1>5. DOMAIN position' = Boards /\ \A b \in Boards : position'[b] \in 0 .. MaxEvents
  BY <1>1, <1>2, <1>3 DEF Domains
<1>6. InFrame' /\ Sent'
  BY <1>1, <1>2, <1>4 DEF IInv, InFrame, Sent, durable, history
<1> QED BY <1>1, <1>2, <1>5, <1>6, Frame DEF history, Domains, PcValues

(* A frame begins at the durable cursor, whatever the log does meanwhile.   *)
LEMMA RecvIInv ==
    ASSUME IInv, RecvFrame \/ RecvIdle
    PROVE  IInv'
<1>1. /\ pc = "recv" /\ pc' = "classify" /\ verdicts' = verdicts /\ verdicts = NoVerdicts
      /\ UNCHANGED <<log, durable, at, history>>
  BY DEF RecvFrame, RecvIdle, FrameReceived, IInv, InFrame
<1>2. Board \in Boards /\ Domains /\ Board' = Board
  BY <1>1, BoardInBoards DEF IInv, Board
<1>3. position[Board] = row[Board].cursor /\ Named(row[Board])
  BY <1>1 DEF IInv, InFrame
<1>4. /\ position[Board] \in 0 .. MaxEvents /\ log[Board] \in 0 .. MaxEvents
      /\ position[Board] \in Nat
  BY <1>2, ObserverAssumption DEF Domains
<1>5. PICK last \in position[Board] .. MaxEvents :
          /\ frame' = position[Board] + 1 .. last
          /\ DOMAIN position' = Boards /\ position'[Board] = last
          /\ \A b \in Boards : b # Board => position'[b] = position[b]
  <2>1. CASE RecvIdle
    <3>1. frame' = position[Board] + 1 .. position[Board]
      BY <1>4, <2>1 DEF RecvIdle, FrameReceived
    <3> QED BY <1>2, <1>4, <2>1, <3>1, ObserverAssumption DEF RecvIdle, Domains
  <2>2. CASE RecvFrame
    <3>1. PICK last \in position[Board] + 1 .. log[Board] :
              /\ position' = [position EXCEPT ![Board] = last]
              /\ frame' = position[Board] + 1 .. last
      BY <2>2 DEF RecvFrame, FrameReceived
    <3>2. last \in position[Board] .. MaxEvents
      BY <1>4, <3>1, ObserverAssumption
    <3> QED BY <1>2, <3>1, <3>2 DEF Domains
  <2> QED BY <2>1, <2>2
<1>6. \A b \in Boards : position'[b] \in 0 .. MaxEvents
  <2>1. last \in 0 .. MaxEvents
    BY <1>4, <1>5, ObserverAssumption
  <2> QED BY <1>2, <1>5, <2>1 DEF Domains
<1>7. Ids' = {}
  BY <1>1 DEF Ids, NoVerdicts
<1>8. InFrame'
  <2>1. (frame \cup Ids = Following(Board))'
    BY <1>1, <1>2, <1>3, <1>5, <1>7 DEF Following, durable
  <2>2. (row[Board].cursor <= position[Board])'
    BY <1>1, <1>2, <1>3, <1>4, <1>5 DEF durable
  <2> QED BY <1>1, <1>2, <1>3, <2>1, <2>2 DEF InFrame, durable, NoVerdicts
<1> QED BY <1>1, <1>2, <1>5, <1>6, <1>8, Frame DEF history, Domains, PcValues, Sent

LEMMA ClassifyIInv ==
    ASSUME IInv, ClassifyOne
    PROVE  IInv'
<1> DEFINE event == Min(frame)
<1>1. /\ pc = "classify" /\ frame # {} /\ frame' = frame \ {event}
      /\ \/ verdicts' = [verdicts EXCEPT !.reserve = @ \cup {event}]
         \/ verdicts' = [verdicts EXCEPT !.skip = @ \cup {event}]
      /\ UNCHANGED <<log, durable, pc, at, position, history>>
  BY DEF ClassifyOne
<1>2. Board \in Boards /\ Domains /\ Board' = Board /\ InFrame
  BY <1>1, BoardInBoards DEF IInv, Board
<1>3. frame \cup Ids = Following(Board) /\ DOMAIN verdicts = {"reserve", "skip"}
  BY <1>1, <1>2 DEF InFrame
<1>4. Following(Board) \subseteq Nat
  <2>1. row[Board].cursor \in 0 .. MaxEvents /\ position[Board] \in 0 .. MaxEvents
    BY <1>2 DEF Domains, RowOK
  <2> QED BY <2>1, ObserverAssumption DEF Following
<1>5. event \in frame
  <2>1. frame \subseteq Nat
    BY <1>3, <1>4
  <2> QED BY <1>1, <2>1, MinIsElement
<1> HIDE DEF event
<1>6. Ids' = Ids \cup {event} /\ DOMAIN verdicts' = {"reserve", "skip"}
  BY <1>1, <1>3 DEF Ids
<1>7. frame' \cup Ids' = frame \cup Ids
  BY <1>1, <1>5, <1>6
<1>8. InFrame'
  BY <1>1, <1>2, <1>3, <1>6, <1>7 DEF InFrame, Following, durable
<1> QED BY <1>1, <1>2, <1>8, Frame DEF history, Domains, Sent

LEMMA ClassifiedIInv ==
    ASSUME IInv, FrameClassified
    PROVE  IInv'
<1>1. /\ pc = "classify" /\ frame = {} /\ pc' = "reserve" /\ frame' = verdicts.reserve
      /\ UNCHANGED <<log, durable, at, position, verdicts, history>>
  BY DEF FrameClassified
<1>2. Board \in Boards /\ Domains /\ Board' = Board /\ InFrame
  BY <1>1, BoardInBoards DEF IInv, Board
<1>3. InFrame'
  BY <1>1, <1>2 DEF InFrame, Ids, Following, durable
<1> QED BY <1>1, <1>2, <1>3, Frame DEF history, Domains, PcValues, Sent

(* The process dies: what it knew of frames is lost with it.  The death is  *)
(* counted when it falls between an alert and its mark.                     *)
LEMMA CrashIInv ==
    ASSUME IInv, Crash
    PROVE  IInv'
<1> DEFINE unmarked == pc \in {"delivered", "undelivered"}
<1>1. /\ Outside'
      /\ UNCHANGED <<log, durable, owed, alerts>>
      /\ torn' = [torn EXCEPT ![Board] = IF unmarked THEN @ + 1 ELSE @]
      /\ position' = [b \in Boards |-> 0]
  BY LeaveLoopLeaves DEF Crash, Gone
<1>2. Board \in Boards /\ Domains
  BY BoardInBoards DEF IInv
<1>3. InFrame' /\ Sent'
  BY <1>1, OutsideIsQuiet, PTL
<1>4. \A b \in Boards : alerts[b] \in Nat /\ torn[b] \in Nat
  BY <1>2 DEF Domains
<1>5. torn' \in [Boards -> Nat] /\ \A b \in Boards : b # Board => torn'[b] = torn[b]
  BY <1>1, <1>2 DEF Domains
<1>6. torn'[Board] = IF unmarked THEN torn[Board] + 1 ELSE torn[Board]
  BY <1>1, <1>2 DEF Domains
<1>7. Domains'
  <2>1. DOMAIN position' = Boards /\ \A b \in Boards : position'[b] \in 0 .. MaxEvents
    BY <1>1, ObserverAssumption
  <2> QED BY <1>1, <1>2, <1>5, <2>1 DEF Domains, durable, Outside, PcValues
<1>8. AlertsAccounted'
  <2> SUFFICES ASSUME NEW b \in Boards
               PROVE  /\ alerts'[b] <= 1 + torn'[b]
                      /\ row'[b].attempted => alerts'[b] > 0
                      /\ row'[b].sent => row'[b].attempted
                      /\ alerts'[b] > torn'[b] => row'[b].attempted
    BY DEF AlertsAccounted
  <2>1. row'[b] = row[b] /\ alerts'[b] = alerts[b]
    BY <1>1 DEF durable
  <2>2. alerts[b] <= 1 + torn[b]
    BY DEF IInv, AlertsAccounted
  <2>3. alerts'[b] <= 1 + torn'[b]
    BY <1>4, <1>5, <1>6, <2>1, <2>2
  <2>4. (alerts'[b] > torn'[b]) => alerts[b] > torn[b] /\ ~(unmarked /\ b = Board)
    BY <1>4, <1>5, <1>6, <2>1, <2>2
  <2> QED BY <2>1, <2>3, <2>4 DEF IInv, AlertsAccounted
<1>9. CursorCovered' /\ ActionableReserved'
  BY <1>1 DEF IInv, CursorCovered, ActionableReserved, durable
<1> QED BY <1>3, <1>7, <1>8, <1>9 DEF IInv

(* Steps that write the row of the current board and no event: the cursor   *)
(* stays, and the alert marks stay or are set after an alert.               *)
LEMMA RowWritten ==
    ASSUME IInv, UNCHANGED <<log, handled, reserved, position, history>>,
           NEW q, row' = [row EXCEPT ![Board] = q], RowOK(q), SameCursor(row[Board], q),
           \/ /\ SameMarks(row[Board], q)
              /\ pc \notin {"delivered", "undelivered"}
              /\ pc' \notin {"delivered", "undelivered"}
           \/ q.attempted = TRUE /\ alerts[Board] > 0,
           pc' \in PcValues, at' \in 1 .. Len(BoardOrder), InFrame', Sent'
    PROVE  IInv'
<1>1. Board \in Boards /\ Domains
  BY BoardInBoards DEF IInv
<1>2. row'[Board] = q /\ \A b \in Boards : b # Board => row'[b] = row[b]
  BY <1>1 DEF Domains
<1>3. Domains'
  BY <1>1, <1>2 DEF Domains, history
<1>4. \A b \in Boards : row'[b].cursor = row[b].cursor
  BY <1>2 DEF SameCursor
<1>5. CursorCovered' /\ ActionableReserved'
  BY <1>4 DEF IInv, CursorCovered, ActionableReserved, history
<1>6. AlertsAccounted'
  <2> SUFFICES ASSUME NEW b \in Boards
               PROVE  /\ alerts[b] <= 1 + torn[b]
                      /\ row'[b].attempted => alerts[b] > 0
                      /\ row'[b].sent => row'[b].attempted
                      /\ alerts[b] > torn[b]
                            /\ ~(pc' \in {"delivered", "undelivered"} /\ b = Board')
                             => row'[b].attempted
    BY DEF AlertsAccounted, history
  <2>1. CASE b # Board
    BY <1>2, <2>1 DEF IInv, AlertsAccounted
  <2>2. CASE b = Board /\ q.attempted = TRUE /\ alerts[Board] > 0
    BY <1>2, <2>2 DEF IInv, AlertsAccounted
  <2>3. CASE b = Board /\ SameMarks(row[Board], q) /\ pc \notin {"delivered", "undelivered"}
    BY <1>2, <2>3 DEF IInv, AlertsAccounted, SameMarks
  <2> QED BY <2>1, <2>2, <2>3
<1> QED BY <1>3, <1>5, <1>6 DEF IInv

LEMMA ReconcileIInv ==
    ASSUME IInv, Reconcile
    PROVE  IInv'
<1> DEFINE q == Reconciled(row[Board], Identity, {}, {})
<1>1. /\ pc = "poll" /\ pc' = "connect" /\ row' = [row EXCEPT ![Board] = q]
      /\ UNCHANGED <<log, handled, reserved, at, volatile, history>>
  BY DEF Reconcile
<1>2. Board \in Boards /\ Domains /\ Board' = Board /\ InFrame
  BY <1>1, BoardInBoards DEF IInv, Board
<1>3. RowOK(row[Board])
  BY <1>2 DEF Domains
<1>4. RowOK(q) /\ Named(q) /\ SameCursor(row[Board], q) /\ SameMarks(row[Board], q)
  BY <1>3, RowReconciled
<1> HIDE DEF q
<1>5. row'[Board] = q
  BY <1>1, <1>2 DEF Domains
<1>6. InFrame' /\ Sent'
  BY <1>1, <1>2, <1>4, <1>5 DEF InFrame, Sent, Named, volatile
<1> QED BY <1>1, <1>2, <1>4, <1>6, RowWritten DEF Domains, PcValues, volatile

LEMMA StreamFailsIInv ==
    ASSUME IInv, NEW counted \in BOOLEAN, ConnectFails(counted) \/ RecvFails(counted)
    PROVE  IInv'
<1>1. /\ pc \in {"connect", "recv"} /\ StreamFails(counted)
      /\ UNCHANGED <<log, handled, reserved, position, history>>
  BY DEF ConnectFails, RecvFails, StreamFails
<1>2. Board \in Boards /\ Domains /\ InFrame
  BY BoardInBoards DEF IInv
<1>3. CASE ~counted
  <2>1. Advance /\ UNCHANGED row
    BY <1>1, <1>3 DEF StreamFails
  <2> QED BY <1>1, <1>2, <2>1, AdvanceLeaves, LeavingIInv DEF Domains, durable
<1>4. CASE counted
  <2> DEFINE q == FailureRecorded(row[Board])
  <2>1. /\ row' = [row EXCEPT ![Board] = q] /\ pc' = "alert"
        /\ UNCHANGED <<at, frame, verdicts>>
    BY <1>1, <1>4 DEF StreamFails
  <2>2. RowOK(row[Board]) /\ Board' = Board
    BY <1>2, <2>1 DEF Domains, Board
  <2>3. /\ RowOK(q) /\ SameCursor(row[Board], q) /\ SameMarks(row[Board], q)
        /\ q.identity = row[Board].identity
    BY <2>2, RowFailed
  <2> HIDE DEF q
  <2>4. row'[Board] = q
    BY <1>2, <2>1 DEF Domains
  <2>5. InFrame' /\ Sent'
    BY <1>1, <1>2, <2>1, <2>2, <2>3, <2>4 DEF InFrame, Sent, Named
  <2> QED BY <1>1, <1>2, <2>1, <2>3, <2>5, RowWritten DEF Domains, PcValues
<1> QED BY <1>3, <1>4

(* An alert goes out only in an episode that has not been marked.           *)
LEMMA SendAlertIInv ==
    ASSUME IInv, SendAlert
    PROVE  IInv'
<1>1. /\ pc = "alert" /\ pc' \in {"delivered", "undelivered"}
      /\ alerts' = [alerts EXCEPT ![Board] = @ + 1]
      /\ UNCHANGED <<log, durable, at, volatile, owed, torn>>
      /\ ~row[Board].attempted
  BY DEF SendAlert, AlertDue
<1>2. Board \in Boards /\ Domains /\ InFrame /\ Board' = Board
  BY <1>1, BoardInBoards DEF IInv, Board
<1>3. \A b \in Boards : alerts[b] \in Nat /\ torn[b] \in Nat
  BY <1>2 DEF Domains
<1>4. /\ alerts'[Board] = alerts[Board] + 1
      /\ \A b \in Boards : b # Board => alerts'[b] = alerts[b]
  BY <1>1, <1>2 DEF Domains
<1>5. alerts' \in [Boards -> Nat]
  BY <1>1, <1>2 DEF Domains
<1>6. ~(alerts[Board] > torn[Board])
  BY <1>1, <1>2 DEF IInv, AlertsAccounted
<1>7. Domains'
  BY <1>1, <1>2, <1>5 DEF Domains, durable, volatile, PcValues
<1>8. InFrame' /\ Sent'
  <2>1. alerts'[Board] > 0
    BY <1>2, <1>3, <1>4
  <2> QED BY <1>1, <1>2, <2>1 DEF InFrame, Sent, durable, volatile
<1>9. AlertsAccounted'
  <2> SUFFICES ASSUME NEW b \in Boards
               PROVE  /\ alerts'[b] <= 1 + torn[b]
                      /\ row[b].attempted => alerts'[b] > 0
                      /\ row[b].sent => row[b].attempted
                      /\ alerts'[b] > torn[b] /\ b # Board => row[b].attempted
    BY <1>1, <1>2 DEF AlertsAccounted, durable
  <2>1. CASE b # Board
    BY <1>1, <1>4, <2>1 DEF IInv, AlertsAccounted
  <2>2. CASE b = Board
    <3>1. alerts'[b] <= 1 + torn[b] /\ alerts'[b] > 0
      BY <1>2, <1>3, <1>4, <1>6, <2>2
    <3> QED BY <2>2, <3>1 DEF IInv, AlertsAccounted
  <2> QED BY <2>1, <2>2
<1>10. CursorCovered' /\ ActionableReserved'
  BY <1>1 DEF IInv, CursorCovered, ActionableReserved, durable
<1> QED BY <1>7, <1>8, <1>9, <1>10 DEF IInv

LEMMA MarkAlertIInv ==
    ASSUME IInv, MarkAlert
    PROVE  IInv'
<1> DEFINE q == AlertMarked(row[Board], pc = "delivered")
<1>1. /\ pc \in {"delivered", "undelivered"} /\ row' = [row EXCEPT ![Board] = q] /\ Advance
      /\ UNCHANGED <<log, handled, reserved, position, history>>
  BY DEF MarkAlert
<1>2. Board \in Boards /\ Domains /\ alerts[Board] > 0
  BY <1>1, BoardInBoards DEF IInv, Sent
<1>3. RowOK(q) /\ SameCursor(row[Board], q) /\ q.attempted = TRUE
  <2>1. RowOK(row[Board]) /\ (pc = "delivered") \in BOOLEAN
    BY <1>2 DEF Domains
  <2> QED BY <2>1, RowMarked
<1> HIDE DEF q
<1>4. Outside'
  BY <1>1, <1>2, AdvanceLeaves
<1>5. InFrame' /\ Sent'
  BY <1>4, OutsideIsQuiet, PTL
<1> QED BY <1>1, <1>2, <1>3, <1>4, <1>5, RowWritten DEF Outside, PcValues

-----------------------------------------------------------------------------
(* Reserving and committing: the two steps that make a frame durable. *)

LEMMA ReserveIInv ==
    ASSUME IInv, ReserveOne
    PROVE  IInv'
<1> DEFINE event == Min(frame)
<1>1. /\ pc = "reserve" /\ frame' = frame \ {event}
      /\ reserved' = [reserved EXCEPT ![Board] = @ \cup {TaskOf[Board][event]}]
      /\ UNCHANGED <<log, row, handled, pc, at, position, verdicts, history>>
  BY DEF ReserveOne
<1> HIDE DEF event
<1>2. Board \in Boards /\ Domains /\ InFrame /\ Board' = Board
  BY <1>1, BoardInBoards DEF IInv, Board
<1>3. /\ reserved'[Board] = reserved[Board] \cup {TaskOf[Board][event]}
      /\ \A b \in Boards : b # Board => reserved'[b] = reserved[b]
      /\ DOMAIN reserved' = Boards
  BY <1>1, <1>2 DEF Domains
<1>4. Domains'
  BY <1>1, <1>2, <1>3 DEF Domains, history
<1>5. \A i \in verdicts.reserve \ frame' : TaskOf[Board][i] \in reserved'[Board]
  BY <1>1, <1>2, <1>3 DEF InFrame
<1>6. InFrame' /\ Sent'
  BY <1>1, <1>2, <1>5 DEF InFrame, Ids, Following, Sent
<1>7. ActionableReserved'
  BY <1>1, <1>3 DEF IInv, ActionableReserved, history
<1>8. CursorCovered' /\ AlertsAccounted'
  BY <1>1, <1>2 DEF IInv, CursorCovered, AlertsAccounted, history
<1> QED BY <1>4, <1>6, <1>7, <1>8 DEF IInv

LEMMA CommitIInv ==
    ASSUME IInv, CommitFrame
    PROVE  IInv'
<1> DEFINE q == Committed(row[Board], position[Board], Ids)
<1>1. /\ pc = "reserve" /\ frame = {}
      /\ row' = [row EXCEPT ![Board] = q]
      /\ handled' = [handled EXCEPT ![Board] = @ \cup Ids]
      /\ owed' = [owed EXCEPT ![Board] = @ \cup verdicts.reserve]
      /\ alerts' = [alerts EXCEPT ![Board] = 0]
      /\ torn' = [torn EXCEPT ![Board] = 0]
      /\ UNCHANGED <<log, reserved, position>>
  BY DEF CommitFrame, Ids
<1>2. Board \in Boards /\ Domains /\ InFrame
  BY BoardInBoards DEF IInv
<1>3. /\ Ids = Following(Board) /\ row[Board].cursor <= position[Board]
      /\ \A i \in verdicts.reserve : TaskOf[Board][i] \in reserved[Board]
  BY <1>1, <1>2 DEF InFrame
<1>4. /\ RowOK(row[Board]) /\ position[Board] \in 0 .. MaxEvents
      /\ row[Board].cursor \in Nat /\ position[Board] \in Nat
  <2>1. RowOK(row[Board]) /\ position[Board] \in 0 .. MaxEvents
    BY <1>2 DEF Domains
  <2>2. row[Board].cursor \in 0 .. MaxEvents /\ MaxEvents \in Nat
    BY <2>1, ObserverAssumption DEF RowOK
  <2> QED BY <2>1, <2>2
<1>5. Ids = {} => position[Board] = row[Board].cursor
  <2>1. row[Board].cursor < position[Board] => position[Board] \in Ids
    BY <1>3, <1>4 DEF Following
  <2> QED BY <1>3, <1>4, <2>1
<1>0. q = Committed(row[Board], position[Board], Ids)
  OBVIOUS
<1> HIDE DEF q
<1>6. /\ RowOK(q) /\ q.cursor = position[Board] /\ q.identity = row[Board].identity
      /\ q.sent = FALSE /\ q.attempted = FALSE
  <2>1. EpisodeEnded(row[Board], position[Board], q)
    BY <1>0, <1>3, <1>4, <1>5, RowCommitted
  <2> QED BY <2>1 DEF EpisodeEnded
<1>7. /\ row'[Board] = q /\ handled'[Board] = handled[Board] \cup Ids
      /\ owed'[Board] = owed[Board] \cup verdicts.reserve
      /\ alerts'[Board] = 0 /\ torn'[Board] = 0
  BY <1>1, <1>2 DEF Domains
<1>8. \A b \in Boards : b # Board =>
          /\ row'[b] = row[b] /\ handled'[b] = handled[b] /\ owed'[b] = owed[b]
          /\ alerts'[b] = alerts[b] /\ torn'[b] = torn[b]
  BY <1>1, <1>2 DEF Domains
<1>9. InFrame' /\ Sent' /\ pc' \in PcValues /\ at' \in 1 .. Len(BoardOrder)
      /\ pc' \notin {"delivered", "undelivered"}
  <2>1. CASE notice
    <3>1. pc' = "recovered" /\ UNCHANGED <<at, frame, verdicts, notice>>
      BY <2>1 DEF CommitFrame
    <3>2. Named(row[Board]) /\ Board' = Board
      BY <1>1, <1>2, <3>1 DEF InFrame, Board
    <3>3. Named(row'[Board])
      BY <1>6, <1>7, <3>2 DEF Named
    <3> QED BY <1>2, <3>1, <3>2, <3>3 DEF InFrame, Sent, Domains, PcValues
  <2>2. CASE ~notice
    <3>1. Outside'
      BY <1>2, <2>2, AdvanceLeaves DEF CommitFrame
    <3>2. InFrame' /\ Sent'
      BY <3>1, OutsideIsQuiet, PTL
    <3> QED BY <3>1, <3>2 DEF Outside, PcValues
  <2> QED BY <2>1, <2>2
<1>10. Domains'
  <2>1. alerts' \in [Boards -> Nat] /\ torn' \in [Boards -> Nat]
    BY <1>1, <1>2 DEF Domains
  <2>2. \A b \in Boards : RowOK(row'[b])
    BY <1>2, <1>6, <1>7, <1>8 DEF Domains
  <2>3. /\ DOMAIN row' = Boards /\ DOMAIN handled' = Boards
        /\ DOMAIN reserved' = Boards /\ DOMAIN owed' = Boards
    BY <1>1, <1>2 DEF Domains
  <2> QED BY <1>1, <1>2, <1>9, <2>1, <2>2, <2>3 DEF Domains
<1>11. CursorCovered'
  <2>1. 1 .. position[Board] \subseteq 1 .. row[Board].cursor \cup Following(Board)
    BY <1>4 DEF Following
  <2>2. 1 .. row'[Board].cursor \subseteq handled'[Board]
    BY <1>2, <1>3, <1>6, <1>7, <2>1 DEF IInv, CursorCovered
  <2> QED BY <1>8, <2>2 DEF IInv, CursorCovered
<1>12. ActionableReserved'
  <2>1. ASSUME NEW b \in Boards, NEW i \in owed'[b] PROVE TaskOf[b][i] \in reserved[b]
    <3>1. CASE b # Board
      BY <1>8, <2>1, <3>1 DEF IInv, ActionableReserved
    <3>2. CASE b = Board
      BY <1>3, <1>7, <2>1, <3>2 DEF IInv, ActionableReserved
    <3> QED BY <3>1, <3>2
  <2> QED BY <1>1, <2>1 DEF ActionableReserved
<1>13. AlertsAccounted'
  <2> SUFFICES ASSUME NEW b \in Boards
               PROVE  /\ alerts'[b] <= 1 + torn'[b]
                      /\ row'[b].attempted => alerts'[b] > 0
                      /\ row'[b].sent => row'[b].attempted
                      /\ alerts'[b] > torn'[b] => row'[b].attempted
    BY DEF AlertsAccounted
  <2>1. CASE b # Board
    BY <1>1, <1>8, <2>1 DEF IInv, AlertsAccounted
  <2>2. CASE b = Board
    <3>1. ~row'[b].attempted /\ ~row'[b].sent /\ alerts'[b] = 0 /\ torn'[b] = 0
      BY <1>6, <1>7, <2>2
    <3>2. alerts'[b] <= 1 + torn'[b] /\ ~(alerts'[b] > torn'[b])
      BY <3>1
    <3> QED BY <3>1, <3>2
  <2> QED BY <2>1, <2>2
<1> QED BY <1>9, <1>10, <1>11, <1>12, <1>13 DEF IInv

-----------------------------------------------------------------------------
LEMMA NextIInv == IInv /\ [Next]_vars => IInv'
<1> SUFFICES ASSUME IInv, [Next]_vars PROVE IInv'
  OBVIOUS
<1>1. CASE Start
  BY <1>1, CycleIInv
<1>2. CASE Poll
  BY <1>2, CycleIInv, ReconcileIInv, ConnectIInv, RecvIInv, ClassifyIInv, ClassifiedIInv,
     ReserveIInv, CommitIInv, SendAlertIInv, MarkAlertIInv DEF Poll
<1>3. CASE Failure
  BY <1>3, EnvironmentIInv, CrashIInv, CycleIInv, StreamFailsIInv DEF Failure
<1>4. CASE Environment \/ UNCHANGED vars
  BY <1>4, EnvironmentIInv
<1> QED BY <1>1, <1>2, <1>3, <1>4 DEF Next

LEMMA Invariance == Spec => []IInv
BY InitIInv, NextIInv, PTL DEF Spec

(* No event is passed over: every id up to the durable cursor of a board    *)
(* was accepted, whatever was abandoned, failed or died on the way.         *)
THEOREM NoEventPassedOver == Spec => []CursorCovered
<1>1. IInv => CursorCovered
  BY DEF IInv
<1> QED BY Invariance, <1>1, PTL

(* No actionable event is accepted whose task is not reserved.              *)
THEOREM ReservedBeforeAccepted == Spec => []ActionableReserved
<1>1. IInv => ActionableReserved
  BY DEF IInv
<1> QED BY Invariance, <1>1, PTL

(* One alert for an outage episode, and one more for each death between an  *)
(* alert and its mark.                                                      *)
THEOREM AlertsAreAccounted == Spec => []AlertsAccounted
<1>1. IInv => AlertsAccounted
  BY DEF IInv
<1> QED BY Invariance, <1>1, PTL

-----------------------------------------------------------------------------
(* Only the two last steps of a frame reserve or accept. *)
LEMMA OnlyFramesWrite ==
    ASSUME [Next]_vars, reserved' # reserved \/ handled' # handled
    PROVE  ReserveOne \/ CommitFrame
<1>1. ~Start
  BY DEF Start, durable
<1>2. ~Failure
  BY DEF Failure, RequestStop, Crash, ReaderFails, ConnectFails, RecvFails, StreamFails, durable
<1>3. ~Environment
  BY DEF Environment, Emit, RollBack, BackoffExpires, durable
<1>4. ~UNCHANGED vars
  BY DEF vars, durable
<1>5. Poll => ReserveOne \/ CommitFrame
  BY DEF Poll, EndCycle, StopBetweenBoards, SkipBackedOff, Reconcile, Connect, RecvFrame, RecvIdle,
         FrameReceived, ClassifyOne, AbandonFrame, FrameClassified, SendAlert, MarkAlert, NoAlert,
         SendRecovery, durable
<1> QED BY <1>1, <1>2, <1>3, <1>4, <1>5 DEF Next

(* Nothing of a frame becomes durable unless all of it was classified,      *)
(* starting at the durable cursor.                                          *)
THEOREM WholeFrames == Spec => FrameIsWhole
<1>1. IInv /\ [Next]_vars =>
        [reserved' # reserved \/ handled' # handled =>
            verdicts.reserve \cup verdicts.skip
                = row[Board].cursor + 1 .. position[Board]]_vars
  <2> SUFFICES ASSUME IInv, [Next]_vars, reserved' # reserved \/ handled' # handled
               PROVE  verdicts.reserve \cup verdicts.skip
                          = row[Board].cursor + 1 .. position[Board]
    OBVIOUS
  <2>1. pc = "reserve"
    BY OnlyFramesWrite DEF ReserveOne, CommitFrame
  <2> QED BY <2>1 DEF IInv, InFrame, Ids, Following
<1> QED BY <1>1, Invariance, PTL DEF Spec, FrameIsWhole

-----------------------------------------------------------------------------
(* Refinement: the row and the accepted events of each board change only by *)
(* the calls of StreamCursor, each of them one that the store accepts.      *)

Cursor(b) == INSTANCE StreamCursor WITH
    row <- row[b], handled <- handled[b],
    Identities <- {Identity}, MaxId <- MaxEvents, MaxCount <- MaxFaults

(* Every counted failure of a row is one of the faults of the run.          *)
FailuresAreFaults ==
    /\ faults \in Nat
    /\ \A b \in Boards : row[b].failures <= faults

LEMMA NamedRow == \A r : Named(r) => r.identity # ""
BY Zenon DEF Named, Identity

LEMMA CursorInit ==
    ASSUME Init, NEW b \in Boards
    PROVE  Cursor(b)!Init /\ FailuresAreFaults
<1>1. row[b] = Uninitialized /\ handled[b] = {}
  BY DEF Init
<1>2. row[b] = Cursor(b)!Uninitialized
  BY <1>1, Zenon DEF Uninitialized, Cursor!Uninitialized
<1>3. FailuresAreFaults
  BY RowUninitialized DEF Init, FailuresAreFaults
<1> QED BY <1>1, <1>2, <1>3 DEF Cursor!Init

(* Steps that change no row: a stutter of every board's cursor.             *)
LEMMA CursorStutter ==
    ASSUME FailuresAreFaults, UNCHANGED <<row, handled>>, faults' \in Nat, faults <= faults',
           NEW b \in Boards, IInv
    PROVE  UNCHANGED <<row[b], handled[b]>> /\ FailuresAreFaults'
<1>1. \A c \in Boards : row[c].failures \in Nat
  BY DEF IInv, Domains, RowOK
<1> QED BY <1>1 DEF FailuresAreFaults

(* A step that makes q the row of the current board.                        *)
LEMMA CursorOfBoard ==
    ASSUME IInv, FailuresAreFaults, NEW q, row' = [row EXCEPT ![Board] = q],
           faults' \in Nat, faults <= faults', q.failures \in Nat, q.failures <= faults'
    PROVE  /\ row'[Board] = q
           /\ \A c \in Boards : c # Board => row'[c] = row[c]
           /\ FailuresAreFaults'
<1>1. Board \in Boards /\ Domains
  BY BoardInBoards DEF IInv
<1>2. row'[Board] = q /\ \A c \in Boards : c # Board => row'[c] = row[c]
  BY <1>1 DEF Domains
<1>3. \A c \in Boards : row[c].failures \in Nat
  BY <1>1 DEF Domains, RowOK
<1>4. FailuresAreFaults'
  BY <1>2, <1>3 DEF FailuresAreFaults
<1> QED BY <1>2, <1>4

LEMMA CursorReconcile ==
    ASSUME IInv, FailuresAreFaults, Reconcile, NEW b \in Boards
    PROVE  /\ Cursor(b)!Next \/ UNCHANGED <<row[b], handled[b]>>
           /\ FailuresAreFaults'
<1> DEFINE q == Reconciled(row[Board], Identity, {}, {})
<1>1. row' = [row EXCEPT ![Board] = q] /\ UNCHANGED <<handled, faults>>
  BY DEF Reconcile
<1>2. Board \in Boards /\ RowOK(row[Board])
  BY BoardInBoards DEF IInv, Domains
<1>3. RowOK(q) /\ q.failures = row[Board].failures
  BY <1>2, RowReconciled
<1>4. q.failures \in Nat /\ q.failures <= faults /\ q.resets = 0
  BY <1>2, <1>3 DEF FailuresAreFaults, RowOK
<1>5. q = Cursor(b)!Reconciled(row[Board], Identity, {}, {})
  BY Zenon DEF Reconciled, Cursor!Reconciled, MustResync, Cursor!MustResync
<1> HIDE DEF q
<1>6. /\ row'[Board] = q /\ \A c \in Boards : c # Board => row'[c] = row[c]
      /\ FailuresAreFaults'
  <2>1. faults' \in Nat /\ faults <= faults' /\ q.failures <= faults'
    BY <1>1, <1>4 DEF FailuresAreFaults
  <2> QED BY <1>1, <1>4, <2>1, CursorOfBoard
<1>7. ASSUME b = Board PROVE Cursor(b)!Next
  <2>1. MaxFaults \in Nat
    BY ObserverAssumption
  <2>2. row'[b].resets <= MaxFaults
    BY <1>4, <1>6, <1>7, <2>1
  <2>3. Cursor(b)!ReconcileStreamCursor(Identity, {}, {})
    BY <1>1, <1>5, <1>6, <1>7, <2>2, Zenon DEF Cursor!ReconcileStreamCursor
  <2>4. Identity \in {Identity} /\ {} \in Cursor(b)!Optional(0 .. MaxEvents)
    BY DEF Cursor!Optional
  <2> QED BY <2>3, <2>4, Zenon DEF Cursor!Next
<1> QED BY <1>1, <1>6, <1>7

LEMMA CursorFailure ==
    ASSUME IInv, FailuresAreFaults, NEW counted \in BOOLEAN,
           ConnectFails(counted) \/ RecvFails(counted), NEW b \in Boards
    PROVE  /\ Cursor(b)!Next \/ UNCHANGED <<row[b], handled[b]>>
           /\ FailuresAreFaults'
<1> DEFINE q == FailureRecorded(row[Board])
<1>1. /\ pc \in {"connect", "recv"} /\ StreamFails(counted)
      /\ faults < MaxFaults /\ faults' = faults + 1 /\ UNCHANGED handled
  BY DEF ConnectFails, RecvFails, StreamFails, Fault
<1>2. Board \in Boards /\ RowOK(row[Board]) /\ Named(row[Board])
  BY <1>1, BoardInBoards DEF IInv, Domains, InFrame
<1>3. faults' \in Nat /\ faults <= faults' /\ MaxFaults \in Nat
  BY <1>1, ObserverAssumption DEF FailuresAreFaults
<1>4. CASE ~counted
  BY <1>1, <1>3, <1>4, CursorStutter DEF StreamFails
<1>5. CASE counted
  <2>1. row' = [row EXCEPT ![Board] = q]
    BY <1>1, <1>5 DEF StreamFails
  <2>2. q.failures = row[Board].failures + 1
    BY <1>2, RowFailed
  <2>3. row[Board].failures \in Nat /\ row[Board].failures <= faults
    BY <1>2 DEF FailuresAreFaults, RowOK
  <2>4. q.failures \in Nat /\ q.failures <= faults' /\ row[Board].failures < MaxFaults
    BY <1>1, <1>3, <2>2, <2>3 DEF FailuresAreFaults
  <2>5. q = Cursor(b)!FailureRecorded(row[Board])
    BY DEF FailureRecorded, Cursor!FailureRecorded
  <2> HIDE DEF q
  <2>6. /\ row'[Board] = q /\ \A c \in Boards : c # Board => row'[c] = row[c]
        /\ FailuresAreFaults'
    BY <1>3, <2>1, <2>4, CursorOfBoard
  <2>7. ASSUME b = Board PROVE Cursor(b)!Next
    <3>1. Cursor(b)!RecordStreamTransportFailure
      BY <1>1, <1>2, <2>4, <2>5, <2>6, <2>7, NamedRow, Zenon
         DEF Cursor!RecordStreamTransportFailure
    <3> QED BY <3>1, Zenon DEF Cursor!Next
  <2> QED BY <1>1, <2>6, <2>7
<1> QED BY <1>4, <1>5

LEMMA CursorMark ==
    ASSUME IInv, FailuresAreFaults, MarkAlert, NEW b \in Boards
    PROVE  /\ Cursor(b)!Next \/ UNCHANGED <<row[b], handled[b]>>
           /\ FailuresAreFaults'
<1> DEFINE sent == pc = "delivered"
           q == AlertMarked(row[Board], sent)
<1>1. /\ pc \in {"delivered", "undelivered"} /\ row' = [row EXCEPT ![Board] = q]
      /\ UNCHANGED <<handled, faults>>
  BY DEF MarkAlert
<1>2. /\ Board \in Boards /\ RowOK(row[Board]) /\ Named(row[Board]) /\ sent \in BOOLEAN
  BY <1>1, BoardInBoards DEF IInv, Domains, InFrame
<1> HIDE DEF sent
<1>3. q.failures = row[Board].failures
  BY <1>2, RowMarked
<1>4. q.failures \in Nat /\ q.failures <= faults
  BY <1>2, <1>3 DEF FailuresAreFaults, RowOK
<1>5. q = Cursor(b)!AlertMarked(row[Board], sent)
  BY Zenon DEF AlertMarked, Cursor!AlertMarked
<1> HIDE DEF q
<1>6. /\ row'[Board] = q /\ \A c \in Boards : c # Board => row'[c] = row[c]
      /\ FailuresAreFaults'
  <2>1. faults' \in Nat /\ faults <= faults' /\ q.failures <= faults'
    BY <1>1, <1>4 DEF FailuresAreFaults
  <2> QED BY <1>1, <1>4, <2>1, CursorOfBoard
<1>7. ASSUME b = Board PROVE Cursor(b)!Next
  <2>1. Cursor(b)!MarkStreamAlert(sent)
    BY <1>1, <1>2, <1>5, <1>6, <1>7, NamedRow, Zenon DEF Cursor!MarkStreamAlert
  <2> QED BY <1>2, <2>1, Zenon DEF Cursor!Next
<1> QED BY <1>1, <1>6, <1>7

(* What CommitFrame commits is a frame the store accepts.                   *)
LEMMA CursorCommit ==
    ASSUME IInv, FailuresAreFaults, CommitFrame, NEW b \in Boards
    PROVE  /\ Cursor(b)!Next \/ UNCHANGED <<row[b], handled[b]>>
           /\ FailuresAreFaults'
<1> DEFINE q == Committed(row[Board], position[Board], Ids)
<1>1. /\ pc = "reserve"
      /\ CommitAllowed(row[Board], handled[Board], Identity, position[Board], Ids)
      /\ row' = [row EXCEPT ![Board] = q]
      /\ handled' = [handled EXCEPT ![Board] = @ \cup Ids]
      /\ UNCHANGED faults
  BY DEF CommitFrame, Ids
<1>2. Board \in Boards /\ RowOK(row[Board]) /\ Domains /\ InFrame
  BY BoardInBoards DEF IInv, Domains
<1>3. Ids = Following(Board) /\ row[Board].cursor <= position[Board]
  BY <1>1, <1>2 DEF InFrame
<1>4. /\ position[Board] \in 0 .. MaxEvents /\ row[Board].cursor \in Nat
      /\ MaxEvents \in Nat /\ position[Board] \in Nat
  <2>1. MaxEvents \in Nat /\ position[Board] \in 0 .. MaxEvents
    BY <1>2, ObserverAssumption DEF Domains
  <2>2. row[Board].cursor \in 0 .. MaxEvents
    BY <1>2 DEF RowOK
  <2> QED BY <2>1, <2>2
<1>5. Ids \in SUBSET (1 .. MaxEvents)
  BY <1>3, <1>4 DEF Following
<1>6. Ids = {} => position[Board] = row[Board].cursor
  <2>1. row[Board].cursor < position[Board] => position[Board] \in Ids
    BY <1>3, <1>4 DEF Following
  <2> QED BY <1>3, <1>4, <2>1
<1>0. q = Committed(row[Board], position[Board], Ids)
  OBVIOUS
<1>7. q.failures = 0
  <2> HIDE DEF q
  <2>1. EpisodeEnded(row[Board], position[Board], q)
    BY <1>0, <1>2, <1>3, <1>4, <1>6, RowCommitted
  <2> QED BY <2>1 DEF EpisodeEnded
<1>8. q = Cursor(b)!Committed(row[Board], position[Board], Ids)
  BY Zenon DEF Committed, Cursor!Committed, EpisodeOver, Cursor!EpisodeOver
<1>9. Cursor(b)!CommitAllowed(row[Board], handled[Board], Identity, position[Board], Ids)
  BY <1>1, Zenon DEF CommitAllowed, Cursor!CommitAllowed, Max, Cursor!Max
<1> HIDE DEF q
<1>10. q.failures \in Nat /\ q.failures <= faults
  BY <1>7 DEF FailuresAreFaults
<1>11. /\ row'[Board] = q /\ \A c \in Boards : c # Board => row'[c] = row[c]
       /\ FailuresAreFaults'
  <2>1. faults' \in Nat /\ faults <= faults' /\ q.failures <= faults'
    BY <1>1, <1>10 DEF FailuresAreFaults
  <2> QED BY <1>1, <1>10, <2>1, CursorOfBoard
<1>12. /\ handled'[Board] = handled[Board] \cup Ids
       /\ \A c \in Boards : c # Board => handled'[c] = handled[c]
  BY <1>1, <1>2 DEF Domains
<1>13. ASSUME b = Board PROVE Cursor(b)!Next
  <2>1. Cursor(b)!CommitStreamFrame(Identity, position[Board], Ids)
    BY <1>8, <1>9, <1>11, <1>12, <1>13, Zenon DEF Cursor!CommitStreamFrame
  <2>2. Identity \in {Identity}
    OBVIOUS
  <2> QED BY <1>4, <1>5, <2>1, <2>2, Zenon DEF Cursor!Next
<1> QED BY <1>11, <1>12, <1>13

LEMMA CursorNext ==
    ASSUME IInv, FailuresAreFaults, [Next]_vars, NEW b \in Boards
    PROVE  /\ Cursor(b)!Next \/ UNCHANGED <<row[b], handled[b]>>
           /\ FailuresAreFaults'
<1>1. ASSUME UNCHANGED <<row, handled>>, faults' = faults \/ Fault
      PROVE  UNCHANGED <<row[b], handled[b]>> /\ FailuresAreFaults'
  <2>1. faults' \in Nat /\ faults <= faults'
    BY <1>1 DEF Fault, FailuresAreFaults
  <2> QED BY <1>1, <2>1, CursorStutter
<1>2. CASE Start \/ Environment \/ UNCHANGED vars
  <2>1. UNCHANGED <<row, handled>> /\ (faults' = faults \/ Fault)
    BY <1>2 DEF Start, Environment, Emit, RollBack, BackoffExpires, vars, durable
  <2> QED BY <1>1, <2>1
<1>3. CASE RequestStop \/ Crash \/ ReaderFails
  <2>1. UNCHANGED <<row, handled>> /\ (faults' = faults \/ Fault)
    BY <1>3 DEF RequestStop, Crash, ReaderFails, durable
  <2> QED BY <1>1, <2>1
<1>4. ASSUME NEW counted \in BOOLEAN, ConnectFails(counted) \/ RecvFails(counted)
      PROVE  /\ Cursor(b)!Next \/ UNCHANGED <<row[b], handled[b]>>
             /\ FailuresAreFaults'
  BY <1>4, CursorFailure
<1>5. CASE Poll /\ ~Reconcile /\ ~CommitFrame /\ ~MarkAlert
  <2>1. UNCHANGED <<row, handled, faults>>
    BY <1>5 DEF Poll, EndCycle, StopBetweenBoards, SkipBackedOff, Connect, RecvFrame, RecvIdle,
                FrameReceived, ClassifyOne, AbandonFrame, FrameClassified, ReserveOne, SendAlert,
                NoAlert, SendRecovery, durable
  <2> QED BY <1>1, <2>1
<1>6. CASE Reconcile \/ CommitFrame \/ MarkAlert
  BY <1>6, CursorReconcile, CursorCommit, CursorMark
<1> QED BY <1>2, <1>3, <1>4, <1>5, <1>6 DEF Next, Failure

(* The observer uses the store as StreamCursor says it may be used: of each *)
(* board it implements the cursor's specification.                          *)
THEOREM ImplementsCursor ==
    ASSUME NEW b \in Boards
    PROVE  Spec => Cursor(b)!Spec
<1>1. Init => Cursor(b)!Init /\ FailuresAreFaults
  BY CursorInit
<1>2. IInv /\ FailuresAreFaults /\ [Next]_vars
          => [Cursor(b)!Next]_(Cursor(b)!vars) /\ FailuresAreFaults'
  BY CursorNext DEF Cursor!vars
<1> QED BY <1>1, <1>2, Invariance, PTL DEF Spec, Cursor!Spec
=============================================================================
