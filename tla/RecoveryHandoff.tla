-------------------------- MODULE RecoveryHandoff --------------------------
(***************************************************************************)
(* The durable recovery pipeline: controller processes (the daemon, the    *)
(* one-shot `run` and `discover` commands) that take the instance lock,    *)
(* reserve blocked tasks in the controller database, and perform the       *)
(* native command sequence of every reservation, while the board moves on  *)
(* by itself, and while processes are stopped, killed and started again.   *)
(*                                                                         *)
(* Durable: reservation, kind, phase, outcome (state.db) and the board.    *)
(* Volatile: everything indexed by a process.  How the daemon finds        *)
(* candidates (the event stream) is StreamObserver; here a scan reads each *)
(* card once, and the read is a step of its own, so the card may change    *)
(* before the reservation it led to, and again before the handoff.         *)
(***************************************************************************)
EXTENDS Naturals

CONSTANTS
    Procs,              \* controller processes
    Tasks,              \* <<board, task>> identities
    Role,               \* [Procs -> {"daemon", "run", "discover"}]
    LockFiles,
    LockOf,             \* [Procs -> LockFiles]: state_db.parent / controller.lock
    NoProc, NoTask,
    MaxDisturbances     \* bound on crashes, stops, failed scans and one-shot launches

ASSUME ConstantsAssumption ==
    /\ Role \in [Procs -> {"daemon", "run", "discover"}]
    /\ LockOf \in [Procs -> LockFiles]
    /\ NoProc \notin Procs
    /\ NoTask \notin Tasks
    /\ MaxDisturbances \in Nat

Commands == {"subscription", "comment", "reassign", "unblock"}

(* The phase tuples of execute_reserved_handoff. *)
Following == [subscription |-> "comment", comment |-> "reassign",
              reassign |-> "unblock", unblock |-> "unblock"]

LastPhase(k) == IF k = "child" THEN "comment" ELSE "unblock"

VARIABLES
    reservation,    \* blocker_reservations.reservation_state, "none" without a row
    kind,           \* blocker_reservations.blocker_kind: a blocker or an unclaimed child
    phase,          \* interventions.phase, "none" without a row
    outcome,        \* interventions.outcome
    card,           \* the native card
    inflight,       \* native commands started, not yet applied or dead
    issued,         \* history: how often each native command was started
    took,           \* history: native commands that took effect
    owner,          \* flock holder of each lock file
    pc,             \* where a process is
    todo,           \* tasks this scan has not looked at
    seen,           \* the candidate read last, not yet reserved
    queue,          \* the pending_reservations() snapshot, minus those handled
    at,             \* the task in handoff
    step,           \* its current phase
    rc,             \* the result of the native command
    stop,           \* stop_event
    disturbances

durable == <<reservation, kind, phase, outcome>>
native  == <<card, inflight, issued, took>>
local   == <<pc, todo, seen, queue, at, step, rc, stop>>
vars    == <<durable, native, owner, local, disturbances>>

NoCandidate == [task |-> NoTask, kind |-> "none"]

Candidates ==
    {NoCandidate} \cup [task : Tasks, kind : {"blocker", "child"}]

Running(p) == pc[p] # "down"

Init ==
    /\ reservation = [t \in Tasks |-> "none"]
    /\ kind = [t \in Tasks |-> "none"]
    /\ phase = [t \in Tasks |-> "none"]
    /\ outcome = [t \in Tasks |-> "none"]
    /\ card = [t \in Tasks |-> "ready"]
    /\ inflight = [t \in Tasks |-> {}]
    /\ issued = [t \in Tasks |-> [c \in Commands |-> 0]]
    /\ took = [t \in Tasks |-> {}]
    /\ owner = [f \in LockFiles |-> NoProc]
    /\ pc = [p \in Procs |-> "down"]
    /\ todo = [p \in Procs |-> {}]
    /\ seen = [p \in Procs |-> NoCandidate]
    /\ queue = [p \in Procs |-> {}]
    /\ at = [p \in Procs |-> NoTask]
    /\ step = [p \in Procs |-> "subscription"]
    /\ rc = [p \in Procs |-> "ok"]
    /\ stop = [p \in Procs |-> FALSE]
    /\ disturbances = 0

Disturb ==
    /\ disturbances < MaxDisturbances
    /\ disturbances' = disturbances + 1

-----------------------------------------------------------------------------
(* Process lifetime. *)

(* Mutant: no lock. *)
AcquireUnlocked(p) ==
    /\ pc[p] = "down"
    /\ owner' = [owner EXCEPT ![LockOf[p]] = p]
    /\ pc' = [pc EXCEPT ![p] = "scan"]
    /\ todo' = [todo EXCEPT ![p] = Tasks]
    /\ IF Role[p] = "daemon" THEN UNCHANGED disturbances ELSE Disturb
    /\ UNCHANGED <<durable, native, seen, queue, at, step, rc, stop>>

(* Mutant: startup puts interrupted interventions back in the queue. *)
AcquireRearming(p) ==
    /\ pc[p] = "down"
    /\ owner[LockOf[p]] = NoProc
    /\ owner' = [owner EXCEPT ![LockOf[p]] = p]
    /\ pc' = [pc EXCEPT ![p] = "scan"]
    /\ todo' = [todo EXCEPT ![p] = Tasks]
    /\ reservation' = [t \in Tasks |->
            IF reservation[t] = "started" THEN "reserved" ELSE reservation[t]]
    /\ IF Role[p] = "daemon" THEN UNCHANGED disturbances ELSE Disturb
    /\ UNCHANGED <<kind, phase, outcome, native, seen, queue, at, step, rc, stop>>

(* flock(LOCK_EX | LOCK_NB): a process that finds it taken exits at once. *)
Acquire(p) ==
    /\ pc[p] = "down"
    /\ owner[LockOf[p]] = NoProc
    /\ owner' = [owner EXCEPT ![LockOf[p]] = p]
    /\ pc' = [pc EXCEPT ![p] = "scan"]
    /\ todo' = [todo EXCEPT ![p] = Tasks]
    /\ IF Role[p] = "daemon" THEN UNCHANGED disturbances ELSE Disturb
    /\ UNCHANGED <<durable, native, seen, queue, at, step, rc, stop>>

(* The process is gone: flock is released with it, and what it knew is lost. *)
Gone(p) ==
    /\ owner' = [owner EXCEPT ![LockOf[p]] = NoProc]
    /\ pc' = [pc EXCEPT ![p] = "down"]
    /\ todo' = [todo EXCEPT ![p] = {}]
    /\ seen' = [seen EXCEPT ![p] = NoCandidate]
    /\ queue' = [queue EXCEPT ![p] = {}]
    /\ at' = [at EXCEPT ![p] = NoTask]
    /\ step' = [step EXCEPT ![p] = "subscription"]
    /\ rc' = [rc EXCEPT ![p] = "ok"]
    /\ stop' = [stop EXCEPT ![p] = FALSE]
    /\ UNCHANGED <<durable, native>>

(* SIGKILL, power loss, or a StateError that ends the process.  A native    *)
(* command it started is another process and may outlive it.                *)
Crash(p) ==
    /\ Running(p)
    /\ Disturb
    /\ Gone(p)

(* SIGTERM at the daemon only sets the stop event. *)
RequestStop(p) ==
    /\ Running(p) /\ Role[p] = "daemon" /\ ~stop[p]
    /\ Disturb
    /\ stop' = [stop EXCEPT ![p] = TRUE]
    /\ UNCHANGED <<durable, native, owner, pc, todo, seen, queue, at, step, rc>>

-----------------------------------------------------------------------------
(* Finding candidates and reserving them. *)

CandidateKind(p, t) ==
    IF card[t] = "blocked" THEN "blocker"
    ELSE IF card[t] = "ready" /\ Role[p] # "daemon" THEN "child"
    ELSE "none"

Look(p, t) ==
    /\ pc[p] = "scan" /\ seen[p] = NoCandidate /\ ~stop[p]
    /\ t \in todo[p]
    /\ todo' = [todo EXCEPT ![p] = @ \ {t}]
    /\ seen' = [seen EXCEPT ![p] =
            IF CandidateKind(p, t) = "none" THEN NoCandidate
            ELSE [task |-> t, kind |-> CandidateKind(p, t)]]
    /\ UNCHANGED <<durable, native, owner, pc, queue, at, step, rc, stop, disturbances>>

(* Mutant: INSERT OR REPLACE. *)
ReplaceReservation(t, k) ==
    /\ reservation' = [reservation EXCEPT ![t] = "reserved"]
    /\ kind' = [kind EXCEPT ![t] = k]

(* INSERT OR IGNORE on the composite identity. *)
ReserveBlocker(t, k) ==
    IF reservation[t] = "none"
    THEN /\ reservation' = [reservation EXCEPT ![t] = "reserved"]
         /\ kind' = [kind EXCEPT ![t] = k]
    ELSE UNCHANGED <<reservation, kind>>

ReserveSeen(p) ==
    /\ pc[p] = "scan" /\ seen[p] # NoCandidate
    /\ ReserveBlocker(seen[p].task, seen[p].kind)
    /\ seen' = [seen EXCEPT ![p] = NoCandidate]
    /\ UNCHANGED <<phase, outcome, native, owner, pc, todo, queue, at, step, rc, stop,
                   disturbances>>

(* The scan raises (board unreadable, reader failure): the daemon logs the  *)
(* cycle error and starts the next cycle, a one-shot command exits.         *)
AbortScan(p) ==
    /\ pc[p] = "scan"
    /\ Disturb
    /\ IF Role[p] = "daemon" /\ ~stop[p]
       THEN /\ todo' = [todo EXCEPT ![p] = Tasks]
            /\ seen' = [seen EXCEPT ![p] = NoCandidate]
            /\ UNCHANGED <<durable, native, owner, pc, queue, at, step, rc, stop>>
       ELSE Gone(p)

(* Mutant: only cards that are still blocked are taken up. *)
PendingStillBlocked == {t \in Tasks : reservation[t] = "reserved" /\ card[t] = "blocked"}

(* pending_reservations(), read once before the handoff loop. *)
Pending == {t \in Tasks : reservation[t] = "reserved"}

StartHandoff(p) ==
    /\ pc[p] = "scan" /\ seen[p] = NoCandidate /\ todo[p] = {}
    /\ ~stop[p] /\ Role[p] # "discover"
    /\ pc' = [pc EXCEPT ![p] = "handoff"]
    /\ queue' = [queue EXCEPT ![p] = Pending]
    /\ UNCHANGED <<durable, native, owner, todo, seen, at, step, rc, stop, disturbances>>

(* A stop during the scan skips the handoff; `discover` has none. *)
LeaveScan(p) ==
    /\ pc[p] = "scan" /\ seen[p] = NoCandidate
    /\ stop[p] \/ (todo[p] = {} /\ Role[p] = "discover")
    /\ Gone(p)
    /\ UNCHANGED disturbances

-----------------------------------------------------------------------------
(* execute_reserved_handoff. *)

(* begin_intervention: reserved -> started and the intervention row, in one *)
(* transaction.                                                             *)
Begin(p, t) ==
    /\ pc[p] = "handoff" /\ ~stop[p] /\ t \in queue[p]
    /\ reservation[t] = "reserved"
    /\ reservation' = [reservation EXCEPT ![t] = "started"]
    /\ phase' = [phase EXCEPT ![t] = "started"]
    /\ queue' = [queue EXCEPT ![p] = @ \ {t}]
    /\ at' = [at EXCEPT ![p] = t]
    /\ step' = [step EXCEPT ![p] = "subscription"]
    /\ pc' = [pc EXCEPT ![p] = "issue"]
    /\ UNCHANGED <<kind, outcome, native, owner, todo, seen, rc, stop, disturbances>>

(* Another process consumed the reservation since the snapshot. *)
BeginRefused(p, t) ==
    /\ pc[p] = "handoff" /\ ~stop[p] /\ t \in queue[p]
    /\ reservation[t] # "reserved"
    /\ queue' = [queue EXCEPT ![p] = @ \ {t}]
    /\ UNCHANGED <<durable, native, owner, pc, todo, seen, at, step, rc, stop, disturbances>>

IssueCommand(p) ==
    /\ pc[p] = "issue"
    /\ issued' = [issued EXCEPT ![at[p]][step[p]] = @ + 1]
    /\ inflight' = [inflight EXCEPT ![at[p]] = @ \cup {step[p]}]
    /\ pc' = [pc EXCEPT ![p] = "wait"]
    /\ UNCHANGED <<durable, card, took, owner, todo, seen, queue, at, step, rc, stop,
                   disturbances>>

ReturnOk(p) ==
    /\ pc[p] = "wait"
    /\ step[p] \notin inflight[at[p]]
    /\ rc' = [rc EXCEPT ![p] = "ok"]
    /\ pc' = [pc EXCEPT ![p] = "record"]
    /\ UNCHANGED <<durable, native, owner, todo, seen, queue, at, step, stop, disturbances>>

(* A nonzero exit, the 120 s timeout that kills the command, or a runner    *)
(* that raises: the command may have taken effect or not.                   *)
ReturnError(p) ==
    /\ pc[p] = "wait"
    /\ inflight' = [inflight EXCEPT ![at[p]] = @ \ {step[p]}]
    /\ rc' = [rc EXCEPT ![p] = "error"]
    /\ pc' = [pc EXCEPT ![p] = "record"]
    /\ UNCHANGED <<durable, card, issued, took, owner, todo, seen, queue, at, step, stop,
                   disturbances>>

BackToQueue(p) ==
    /\ pc' = [pc EXCEPT ![p] = "handoff"]
    /\ at' = [at EXCEPT ![p] = NoTask]
    /\ step' = [step EXCEPT ![p] = "subscription"]

AfterRecord(p, result) ==
    \/ /\ result = "error" \/ stop[p]
       /\ BackToQueue(p)
    \/ /\ result = "ok" /\ ~stop[p] /\ step[p] = LastPhase(kind[at[p]])
       /\ pc' = [pc EXCEPT ![p] = "finish"]
       /\ UNCHANGED <<at, step>>
    \/ /\ result = "ok" /\ ~stop[p] /\ step[p] # LastPhase(kind[at[p]])
       /\ pc' = [pc EXCEPT ![p] = "issue"]
       /\ step' = [step EXCEPT ![p] = Following[step[p]]]
       /\ UNCHANGED at

(* Mutant: the return code never reaches the row. *)
RecordAlwaysOk(p) ==
    /\ pc[p] = "record"
    /\ phase' = [phase EXCEPT ![at[p]] = step[p]]
    /\ outcome' = [outcome EXCEPT ![at[p]] = "ok"]
    /\ AfterRecord(p, rc[p])
    /\ rc' = [rc EXCEPT ![p] = "ok"]
    /\ UNCHANGED <<reservation, kind, native, owner, todo, seen, queue, stop, disturbances>>

(* Mutant: phase and outcome swapped. *)
RecordSwapped(p) ==
    /\ pc[p] = "record"
    /\ phase' = [phase EXCEPT ![at[p]] = rc[p]]
    /\ outcome' = [outcome EXCEPT ![at[p]] = step[p]]
    /\ AfterRecord(p, rc[p])
    /\ rc' = [rc EXCEPT ![p] = "ok"]
    /\ UNCHANGED <<reservation, kind, native, owner, todo, seen, queue, stop, disturbances>>

(* Mutant: a failed command is tried again. *)
RecordRetrying(p) ==
    /\ pc[p] = "record"
    /\ IF rc[p] = "error"
       THEN /\ pc' = [pc EXCEPT ![p] = "issue"]
            /\ UNCHANGED <<phase, outcome, at, step>>
       ELSE /\ phase' = [phase EXCEPT ![at[p]] = step[p]]
            /\ outcome' = [outcome EXCEPT ![at[p]] = "ok"]
            /\ AfterRecord(p, "ok")
    /\ rc' = [rc EXCEPT ![p] = "ok"]
    /\ UNCHANGED <<reservation, kind, native, owner, todo, seen, queue, stop, disturbances>>

(* record_intervention_phase, and what the loop does next. *)
Record(p) ==
    /\ pc[p] = "record"
    /\ phase' = [phase EXCEPT ![at[p]] = step[p]]
    /\ outcome' = [outcome EXCEPT ![at[p]] = rc[p]]
    /\ AfterRecord(p, rc[p])
    /\ rc' = [rc EXCEPT ![p] = "ok"]
    /\ UNCHANGED <<reservation, kind, native, owner, todo, seen, queue, stop, disturbances>>

(* "complete" is recorded unless a stop arrived in between. *)
Finish(p) ==
    /\ pc[p] = "finish"
    /\ IF stop[p] THEN UNCHANGED <<phase, outcome>>
       ELSE /\ phase' = [phase EXCEPT ![at[p]] = "complete"]
            /\ outcome' = [outcome EXCEPT ![at[p]] = "ok"]
    /\ BackToQueue(p)
    /\ UNCHANGED <<reservation, kind, native, owner, todo, seen, queue, rc, stop, disturbances>>

NextCycle(p) ==
    /\ pc[p] = "handoff" /\ queue[p] = {} /\ Role[p] = "daemon" /\ ~stop[p]
    /\ pc' = [pc EXCEPT ![p] = "scan"]
    /\ todo' = [todo EXCEPT ![p] = Tasks]
    /\ UNCHANGED <<durable, native, owner, seen, queue, at, step, rc, stop, disturbances>>

LeaveHandoff(p) ==
    /\ pc[p] = "handoff"
    /\ stop[p] \/ (queue[p] = {} /\ Role[p] # "daemon")
    /\ Gone(p)
    /\ UNCHANGED disturbances

-----------------------------------------------------------------------------
(* The native side. *)

CardAfter(t, c) ==
    IF c = "unblock" /\ card[t] \in {"blocked", "waiting"} THEN "ready" ELSE card[t]

(* A started command takes effect, whether or not its parent still waits. *)
TakeEffect(t, c) ==
    /\ c \in inflight[t]
    /\ inflight' = [inflight EXCEPT ![t] = @ \ {c}]
    /\ took' = [took EXCEPT ![t] = @ \cup {c}]
    /\ card' = [card EXCEPT ![t] = CardAfter(t, c)]
    /\ UNCHANGED <<durable, issued, owner, local, disturbances>>

(* An orphaned command dies without effect. *)
OrphanDies(t, c) ==
    /\ c \in inflight[t]
    /\ \A p \in Procs : ~(pc[p] = "wait" /\ at[p] = t /\ step[p] = c)
    /\ inflight' = [inflight EXCEPT ![t] = @ \ {c}]
    /\ UNCHANGED <<durable, card, issued, took, owner, local, disturbances>>

(* Workers, the dispatcher and the operator move the card: "blocked" is a   *)
(* recoverable block, "waiting" one that needs a human.                     *)
BoardMoves == {<<"ready", "blocked">>, <<"ready", "waiting">>, <<"ready", "done">>,
               <<"blocked", "ready">>, <<"waiting", "ready">>, <<"blocked", "waiting">>}

BoardStep(t) ==
    /\ \E m \in BoardMoves : card[t] = m[1] /\ card' = [card EXCEPT ![t] = m[2]]
    /\ UNCHANGED <<durable, inflight, issued, took, owner, local, disturbances>>

-----------------------------------------------------------------------------
Step(p) ==
    \/ \E t \in Tasks : Look(p, t)
    \/ ReserveSeen(p)
    \/ StartHandoff(p)
    \/ LeaveScan(p)
    \/ \E t \in Tasks : Begin(p, t)
    \/ \E t \in Tasks : BeginRefused(p, t)
    \/ IssueCommand(p)
    \/ ReturnOk(p)
    \/ ReturnError(p)
    \/ Record(p)
    \/ Finish(p)
    \/ NextCycle(p)
    \/ LeaveHandoff(p)

Interrupt(p) == Crash(p) \/ RequestStop(p) \/ AbortScan(p)

NativeStep(t) ==
    \/ \E c \in Commands : TakeEffect(t, c)
    \/ \E c \in Commands : OrphanDies(t, c)
    \/ BoardStep(t)

Next ==
    \/ \E p \in Procs : Acquire(p) \/ Step(p) \/ Interrupt(p)
    \/ \E t \in Tasks : NativeStep(t)

Spec == Init /\ [][Next]_vars

(* A running process keeps running: run() loops until it is stopped, native *)
(* commands end within their timeout, and the service manager starts the    *)
(* daemon again.  Operators, workers and signals owe nothing.               *)
Fairness ==
    /\ \A p \in Procs : WF_vars(Step(p))
    /\ \A p \in Procs : Role[p] = "daemon" => WF_vars(Acquire(p))

FairSpec == Spec /\ Fairness
-----------------------------------------------------------------------------
(* Correctness. *)

Phases == {"started", "complete"} \cup Commands

PcValues == {"down", "scan", "handoff", "issue", "wait", "record", "finish"}

(* Every variable stays in its domain. *)
TypeOK ==
    /\ reservation \in [Tasks -> {"none", "reserved", "started"}]
    /\ kind \in [Tasks -> {"none", "blocker", "child"}]
    /\ phase \in [Tasks -> {"none"} \cup Phases]
    /\ outcome \in [Tasks -> {"none", "ok", "error"}]
    /\ card \in [Tasks -> {"ready", "blocked", "waiting", "done"}]
    /\ inflight \in [Tasks -> SUBSET Commands]
    /\ issued \in [Tasks -> [Commands -> Nat]]
    /\ took \in [Tasks -> SUBSET Commands]
    /\ owner \in [LockFiles -> Procs \cup {NoProc}]
    /\ pc \in [Procs -> PcValues]
    /\ todo \in [Procs -> SUBSET Tasks]
    /\ seen \in [Procs -> Candidates]
    /\ queue \in [Procs -> SUBSET Tasks]
    /\ at \in [Procs -> Tasks \cup {NoTask}]
    /\ step \in [Procs -> Commands]
    /\ rc \in [Procs -> {"ok", "error"}]
    /\ stop \in [Procs -> BOOLEAN]
    /\ disturbances \in Nat

Working(p) == pc[p] \in {"issue", "wait", "record", "finish"}

(* The instance lock: two processes on one lock file never run together     *)
(* (InstanceLock), however they crashed and restarted before.               *)
LockExclusive ==
    \A p, q \in Procs :
        Running(p) /\ Running(q) /\ LockOf[p] = LockOf[q] => p = q

(* No two processes ever handle the same task, not even processes that lock *)
(* different files over one database (begin_intervention consumes the       *)
(* reservation).                                                            *)
OneWinner ==
    \A p, q \in Procs : Working(p) /\ Working(q) /\ at[p] = at[q] => p = q

(* The one-ever rule: over all crashes, restarts, stale snapshots and       *)
(* concurrent processes a native command of the handoff is started at most  *)
(* once for a task, and never for a task without a started intervention.    *)
OneEver ==
    \A t \in Tasks, c \in Commands :
        /\ issued[t][c] <= 1
        /\ issued[t][c] = 1 => reservation[t] = "started"

Rank == [subscription |-> 1, comment |-> 2, reassign |-> 3, unblock |-> 4]

Recorded(t) ==
    IF phase[t] \in Commands THEN Rank[phase[t]]
    ELSE IF phase[t] = "complete" THEN Rank[LastPhase(kind[t])]
    ELSE 0

(* What the intervention row lets an operator conclude after a crash: every *)
(* phase recorded ok took effect, nothing further than one command past it  *)
(* was started, and nothing past an error.                                  *)
RowTellsTheBoard ==
    \A t \in Tasks :
        /\ outcome[t] = "ok" =>
               \A c \in Commands : Rank[c] <= Recorded(t) => c \in took[t]
        /\ \A c \in Commands : issued[t][c] > 0 => Rank[c] <= Recorded(t) + 1
        /\ outcome[t] = "error" =>
               \A c \in Commands : Rank[c] > Recorded(t) => issued[t][c] = 0

(* An intervention nobody is working on (its process crashed, failed or     *)
(* finished) is never taken up again: neither its row nor the commands      *)
(* started for it change any more (docs: started interventions are not      *)
(* retried).                                                                *)
NeverResumed ==
    [][\A t \in Tasks :
        reservation[t] = "started" /\ (\A p \in Procs : Working(p) => at[p] # t)
        => /\ reservation'[t] = "started"
           /\ phase'[t] = phase[t] /\ outcome'[t] = outcome[t]
           /\ issued'[t] = issued[t]]_vars

Closed(t) == outcome[t] = "error" \/ phase[t] = "complete"

Promise == INSTANCE OneEver WITH
    stage <- reservation, closed <- [t \in Tasks |-> Closed(t)]

(* The detailed pipeline, with its processes, crashes and stale snapshots,  *)
(* implements the one-ever promise.                                         *)
PromiseSpec == Promise!Spec

(* Every reservation is eventually started, once disturbances end: nothing  *)
(* durable is forgotten by a stop, a crash or a failed scan between the     *)
(* reservation and the handoff.                                             *)
PendingStarts ==
    \A t \in Tasks : reservation[t] = "reserved" ~> reservation[t] = "started"
=============================================================================
