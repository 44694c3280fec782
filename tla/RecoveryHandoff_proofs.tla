----------------------- MODULE RecoveryHandoff_proofs -----------------------
(***************************************************************************)
(* Proofs about RecoveryHandoff for every set of processes, tasks and lock *)
(* files, every role and lock assignment, and every disturbance bound.     *)
(***************************************************************************)
EXTENDS RecoveryHandoff, TLAPS

-----------------------------------------------------------------------------
(* Type correctness, one lemma for each group of actions. *)

LEMMA InitTypeOK == Init => TypeOK
BY ConstantsAssumption
   DEF Init, TypeOK, Candidates, NoCandidate, Phases, PcValues, Commands

LEMMA GoneTypeOK ==
    ASSUME TypeOK, NEW p \in Procs, Gone(p), disturbances' \in Nat
    PROVE  TypeOK'
BY ConstantsAssumption
   DEF Gone, TypeOK, Candidates, NoCandidate, Phases, PcValues, Commands,
       durable, native

LEMMA InterruptTypeOK ==
    ASSUME TypeOK, NEW p \in Procs, Acquire(p) \/ Interrupt(p)
    PROVE  TypeOK'
<1>1. CASE Acquire(p)
  <2>1. disturbances' \in Nat
    BY <1>1 DEF Acquire, Disturb, TypeOK
  <2>2. owner' \in [LockFiles -> Procs \cup {NoProc}]
    BY <1>1 DEF Acquire, TypeOK
  <2>3. pc' \in [Procs -> PcValues] /\ todo' \in [Procs -> SUBSET Tasks]
    BY <1>1 DEF Acquire, TypeOK, PcValues
  <2>4. UNCHANGED <<durable, native, seen, queue, at, step, rc, stop>>
    BY <1>1 DEF Acquire
  <2>5. Candidates' = Candidates
    BY DEF Candidates, NoCandidate
  <2> QED BY <2>1, <2>2, <2>3, <2>4, <2>5 DEF TypeOK, durable, native
<1>2. CASE Crash(p)
  BY <1>2, GoneTypeOK DEF Crash, Disturb, TypeOK
<1>3. CASE RequestStop(p)
  BY <1>3 DEF RequestStop, Disturb, TypeOK, durable, native
<1>4. CASE AbortScan(p)
  <2>1. CASE Role[p] = "daemon" /\ ~stop[p]
    <3>1. disturbances' \in Nat
      BY <1>4 DEF AbortScan, Disturb, TypeOK
    <3>2. seen' \in [Procs -> Candidates] /\ todo' \in [Procs -> SUBSET Tasks]
      BY <1>4, <2>1 DEF AbortScan, TypeOK, Candidates
    <3>3. UNCHANGED <<durable, native, owner, pc, queue, at, step, rc, stop>>
      BY <1>4, <2>1 DEF AbortScan
    <3>4. Candidates' = Candidates
      BY DEF Candidates, NoCandidate
    <3> QED BY <3>1, <3>2, <3>3, <3>4 DEF TypeOK, durable, native
  <2>2. CASE ~(Role[p] = "daemon" /\ ~stop[p])
    <3>1. Gone(p) /\ disturbances' \in Nat
      BY <1>4, <2>2 DEF AbortScan, Disturb, TypeOK
    <3> QED BY <3>1, GoneTypeOK
  <2> QED BY <2>1, <2>2
<1> QED BY <1>1, <1>2, <1>3, <1>4 DEF Interrupt

LEMMA ReserveBlockerTypes ==
    ASSUME TypeOK, NEW t \in Tasks, NEW k \in {"blocker", "child"}, ReserveBlocker(t, k)
    PROVE  /\ reservation' \in [Tasks -> {"none", "reserved", "started"}]
           /\ kind' \in [Tasks -> {"none", "blocker", "child"}]
<1>1. CASE reservation[t] = "none"
  <2>1. /\ reservation' = [reservation EXCEPT ![t] = "reserved"]
        /\ kind' = [kind EXCEPT ![t] = k]
    BY <1>1 DEF ReserveBlocker
  <2>2. /\ reservation \in [Tasks -> {"none", "reserved", "started"}]
        /\ kind \in [Tasks -> {"none", "blocker", "child"}]
    BY DEF TypeOK
  <2> QED BY <2>1, <2>2
<1>2. CASE reservation[t] # "none"
  BY <1>2 DEF ReserveBlocker, TypeOK
<1> QED BY <1>1, <1>2

LEMMA ScanTypeOK ==
    ASSUME TypeOK, NEW p \in Procs,
           \/ \E t \in Tasks : Look(p, t)
           \/ ReserveSeen(p) \/ StartHandoff(p) \/ LeaveScan(p)
    PROVE  TypeOK'
<1>1. ASSUME NEW t \in Tasks, Look(p, t) PROVE TypeOK'
  <2>1. CandidateKind(p, t) # "none" =>
            [task |-> t, kind |-> CandidateKind(p, t)] \in Candidates
    BY DEF CandidateKind, Candidates
  <2>2. seen' \in [Procs -> Candidates]
    BY <1>1, <2>1 DEF Look, TypeOK, Candidates
  <2> QED
    BY <1>1, <2>2 DEF Look, TypeOK, durable, native
<1>2. CASE ReserveSeen(p)
  <2>1. seen[p] \in [task : Tasks, kind : {"blocker", "child"}]
    BY <1>2 DEF ReserveSeen, TypeOK, Candidates
  <2>2. seen[p].task \in Tasks /\ seen[p].kind \in {"blocker", "child"}
    BY <2>1
  <2>3. /\ reservation' \in [Tasks -> {"none", "reserved", "started"}]
        /\ kind' \in [Tasks -> {"none", "blocker", "child"}]
    BY <1>2, <2>2, ReserveBlockerTypes DEF ReserveSeen
  <2>4. seen' \in [Procs -> Candidates]
    BY <1>2 DEF ReserveSeen, TypeOK, Candidates
  <2> QED BY <1>2, <2>3, <2>4 DEF ReserveSeen, TypeOK, native
<1>3. CASE StartHandoff(p)
  BY <1>3 DEF StartHandoff, Pending, TypeOK, PcValues, durable, native
<1>4. CASE LeaveScan(p)
  BY <1>4, GoneTypeOK DEF LeaveScan, TypeOK
<1> QED BY <1>1, <1>2, <1>3, <1>4

LEMMA BackToQueueTypes ==
    ASSUME TypeOK, NEW p \in Procs, BackToQueue(p)
    PROVE  /\ pc' \in [Procs -> PcValues]
           /\ at' \in [Procs -> Tasks \cup {NoTask}]
           /\ step' \in [Procs -> Commands]
BY DEF BackToQueue, TypeOK, PcValues, Commands

LEMMA HandoffTypeOK ==
    ASSUME TypeOK, NEW p \in Procs,
           \/ \E t \in Tasks : Begin(p, t)
           \/ \E t \in Tasks : BeginRefused(p, t)
           \/ NextCycle(p) \/ LeaveHandoff(p)
    PROVE  TypeOK'
<1>1. ASSUME NEW t \in Tasks, Begin(p, t) PROVE TypeOK'
  BY <1>1 DEF Begin, TypeOK, Phases, PcValues, Commands, native
<1>2. ASSUME NEW t \in Tasks, BeginRefused(p, t) PROVE TypeOK'
  BY <1>2 DEF BeginRefused, TypeOK, durable, native
<1>3. CASE NextCycle(p)
  BY <1>3 DEF NextCycle, TypeOK, PcValues, durable, native
<1>4. CASE LeaveHandoff(p)
  BY <1>4, GoneTypeOK DEF LeaveHandoff, TypeOK
<1> QED BY <1>1, <1>2, <1>3, <1>4

(* In the working states the process does have a task; the commands need it. *)
WorkHasTask == \A p \in Procs : Working(p) => at[p] \in Tasks

LEMMA CommandTypeOK ==
    ASSUME TypeOK, WorkHasTask, NEW p \in Procs,
           IssueCommand(p) \/ ReturnOk(p) \/ ReturnError(p) \/ Record(p) \/ Finish(p)
    PROVE  TypeOK'
<1>1. CASE IssueCommand(p)
  <2>1. at[p] \in Tasks
    BY <1>1 DEF IssueCommand, WorkHasTask, Working
  <2>2. issued' \in [Tasks -> [Commands -> Nat]]
    BY <1>1, <2>1 DEF IssueCommand, TypeOK
  <2> QED BY <1>1, <2>1, <2>2 DEF IssueCommand, TypeOK, PcValues, durable
<1>2. CASE ReturnOk(p)
  BY <1>2 DEF ReturnOk, TypeOK, PcValues, durable, native
<1>3. CASE ReturnError(p)
  BY <1>3 DEF ReturnError, TypeOK, PcValues, durable
<1>4. CASE Record(p)
  <2>1. /\ pc' \in [Procs -> PcValues]
        /\ at' \in [Procs -> Tasks \cup {NoTask}]
        /\ step' \in [Procs -> Commands]
    <3>1. CASE BackToQueue(p)
      BY <3>1, BackToQueueTypes
    <3>2. CASE pc' = [pc EXCEPT ![p] = "finish"] /\ UNCHANGED <<at, step>>
      BY <3>2 DEF TypeOK, PcValues
    <3>3. CASE /\ pc' = [pc EXCEPT ![p] = "issue"]
               /\ step' = [step EXCEPT ![p] = Following[step[p]]]
               /\ UNCHANGED at
      <4>1. Following[step[p]] \in Commands
        BY DEF TypeOK, Following, Commands
      <4> QED BY <3>3, <4>1 DEF TypeOK, PcValues
    <3> QED BY <1>4, <3>1, <3>2, <3>3 DEF Record, AfterRecord
  <2>2. /\ phase' \in [Tasks -> {"none"} \cup Phases]
        /\ outcome' \in [Tasks -> {"none", "ok", "error"}]
    BY <1>4 DEF Record, TypeOK, Phases
  <2> QED BY <1>4, <2>1, <2>2 DEF Record, TypeOK, native
<1>5. CASE Finish(p)
  <2>1. BackToQueue(p)
    BY <1>5 DEF Finish
  <2>2. /\ phase' \in [Tasks -> {"none"} \cup Phases]
        /\ outcome' \in [Tasks -> {"none", "ok", "error"}]
    BY <1>5 DEF Finish, TypeOK, Phases
  <2> QED BY <1>5, <2>1, <2>2, BackToQueueTypes DEF Finish, TypeOK, native
<1> QED BY <1>1, <1>2, <1>3, <1>4, <1>5

LEMMA NativeTypeOK ==
    ASSUME TypeOK, NEW t \in Tasks, NativeStep(t)
    PROVE  TypeOK'
<1>1. ASSUME NEW c \in Commands, TakeEffect(t, c) PROVE TypeOK'
  BY <1>1 DEF TakeEffect, CardAfter, TypeOK, durable, local
<1>2. ASSUME NEW c \in Commands, OrphanDies(t, c) PROVE TypeOK'
  BY <1>2 DEF OrphanDies, TypeOK, durable, local
<1>3. CASE BoardStep(t)
  BY <1>3 DEF BoardStep, BoardMoves, TypeOK, durable, local
<1> QED BY <1>1, <1>2, <1>3 DEF NativeStep

-----------------------------------------------------------------------------
(***************************************************************************)
(* The inductive invariant.  None of LockExclusive, OneWinner and OneEver  *)
(* is inductive alone: that a command is issued once follows from where    *)
(* the one process that handles the task is (Counts), that there is only   *)
(* one such process from the reservation it consumed (WorkStarted), and    *)
(* that a fresh intervention starts from nothing from Quiet.               *)
(***************************************************************************)

(* A running process holds its lock file. *)
LockHeld == \A p \in Procs : Running(p) => owner[LockOf[p]] = p

(* A working process has consumed the reservation of its task, whose        *)
(* intervention is still open, and its phase is one of the protocol.        *)
WorkStarted ==
    \A p \in Procs : Working(p) =>
        /\ reservation[at[p]] = "started"
        /\ ~Closed(at[p])
        /\ Rank[step[p]] <= Rank[LastPhase(kind[at[p]])]

(* The commands issued for a task in work are exactly those up to the phase *)
(* its process is in.                                                       *)
Counts ==
    \A p \in Procs : Working(p) =>
        \A c \in Commands :
            issued[at[p]][c] =
                IF Rank[c] < Rank[step[p]] \/ (c = step[p] /\ pc[p] # "issue") THEN 1 ELSE 0

(* Nothing has happened for a task whose intervention has not started. *)
Quiet ==
    \A t \in Tasks : reservation[t] # "started" =>
        /\ phase[t] = "none" /\ outcome[t] = "none"
        /\ \A c \in Commands : issued[t][c] = 0

AtMostOnce == \A t \in Tasks, c \in Commands : issued[t][c] \in {0, 1}

IInv ==
    /\ TypeOK
    /\ WorkHasTask
    /\ LockHeld
    /\ WorkStarted
    /\ OneWinner
    /\ Counts
    /\ Quiet
    /\ AtMostOnce

Core ==
    /\ WorkHasTask
    /\ WorkStarted
    /\ OneWinner
    /\ Counts
    /\ Quiet
    /\ AtMostOnce

LEMMA RankFacts ==
    /\ \A c \in Commands : Rank[c] \in 1 .. 4
    /\ \A c, d \in Commands : Rank[c] = Rank[d] => c = d
    /\ \A c \in Commands : c # "unblock" =>
            Following[c] \in Commands /\ Rank[Following[c]] = Rank[c] + 1
    /\ \A c \in Commands : Rank["subscription"] <= Rank[c] /\ Rank[c] <= Rank["unblock"]
    /\ \A k : LastPhase(k) \in Commands
<1>1. \A c \in Commands : Rank[c] \in 1 .. 4
  BY DEF Commands, Rank
<1>2. \A c, d \in Commands : Rank[c] = Rank[d] => c = d
  BY DEF Commands, Rank
<1>3. \A c \in Commands : c # "unblock" =>
            Following[c] \in Commands /\ Rank[Following[c]] = Rank[c] + 1
  BY DEF Commands, Rank, Following
<1>4. \A c \in Commands : Rank["subscription"] <= Rank[c] /\ Rank[c] <= Rank["unblock"]
  BY DEF Commands, Rank
<1>5. \A k : LastPhase(k) \in Commands
  BY DEF LastPhase, Commands
<1> QED BY <1>1, <1>2, <1>3, <1>4, <1>5

(* A step that touches no intervention and moves no working process. *)
LEMMA Frame ==
    ASSUME IInv,
           UNCHANGED <<reservation, kind, phase, outcome, issued>>,
           \A q \in Procs : Working(q)' =>
               /\ Working(q)
               /\ at'[q] = at[q] /\ step'[q] = step[q]
               /\ pc'[q] = "issue" <=> pc[q] = "issue"
    PROVE  Core'
<1>1. WorkHasTask'
  BY DEF IInv, WorkHasTask
<1>2. WorkStarted'
  BY DEF IInv, WorkStarted, Closed, LastPhase
<1>3. OneWinner'
  BY DEF IInv, OneWinner
<1>4. Counts'
  BY DEF IInv, Counts
<1>5. Quiet' /\ AtMostOnce'
  BY DEF IInv, Quiet, AtMostOnce
<1> QED BY <1>1, <1>2, <1>3, <1>4, <1>5 DEF Core

LEMMA GoneCore ==
    ASSUME IInv, NEW p \in Procs, Running(p), Gone(p)
    PROVE  Core' /\ LockHeld'
<1>1. \A q \in Procs : Working(q)' =>
         /\ Working(q)
         /\ at'[q] = at[q] /\ step'[q] = step[q]
         /\ pc'[q] = "issue" <=> pc[q] = "issue"
  BY DEF Gone, Working, IInv, TypeOK
<1>2. UNCHANGED <<reservation, kind, phase, outcome, issued>>
  BY DEF Gone, durable, native
<1>3. LockHeld'
  <2> SUFFICES ASSUME NEW q \in Procs, pc'[q] # "down"
               PROVE  owner'[LockOf[q]] = q
    BY DEF LockHeld, Running
  <2>1. q # p /\ pc[q] # "down"
    BY DEF Gone, IInv, TypeOK
  <2>2. owner[LockOf[q]] = q
    BY <2>1 DEF IInv, LockHeld, Running
  <2>3. owner[LockOf[p]] = p
    BY DEF IInv, LockHeld
  <2>4. owner' = [owner EXCEPT ![LockOf[p]] = NoProc] /\ LockOf[p] # LockOf[q]
    BY <2>1, <2>2, <2>3 DEF Gone
  <2> QED BY <2>2, <2>4, ConstantsAssumption DEF IInv, TypeOK
<1> QED BY <1>1, <1>2, <1>3, Frame

LEMMA AcquireInv ==
    ASSUME IInv, NEW p \in Procs, Acquire(p)
    PROVE  Core' /\ LockHeld'
<1>1. \A q \in Procs : Working(q)' =>
         /\ Working(q)
         /\ at'[q] = at[q] /\ step'[q] = step[q]
         /\ pc'[q] = "issue" <=> pc[q] = "issue"
  BY DEF Acquire, Working, IInv, TypeOK
<1>2. UNCHANGED <<reservation, kind, phase, outcome, issued>>
  BY DEF Acquire, durable, native
<1>3. ASSUME NEW q \in Procs, pc'[q] # "down"
      PROVE  owner'[LockOf[q]] = q
  <2>1. /\ owner' = [owner EXCEPT ![LockOf[p]] = p]
        /\ owner[LockOf[p]] = NoProc
        /\ owner \in [LockFiles -> Procs \cup {NoProc}]
    BY DEF Acquire, IInv, TypeOK
  <2>2. CASE q = p
    BY <2>1, <2>2, ConstantsAssumption
  <2>3. CASE q # p
    <3>1. owner[LockOf[q]] = q
      BY <1>3, <2>3 DEF Acquire, IInv, TypeOK, LockHeld, Running
    <3> QED BY <2>1, <3>1, ConstantsAssumption
  <2> QED BY <2>2, <2>3
<1> QED BY <1>1, <1>2, <1>3, Frame DEF LockHeld, Running

(* Steps of a running process that keep it running keep its lock. *)
LEMMA LockKept ==
    ASSUME IInv, UNCHANGED owner,
           \A q \in Procs : pc'[q] # "down" => pc[q] # "down"
    PROVE  LockHeld'
BY DEF IInv, LockHeld, Running

(* The actions of a process that never touch an intervention. *)
Idle(p) ==
    \/ RequestStop(p)
    \/ \E t \in Tasks : Look(p, t)
    \/ StartHandoff(p)
    \/ \E t \in Tasks : BeginRefused(p, t)
    \/ NextCycle(p)
    \/ ReturnOk(p)
    \/ ReturnError(p)

LEMMA IdleInv ==
    ASSUME IInv, NEW p \in Procs, Idle(p)
    PROVE  Core' /\ LockHeld'
<1>1. UNCHANGED <<reservation, kind, phase, outcome, issued, owner, at, step>>
  BY DEF Idle, RequestStop, Look, StartHandoff, BeginRefused, NextCycle, ReturnOk,
         ReturnError, durable, native
<1>2. \/ UNCHANGED pc
      \/ /\ pc[p] \in {"scan", "handoff"}
         /\ \E v \in {"scan", "handoff"} : pc' = [pc EXCEPT ![p] = v]
      \/ pc[p] = "wait" /\ pc' = [pc EXCEPT ![p] = "record"]
  BY DEF Idle, RequestStop, Look, StartHandoff, BeginRefused, NextCycle, ReturnOk,
         ReturnError
<1>3. \A q \in Procs :
         /\ Working(q)' => Working(q) /\ (pc'[q] = "issue" <=> pc[q] = "issue")
         /\ pc'[q] # "down" => pc[q] # "down"
  BY <1>2 DEF Working, IInv, TypeOK
<1> QED BY <1>1, <1>3, Frame, LockKept

LEMMA AbortScanInv ==
    ASSUME IInv, NEW p \in Procs, AbortScan(p)
    PROVE  Core' /\ LockHeld'
<1>1. CASE Role[p] = "daemon" /\ ~stop[p]
  <2>1. UNCHANGED <<reservation, kind, phase, outcome, issued, owner, pc, at, step>>
    BY <1>1 DEF AbortScan, durable, native
  <2> QED BY <2>1, Frame, LockKept DEF Working
<1>2. CASE ~(Role[p] = "daemon" /\ ~stop[p])
  BY <1>2, GoneCore DEF AbortScan, Running
<1> QED BY <1>1, <1>2

LEMMA NativeInv ==
    ASSUME IInv, NEW t \in Tasks, NativeStep(t)
    PROVE  Core' /\ LockHeld'
<1>1. UNCHANGED <<reservation, kind, phase, outcome, issued, owner, pc, at, step>>
  BY DEF NativeStep, TakeEffect, OrphanDies, BoardStep, durable, local
<1> QED BY <1>1, Frame, LockKept DEF Working

LEMMA ReserveSeenInv ==
    ASSUME IInv, NEW p \in Procs, ReserveSeen(p)
    PROVE  Core' /\ LockHeld'
<1> DEFINE u == seen[p].task
<1>1. u \in Tasks /\ seen[p].kind \in {"blocker", "child"}
  BY DEF ReserveSeen, IInv, TypeOK, Candidates
<1>2. UNCHANGED <<phase, outcome, issued, owner, pc, at, step>>
  BY DEF ReserveSeen, native
<1>3. CASE reservation[u] # "none"
  <2>1. UNCHANGED <<reservation, kind>>
    BY <1>3 DEF ReserveSeen, ReserveBlocker
  <2> QED BY <1>2, <2>1, Frame, LockKept DEF Working
<1>4. CASE reservation[u] = "none"
  <2>1. /\ reservation' = [reservation EXCEPT ![u] = "reserved"]
        /\ kind' = [kind EXCEPT ![u] = seen[p].kind]
    BY <1>4 DEF ReserveSeen, ReserveBlocker
  <2>2. \A t \in Tasks : t # u => reservation'[t] = reservation[t] /\ kind'[t] = kind[t]
    BY <2>1 DEF IInv, TypeOK
  <2>3. \A q \in Procs : Working(q) => at[q] \in Tasks /\ at[q] # u
    BY <1>4 DEF IInv, WorkStarted, WorkHasTask
  <2>4. WorkHasTask'
    BY <1>2 DEF IInv, WorkHasTask, Working
  <2>5. WorkStarted'
    BY <1>2, <2>2, <2>3 DEF IInv, WorkStarted, Working, Closed, LastPhase
  <2>6. OneWinner' /\ Counts'
    BY <1>2 DEF IInv, OneWinner, Counts, Working
  <2>7. Quiet'
    BY <1>2, <1>4, <2>2 DEF IInv, Quiet
  <2>8. AtMostOnce'
    BY <1>2 DEF IInv, AtMostOnce
  <2> QED BY <1>2, <2>4, <2>5, <2>6, <2>7, <2>8, LockKept DEF Core
<1> QED BY <1>3, <1>4

LEMMA BeginInv ==
    ASSUME IInv, NEW p \in Procs, NEW t \in Tasks, Begin(p, t)
    PROVE  Core' /\ LockHeld'
<1>1. /\ pc[p] = "handoff" /\ reservation[t] = "reserved"
      /\ reservation' = [reservation EXCEPT ![t] = "started"]
      /\ phase' = [phase EXCEPT ![t] = "started"]
      /\ at' = [at EXCEPT ![p] = t]
      /\ step' = [step EXCEPT ![p] = "subscription"]
      /\ pc' = [pc EXCEPT ![p] = "issue"]
      /\ UNCHANGED <<kind, outcome, issued, owner>>
  BY DEF Begin, native
<1>2. \A q \in Procs : q # p =>
         /\ pc'[q] = pc[q] /\ at'[q] = at[q] /\ step'[q] = step[q]
         /\ Working(q) => at[q] \in Tasks /\ at[q] # t
  BY <1>1 DEF IInv, TypeOK, WorkStarted, WorkHasTask
<1>3. pc'[p] = "issue" /\ at'[p] = t /\ step'[p] = "subscription"
  BY <1>1 DEF IInv, TypeOK
<1>4. \A u \in Tasks : u # t =>
         reservation'[u] = reservation[u] /\ phase'[u] = phase[u]
  BY <1>1 DEF IInv, TypeOK
<1>5. reservation'[t] = "started" /\ phase'[t] = "started"
  BY <1>1 DEF IInv, TypeOK
<1>6. outcome[t] = "none" /\ \A c \in Commands : issued[t][c] = 0
  BY <1>1 DEF IInv, Quiet
<1>7. WorkHasTask'
  BY <1>2, <1>3 DEF IInv, WorkHasTask, Working
<1>8. WorkStarted'
  <2>1. ASSUME NEW q \in Procs, Working(q)', q # p
        PROVE  /\ reservation'[at'[q]] = "started" /\ ~Closed(at[q])'
               /\ Rank[step'[q]] <= Rank[LastPhase(kind'[at'[q]])]
    BY <2>1, <1>1, <1>2, <1>4 DEF IInv, WorkStarted, Working, Closed
  <2>2. /\ reservation'[at'[p]] = "started"
        /\ outcome'[at'[p]] # "error" /\ phase'[at'[p]] # "complete"
        /\ Rank[step'[p]] <= Rank[LastPhase(kind'[at'[p]])]
    BY <1>1, <1>3, <1>5, <1>6, RankFacts
  <2> QED BY <2>1, <2>2, <1>2 DEF WorkStarted, Closed
<1>9. OneWinner'
  BY <1>2, <1>3 DEF IInv, OneWinner, Working
<1>10. Counts'
  <2>1. ASSUME NEW q \in Procs, Working(q)', q # p, NEW c \in Commands
        PROVE  issued'[at'[q]][c] =
                  IF Rank[c] < Rank[step'[q]] \/ (c = step'[q] /\ pc'[q] # "issue")
                  THEN 1 ELSE 0
    BY <2>1, <1>1, <1>2 DEF IInv, Counts, Working
  <2>2. ASSUME NEW c \in Commands
        PROVE  issued'[at'[p]][c] =
                  IF Rank[c] < Rank[step'[p]] \/ (c = step'[p] /\ pc'[p] # "issue")
                  THEN 1 ELSE 0
    <3>1. ~(Rank[c] < Rank["subscription"])
      BY DEF Rank, Commands
    <3> QED BY <3>1, <1>1, <1>3, <1>6
  <2> QED BY <2>1, <2>2 DEF Counts
<1>11. Quiet'
  BY <1>1, <1>4, <1>5 DEF IInv, Quiet
<1>12. AtMostOnce'
  BY <1>1 DEF IInv, AtMostOnce
<1>13. LockHeld'
  BY <1>1, <1>2, LockKept
<1> QED BY <1>7, <1>8, <1>9, <1>10, <1>11, <1>12, <1>13 DEF Core

LEMMA IssueInv ==
    ASSUME IInv, NEW p \in Procs, IssueCommand(p)
    PROVE  Core' /\ LockHeld'
<1> DEFINE t == at[p]
<1>1. /\ pc[p] = "issue" /\ pc' = [pc EXCEPT ![p] = "wait"]
      /\ issued' = [issued EXCEPT ![t][step[p]] = @ + 1]
      /\ UNCHANGED <<reservation, kind, phase, outcome, owner, at, step>>
  BY DEF IssueCommand, durable
<1>2. t \in Tasks /\ step[p] \in Commands
  BY <1>1 DEF IInv, WorkHasTask, Working, TypeOK
<1>3. \A q \in Procs : Working(q)' <=> Working(q)
  BY <1>1 DEF Working, IInv, TypeOK
<1>4. \A q \in Procs : q # p /\ Working(q) => pc'[q] = pc[q] /\ at[q] # t
  BY <1>1 DEF IInv, TypeOK, OneWinner, Working
<1>5. pc'[p] = "wait"
  BY <1>1 DEF IInv, TypeOK
<1>6. \A u \in Tasks : u # t => issued'[u] = issued[u]
  BY <1>1, <1>2 DEF IInv, TypeOK
<1>7. \A c \in Commands : c # step[p] => issued'[t][c] = issued[t][c]
  BY <1>1, <1>2 DEF IInv, TypeOK
<1>8. issued[t][step[p]] = 0
  <2>1. ~(Rank[step[p]] < Rank[step[p]])
    BY <1>2, RankFacts
  <2> QED BY <2>1, <1>1, <1>2 DEF IInv, Counts, Working
<1>9. issued'[t][step[p]] = 1
  BY <1>1, <1>2, <1>8 DEF IInv, TypeOK
<1>10. WorkHasTask' /\ OneWinner'
  BY <1>1, <1>3 DEF IInv, WorkHasTask, OneWinner
<1>11. WorkStarted'
  BY <1>1, <1>3 DEF IInv, WorkStarted, Closed, LastPhase
<1>12. Counts'
  <2>1. ASSUME NEW q \in Procs, Working(q), q # p, NEW c \in Commands
        PROVE  issued'[at'[q]][c] =
                  IF Rank[c] < Rank[step'[q]] \/ (c = step'[q] /\ pc'[q] # "issue")
                  THEN 1 ELSE 0
    BY <2>1, <1>1, <1>4, <1>6 DEF IInv, Counts, WorkHasTask
  <2>2. ASSUME NEW c \in Commands
        PROVE  issued'[t][c] =
                  IF Rank[c] < Rank[step[p]] \/ c = step[p] THEN 1 ELSE 0
    BY <1>1, <1>7, <1>9 DEF IInv, Counts, Working
  <2> QED BY <2>1, <2>2, <1>1, <1>3, <1>5 DEF Counts
<1>13. Quiet'
  <2>1. reservation[t] = "started"
    BY <1>1 DEF IInv, WorkStarted, Working
  <2> QED BY <2>1, <1>1, <1>6 DEF IInv, Quiet
<1>14. AtMostOnce'
  BY <1>6, <1>7, <1>9 DEF IInv, AtMostOnce
<1>15. LockHeld'
  BY <1>1, LockKept DEF IInv, TypeOK
<1> QED BY <1>10, <1>11, <1>12, <1>13, <1>14, <1>15 DEF Core

(* A working process writes the row of its task and leaves it, or goes on  *)
(* to another phase with the commands issued that phase expects.           *)
LEMMA RowWritten ==
    ASSUME IInv, NEW p \in Procs, Working(p),
           UNCHANGED <<reservation, kind, issued, owner>>,
           \A u \in Tasks : u # at[p] => phase'[u] = phase[u] /\ outcome'[u] = outcome[u],
           \A q \in Procs : q # p =>
               pc'[q] = pc[q] /\ at'[q] = at[q] /\ step'[q] = step[q],
           pc'[p] # "down",
           Working(p)' =>
               /\ at'[p] = at[p] /\ ~Closed(at[p])'
               /\ Rank[step'[p]] <= Rank[LastPhase(kind[at[p]])]
               /\ \A c \in Commands :
                     issued[at[p]][c] =
                         IF Rank[c] < Rank[step'[p]] \/ (c = step'[p] /\ pc'[p] # "issue")
                         THEN 1 ELSE 0
    PROVE  Core' /\ LockHeld'
<1>1. \A q \in Procs : q # p /\ Working(q)' =>
         Working(q) /\ at[q] \in Tasks /\ at[q] # at[p]
  BY DEF IInv, OneWinner, WorkHasTask, Working
<1>2. at[p] \in Tasks /\ reservation[at[p]] = "started"
  BY DEF IInv, WorkHasTask, WorkStarted
<1>3. WorkHasTask'
  <2>1. ASSUME NEW q \in Procs, Working(q)' PROVE at'[q] \in Tasks
    BY <2>1, <1>1, <1>2
  <2> QED BY <2>1 DEF WorkHasTask
<1>4. WorkStarted'
  <2>1. ASSUME NEW q \in Procs, Working(q)', q # p
        PROVE  /\ reservation'[at'[q]] = "started"
               /\ outcome'[at'[q]] # "error" /\ phase'[at'[q]] # "complete"
               /\ Rank[step'[q]] <= Rank[LastPhase(kind'[at'[q]])]
    BY <2>1, <1>1 DEF IInv, WorkStarted, Closed
  <2>2. ASSUME Working(p)'
        PROVE  /\ reservation'[at'[p]] = "started"
               /\ outcome'[at'[p]] # "error" /\ phase'[at'[p]] # "complete"
               /\ Rank[step'[p]] <= Rank[LastPhase(kind'[at'[p]])]
    BY <2>2, <1>2 DEF Closed
  <2> QED BY <2>1, <2>2 DEF WorkStarted, Closed
<1>5. OneWinner'
  <2>1. ASSUME NEW q \in Procs, NEW r \in Procs, Working(q)', Working(r)',
               at'[q] = at'[r], q # r
        PROVE  FALSE
    BY <2>1, <1>1 DEF IInv, OneWinner
  <2> QED BY <2>1 DEF OneWinner
<1>6. Counts'
  <2>1. ASSUME NEW q \in Procs, Working(q)', q # p, NEW c \in Commands
        PROVE  issued'[at'[q]][c] =
                  IF Rank[c] < Rank[step'[q]] \/ (c = step'[q] /\ pc'[q] # "issue")
                  THEN 1 ELSE 0
    BY <2>1, <1>1 DEF IInv, Counts
  <2>2. ASSUME Working(p)', NEW c \in Commands
        PROVE  issued'[at'[p]][c] =
                  IF Rank[c] < Rank[step'[p]] \/ (c = step'[p] /\ pc'[p] # "issue")
                  THEN 1 ELSE 0
    BY <2>2
  <2> QED BY <2>1, <2>2 DEF Counts
<1>7. Quiet' /\ AtMostOnce'
  BY <1>2 DEF IInv, Quiet, AtMostOnce
<1>8. LockHeld'
  <2>1. \A q \in Procs : pc'[q] # "down" => pc[q] # "down"
    BY DEF Working
  <2> QED BY <2>1, LockKept
<1> QED BY <1>3, <1>4, <1>5, <1>6, <1>7, <1>8 DEF Core

LEMMA RecordInv ==
    ASSUME IInv, NEW p \in Procs, Record(p)
    PROVE  Core' /\ LockHeld'
<1> DEFINE t == at[p]
<1>1. /\ pc[p] = "record" /\ AfterRecord(p, rc[p])
      /\ phase' = [phase EXCEPT ![t] = step[p]]
      /\ outcome' = [outcome EXCEPT ![t] = rc[p]]
      /\ UNCHANGED <<reservation, kind, issued, owner>>
  BY DEF Record, native
<1>2. Working(p)
  BY <1>1 DEF Working
<1>3. t \in Tasks /\ step[p] \in Commands
  BY <1>2 DEF IInv, WorkHasTask, TypeOK
<1>4. \A u \in Tasks : u # t => phase'[u] = phase[u] /\ outcome'[u] = outcome[u]
  BY <1>1 DEF IInv, TypeOK
<1>5. phase'[t] = step[p] /\ outcome'[t] = rc[p] /\ step[p] # "complete"
  BY <1>1, <1>3 DEF IInv, TypeOK, Commands
<1>6. \A c \in Commands :
        issued[t][c] = IF Rank[c] < Rank[step[p]] \/ c = step[p] THEN 1 ELSE 0
  BY <1>1, <1>2 DEF IInv, Counts
<1>7. Rank[step[p]] <= Rank[LastPhase(kind[t])]
  BY <1>2 DEF IInv, WorkStarted
<1>8. CASE BackToQueue(p)
  <2>1. \A q \in Procs : q # p =>
            pc'[q] = pc[q] /\ at'[q] = at[q] /\ step'[q] = step[q]
    BY <1>8 DEF BackToQueue, IInv, TypeOK
  <2>2. pc'[p] = "handoff"
    BY <1>8 DEF BackToQueue, IInv, TypeOK
  <2>3. ~Working(p)' /\ pc'[p] # "down"
    BY <2>2 DEF Working
  <2> QED BY <1>1, <1>2, <1>4, <2>1, <2>3, RowWritten
<1>9. CASE /\ rc[p] = "ok" /\ pc' = [pc EXCEPT ![p] = "finish"]
           /\ UNCHANGED <<at, step>>
  <2>1. pc'[p] = "finish" /\ \A q \in Procs : q # p => pc'[q] = pc[q]
    BY <1>9 DEF IInv, TypeOK
  <2>2. ~Closed(t)'
    BY <1>5, <1>9 DEF Closed
  <2> QED BY <1>1, <1>2, <1>4, <1>6, <1>7, <1>9, <2>1, <2>2, RowWritten
<1>10. CASE /\ rc[p] = "ok" /\ step[p] # LastPhase(kind[t])
            /\ pc' = [pc EXCEPT ![p] = "issue"]
            /\ step' = [step EXCEPT ![p] = Following[step[p]]]
            /\ UNCHANGED at
  <2>1. /\ pc'[p] = "issue" /\ step'[p] = Following[step[p]]
        /\ \A q \in Procs : q # p => pc'[q] = pc[q] /\ step'[q] = step[q]
    BY <1>10 DEF IInv, TypeOK
  <2>2. ~Closed(t)'
    BY <1>5, <1>10 DEF Closed
  <2>3. Rank[step[p]] # Rank[LastPhase(kind[t])]
    BY <1>3, <1>10, RankFacts
  <2>4. Rank[step[p]] < Rank[LastPhase(kind[t])]
    BY <1>3, <1>7, <2>3, RankFacts
  <2>5. step[p] # "unblock"
    BY <1>3, <2>4, RankFacts
  <2>6. Rank[Following[step[p]]] = Rank[step[p]] + 1
    BY <1>3, <2>5, RankFacts
  <2>7. Rank[Following[step[p]]] <= Rank[LastPhase(kind[t])]
    BY <1>3, <2>4, <2>6, RankFacts
  <2>8. \A c \in Commands :
          (Rank[c] < Rank[step[p]] \/ c = step[p]) <=> Rank[c] < Rank[Following[step[p]]]
    BY <1>3, <2>6, RankFacts
  <2>9. \A c \in Commands :
          issued[t][c] = IF Rank[c] < Rank[Following[step[p]]] THEN 1 ELSE 0
    BY <1>6, <2>8
  <2> QED BY <1>1, <1>2, <1>4, <1>10, <2>1, <2>2, <2>7, <2>9, RowWritten
<1> QED BY <1>1, <1>8, <1>9, <1>10 DEF AfterRecord

LEMMA FinishInv ==
    ASSUME IInv, NEW p \in Procs, Finish(p)
    PROVE  Core' /\ LockHeld'
<1>1. /\ pc[p] = "finish" /\ BackToQueue(p)
      /\ UNCHANGED <<reservation, kind, issued, owner>>
  BY DEF Finish, native
<1>2. Working(p)
  BY <1>1 DEF Working
<1>3. \A u \in Tasks : u # at[p] => phase'[u] = phase[u] /\ outcome'[u] = outcome[u]
  BY DEF Finish, IInv, TypeOK
<1>4. \A q \in Procs : q # p =>
          pc'[q] = pc[q] /\ at'[q] = at[q] /\ step'[q] = step[q]
  BY <1>1 DEF BackToQueue, IInv, TypeOK
<1>5. pc'[p] = "handoff"
  BY <1>1 DEF BackToQueue, IInv, TypeOK
<1>6. ~Working(p)' /\ pc'[p] # "down"
  BY <1>5 DEF Working
<1> QED BY <1>1, <1>2, <1>3, <1>4, <1>6, RowWritten

-----------------------------------------------------------------------------
(* The invariant is established, kept, and implies the properties. *)

LEMMA InitIInv == Init => IInv
<1> SUFFICES ASSUME Init PROVE IInv
  OBVIOUS
<1>1. TypeOK
  BY InitTypeOK
<1>2. \A p \in Procs : ~Working(p) /\ ~Running(p)
  BY DEF Init, Working, Running
<1>3. Quiet /\ AtMostOnce
  BY DEF Init, Quiet, AtMostOnce
<1> QED
  BY <1>1, <1>2, <1>3
     DEF IInv, WorkHasTask, LockHeld, WorkStarted, OneWinner, Counts

LEMMA StepIInv ==
    ASSUME IInv, NEW p \in Procs, Step(p)
    PROVE  IInv'
<1>1. TypeOK'
  BY ScanTypeOK, HandoffTypeOK, CommandTypeOK DEF Step, IInv
<1>2. Core' /\ LockHeld'
  <2>1. CASE Idle(p)
    BY <2>1, IdleInv
  <2>2. CASE ReserveSeen(p)
    BY <2>2, ReserveSeenInv
  <2>3. CASE LeaveScan(p) \/ LeaveHandoff(p)
    BY <2>3, GoneCore DEF LeaveScan, LeaveHandoff, Running
  <2>4. ASSUME NEW t \in Tasks, Begin(p, t) PROVE Core' /\ LockHeld'
    BY <2>4, BeginInv
  <2>5. CASE IssueCommand(p)
    BY <2>5, IssueInv
  <2>6. CASE Record(p)
    BY <2>6, RecordInv
  <2>7. CASE Finish(p)
    BY <2>7, FinishInv
  <2> QED BY <2>1, <2>2, <2>3, <2>4, <2>5, <2>6, <2>7 DEF Step, Idle
<1> QED BY <1>1, <1>2 DEF IInv, Core

LEMMA NextIInv == IInv /\ [Next]_vars => IInv'
<1> SUFFICES ASSUME IInv, [Next]_vars PROVE IInv'
  OBVIOUS
<1>1. ASSUME NEW p \in Procs, Acquire(p) PROVE IInv'
  <2>1. TypeOK'
    BY <1>1, InterruptTypeOK DEF IInv
  <2> QED BY <1>1, <2>1, AcquireInv DEF IInv, Core
<1>2. ASSUME NEW p \in Procs, Step(p) PROVE IInv'
  BY <1>2, StepIInv
<1>3. ASSUME NEW p \in Procs, Interrupt(p) PROVE IInv'
  <2>1. TypeOK'
    BY <1>3, InterruptTypeOK DEF IInv
  <2>2. CASE Crash(p)
    BY <2>1, <2>2, GoneCore DEF Crash, IInv, Core
  <2>3. CASE RequestStop(p)
    BY <2>1, <2>3, IdleInv DEF Idle, IInv, Core
  <2>4. CASE AbortScan(p)
    BY <2>1, <2>4, AbortScanInv DEF IInv, Core
  <2> QED BY <1>3, <2>2, <2>3, <2>4 DEF Interrupt
<1>4. ASSUME NEW t \in Tasks, NativeStep(t) PROVE IInv'
  <2>1. TypeOK'
    BY <1>4, NativeTypeOK DEF IInv
  <2> QED BY <1>4, <2>1, NativeInv DEF IInv, Core
<1>5. CASE UNCHANGED vars
  <2>1. UNCHANGED <<reservation, kind, phase, outcome, issued, owner, pc, at, step>>
    BY <1>5 DEF vars, durable, native, local
  <2>2. Candidates' = Candidates
    BY DEF Candidates, NoCandidate
  <2>3. TypeOK'
    BY <1>5, <2>2 DEF IInv, TypeOK, vars, durable, native, local
  <2> QED BY <2>1, <2>3, Frame, LockKept DEF Working, IInv, Core
<1> QED BY <1>1, <1>2, <1>3, <1>4, <1>5 DEF Next

LEMMA Invariance == Spec => []IInv
<1> QED BY InitIInv, NextIInv, PTL DEF Spec

(* Every variable of the pipeline stays in its domain, for all instances. *)
THEOREM TypeCorrect == Spec => []TypeOK
<1>1. IInv => TypeOK
  BY DEF IInv
<1> QED BY Invariance, <1>1, PTL

(* The instance lock excludes: two processes on one lock file never run     *)
(* together, whatever crashed or was stopped before (InstanceLock).         *)
THEOREM LockExclusion == Spec => []LockExclusive
<1>1. IInv => LockExclusive
  BY DEF IInv, LockHeld, LockExclusive
<1> QED BY Invariance, <1>1, PTL

(* No two processes ever work on the same task, whatever lock files they    *)
(* use (begin_intervention).                                                *)
THEOREM SingleWinner == Spec => []OneWinner
<1>1. IInv => OneWinner
  BY DEF IInv
<1> QED BY Invariance, <1>1, PTL

(* The one-ever rule, for any number of processes, tasks, crashes, restarts *)
(* and failed commands: no native handoff command is started twice for a    *)
(* task, and none before its reservation was consumed.                      *)
THEOREM OneEverAlways == Spec => []OneEver
<1>1. IInv => OneEver
  <2> SUFFICES ASSUME IInv, NEW t \in Tasks, NEW c \in Commands
               PROVE  /\ issued[t][c] <= 1
                      /\ issued[t][c] = 1 => reservation[t] = "started"
    BY DEF OneEver
  <2>1. issued[t][c] \in {0, 1}
    BY DEF IInv, AtMostOnce
  <2>2. reservation[t] # "started" => issued[t][c] = 0
    BY DEF IInv, Quiet
  <2> QED BY <2>1, <2>2
<1> QED BY Invariance, <1>1, PTL

-----------------------------------------------------------------------------
(* An intervention nobody works on is not taken up again: a row and the     *)
(* commands of a task change only by the process that works on it, and a    *)
(* started reservation never becomes a reservation again.                   *)

LEMMA OnlyWorkersWrite ==
    ASSUME IInv, [Next]_vars, NEW t \in Tasks,
           reservation[t] = "started", \A p \in Procs : Working(p) => at[p] # t
    PROVE  /\ reservation'[t] = "started"
           /\ phase'[t] = phase[t] /\ outcome'[t] = outcome[t]
           /\ issued'[t] = issued[t]
<1>1. ASSUME NEW p \in Procs, IssueCommand(p) \/ Record(p) \/ Finish(p)
      PROVE  /\ UNCHANGED reservation
             /\ phase'[t] = phase[t] /\ outcome'[t] = outcome[t]
             /\ issued'[t] = issued[t]
  <2>1. at[p] # t
    BY <1>1 DEF IssueCommand, Record, Finish, Working
  <2> QED BY <1>1, <2>1 DEF IssueCommand, Record, Finish, durable, native, IInv, TypeOK
<1>2. ASSUME NEW p \in Procs, ReserveSeen(p)
      PROVE  reservation'[t] = "started" /\ UNCHANGED <<phase, outcome, issued>>
  BY <1>2 DEF ReserveSeen, ReserveBlocker, native, IInv, TypeOK
<1>3. ASSUME NEW p \in Procs, NEW u \in Tasks, Begin(p, u)
      PROVE  /\ reservation'[t] = "started" /\ phase'[t] = phase[t]
             /\ UNCHANGED <<outcome, issued>>
  BY <1>3 DEF Begin, native, IInv, TypeOK
<1>4. ASSUME NEW p \in Procs,
             Acquire(p) \/ Crash(p) \/ AbortScan(p) \/ LeaveScan(p) \/ LeaveHandoff(p) \/ Idle(p)
      PROVE  UNCHANGED <<reservation, phase, outcome, issued>>
  BY <1>4 DEF Acquire, Crash, AbortScan, LeaveScan, LeaveHandoff, Gone, Idle, RequestStop, Look,
              StartHandoff, BeginRefused, NextCycle, ReturnOk, ReturnError, durable, native
<1>5. ASSUME NEW u \in Tasks, NativeStep(u)
      PROVE  UNCHANGED <<reservation, phase, outcome, issued>>
  BY <1>5 DEF NativeStep, TakeEffect, OrphanDies, BoardStep, durable
<1>6. CASE UNCHANGED vars
  BY <1>6 DEF vars, durable, native
<1> QED
  BY <1>1, <1>2, <1>3, <1>4, <1>5, <1>6 DEF Next, Step, Interrupt, Idle

(* A started intervention whose process crashed, failed or finished is      *)
(* never retried, for any number of processes and restarts.                 *)
THEOREM NeverTakenUpAgain == Spec => NeverResumed
<1>1. IInv /\ [Next]_vars =>
        [\A t \in Tasks :
            reservation[t] = "started" /\ (\A p \in Procs : Working(p) => at[p] # t)
            => /\ reservation'[t] = "started"
               /\ phase'[t] = phase[t] /\ outcome'[t] = outcome[t]
               /\ issued'[t] = issued[t]]_vars
  BY OnlyWorkersWrite
<1> QED BY <1>1, Invariance, PTL DEF Spec, NeverResumed

-----------------------------------------------------------------------------
(* What a row says is true of the board.  RowTellsTheBoard needs to know    *)
(* where in its protocol the process of an open row is (RowMatches), and    *)
(* that a command that is no longer in flight, or returned without an       *)
(* error, has taken effect (TookEffect).                                    *)

RowMatches ==
    \A p \in Procs : Working(p) =>
        /\ Recorded(at[p]) + (IF pc[p] = "finish" THEN 0 ELSE 1) = Rank[step[p]]
        /\ pc[p] = "finish" => step[p] = LastPhase(kind[at[p]])
        /\ Recorded(at[p]) > 0 => outcome[at[p]] = "ok"

Returned(p) ==
    \/ pc[p] = "wait" /\ step[p] \notin inflight[at[p]]
    \/ pc[p] = "record" /\ rc[p] = "ok"

TookEffect == \A p \in Procs : Returned(p) => step[p] \in took[at[p]]

RowIsTrue(t) ==
    /\ outcome[t] = "ok" =>
           \A c \in Commands : Rank[c] <= Recorded(t) => c \in took[t]
    /\ \A c \in Commands : issued[t][c] > 0 => Rank[c] <= Recorded(t) + 1
    /\ outcome[t] = "error" =>
           \A c \in Commands : Rank[c] > Recorded(t) => issued[t][c] = 0

RowInv ==
    /\ RowMatches
    /\ TookEffect
    /\ \A t \in Tasks : RowIsTrue(t)

LEMMA RecordedType ==
    ASSUME NEW t \in Tasks
    PROVE  Recorded(t) \in 0 .. 4
BY RankFacts DEF Recorded

(* A row that is not written stays true while more commands take effect. *)
LEMMA RowStaysTrue ==
    ASSUME NEW t \in Tasks, RowIsTrue(t),
           phase'[t] = phase[t], outcome'[t] = outcome[t], issued'[t] = issued[t],
           phase[t] = "complete" => kind'[t] = kind[t],
           took[t] \subseteq took'[t]
    PROVE  RowIsTrue(t)' /\ Recorded(t)' = Recorded(t)
<1>1. Recorded(t)' = Recorded(t)
  BY DEF Recorded, LastPhase
<1> QED BY <1>1 DEF RowIsTrue

(* Steps that write no row and start no command.                            *)
LEMMA RowFrame ==
    ASSUME IInv, RowInv,
           UNCHANGED <<kind, phase, outcome, issued>>,
           \A t \in Tasks : took[t] \subseteq took'[t],
           \A q \in Procs : Working(q)' =>
               /\ Working(q)
               /\ at'[q] = at[q] /\ step'[q] = step[q]
               /\ pc'[q] = "finish" <=> pc[q] = "finish",
           \A q \in Procs : Returned(q)' => Returned(q) \/ step'[q] \in took'[at'[q]]
    PROVE  RowInv'
<1>1. \A t \in Tasks : RowIsTrue(t)' /\ Recorded(t)' = Recorded(t)
  BY RowStaysTrue DEF RowInv
<1>2. RowMatches'
  BY <1>1 DEF RowInv, RowMatches, IInv, WorkHasTask, LastPhase
<1>3. TookEffect'
  <2> SUFFICES ASSUME NEW q \in Procs, Returned(q)', Returned(q)
               PROVE  step'[q] \in took'[at'[q]]
    BY DEF TookEffect
  <2>1. Working(q)'
    BY DEF Returned, Working
  <2>2. at'[q] = at[q] /\ step'[q] = step[q] /\ at[q] \in Tasks
    BY <2>1 DEF IInv, WorkHasTask
  <2> QED BY <2>2 DEF RowInv, TookEffect
<1> QED BY <1>1, <1>2, <1>3 DEF RowInv

LEMMA QuietRows ==
    ASSUME IInv, RowInv, NEW p \in Procs,
           Acquire(p) \/ Crash(p) \/ AbortScan(p) \/ LeaveScan(p) \/ LeaveHandoff(p)
    PROVE  RowInv'
<1>1. UNCHANGED <<kind, phase, outcome, issued, took, inflight>>
  BY DEF Acquire, Crash, AbortScan, LeaveScan, LeaveHandoff, Gone, durable, native
<1>2. \A q \in Procs : q # p =>
         pc'[q] = pc[q] /\ at'[q] = at[q] /\ step'[q] = step[q] /\ rc'[q] = rc[q]
  BY DEF Acquire, Crash, AbortScan, LeaveScan, LeaveHandoff, Gone, IInv, TypeOK
<1>3. pc'[p] \in {"down", "scan"}
  BY DEF Acquire, Crash, AbortScan, LeaveScan, LeaveHandoff, Gone, IInv, TypeOK
<1>4. ~Working(p)' /\ ~Returned(p)'
  BY <1>3 DEF Working, Returned
<1> QED BY <1>1, <1>2, <1>4, RowFrame DEF Working, Returned

LEMMA IdleRows ==
    ASSUME IInv, RowInv, NEW p \in Procs, Idle(p)
    PROVE  RowInv'
<1>1. /\ UNCHANGED <<kind, phase, outcome, issued, took, at, step>>
      /\ \A q \in Procs : q # p => pc'[q] = pc[q] /\ rc'[q] = rc[q]
  BY DEF Idle, RequestStop, Look, StartHandoff, BeginRefused, NextCycle, ReturnOk,
         ReturnError, durable, native, IInv, TypeOK
<1>2. CASE ReturnOk(p)
  <2>1. pc[p] = "wait" /\ pc'[p] = "record" /\ Returned(p) /\ UNCHANGED inflight
    BY <1>2 DEF ReturnOk, Returned, native, IInv, TypeOK
  <2> QED BY <1>1, <2>1, RowFrame DEF Working, Returned
<1>3. CASE ReturnError(p)
  <2>1. pc[p] = "wait" /\ pc'[p] = "record" /\ rc'[p] = "error"
    BY <1>3 DEF ReturnError, IInv, TypeOK
  <2>2. \A q \in Procs : q # p /\ pc[q] = "wait" => at[q] # at[p]
    BY <2>1 DEF IInv, OneWinner, Working
  <2>3. \A q \in Procs : q # p /\ pc[q] = "wait" => inflight'[at[q]] = inflight[at[q]]
    BY <1>3, <2>2 DEF ReturnError, IInv, TypeOK, WorkHasTask, Working
  <2> QED BY <1>1, <2>1, <2>3, RowFrame DEF Working, Returned
<1>4. CASE ~ReturnOk(p) /\ ~ReturnError(p)
  <2>1. UNCHANGED <<inflight, rc>>
    BY <1>4 DEF Idle, RequestStop, Look, StartHandoff, BeginRefused, NextCycle, native
  <2>2. \A q \in Procs : Working(q)' => pc'[q] = pc[q]
    BY <1>4 DEF Idle, RequestStop, Look, StartHandoff, BeginRefused, NextCycle, Working,
                IInv, TypeOK
  <2> QED BY <1>1, <2>1, <2>2, RowFrame DEF Working, Returned
<1> QED BY <1>2, <1>3, <1>4

LEMMA NativeRows ==
    ASSUME IInv, RowInv, NEW t \in Tasks, NativeStep(t)
    PROVE  RowInv'
<1>1. UNCHANGED <<kind, phase, outcome, issued, pc, at, step, rc>>
  BY DEF NativeStep, TakeEffect, OrphanDies, BoardStep, durable, local
<1>2. \A u \in Tasks : took[u] \subseteq took'[u]
  <2>1. ASSUME NEW c \in Commands, TakeEffect(t, c), NEW u \in Tasks
        PROVE  took[u] \subseteq took'[u]
    BY <2>1 DEF TakeEffect, IInv, TypeOK
  <2>2. ASSUME NEW c \in Commands, OrphanDies(t, c) PROVE took' = took
    BY <2>2 DEF OrphanDies
  <2>3. CASE BoardStep(t)
    BY <2>3 DEF BoardStep
  <2> QED BY <2>1, <2>2, <2>3 DEF NativeStep
<1>3. ASSUME NEW q \in Procs, pc[q] = "wait", step[q] \in inflight[at[q]],
             step[q] \notin inflight'[at[q]]
      PROVE  step[q] \in took'[at[q]]
  <2>1. at[q] \in Tasks
    BY <1>3 DEF IInv, WorkHasTask, Working
  <2>2. ASSUME NEW c \in Commands, TakeEffect(t, c) PROVE step[q] \in took'[at[q]]
    BY <1>3, <2>1, <2>2 DEF TakeEffect, IInv, TypeOK
  <2>3. ASSUME NEW c \in Commands, OrphanDies(t, c) PROVE FALSE
    BY <1>3, <2>1, <2>3 DEF OrphanDies, IInv, TypeOK
  <2>4. CASE BoardStep(t)
    BY <1>3, <2>4 DEF BoardStep
  <2> QED BY <2>2, <2>3, <2>4 DEF NativeStep
<1> QED BY <1>1, <1>2, <1>3, RowFrame DEF Working, Returned

LEMMA ReserveSeenRows ==
    ASSUME IInv, RowInv, NEW p \in Procs, ReserveSeen(p)
    PROVE  RowInv'
<1> DEFINE u == seen[p].task
<1>1. u \in Tasks /\ UNCHANGED <<phase, outcome, issued, took, inflight, pc, at, step, rc>>
  BY DEF ReserveSeen, native, IInv, TypeOK, Candidates
<1>2. CASE reservation[u] # "none"
  <2>1. UNCHANGED kind
    BY <1>2 DEF ReserveSeen, ReserveBlocker
  <2> QED BY <1>1, <2>1, RowFrame DEF Working, Returned
<1>3. CASE reservation[u] = "none"
  <2>1. \A t \in Tasks : t # u => kind'[t] = kind[t]
    BY <1>3 DEF ReserveSeen, ReserveBlocker, IInv, TypeOK
  <2>2. phase[u] = "none"
    BY <1>1, <1>3 DEF IInv, Quiet
  <2>3. \A t \in Tasks : RowIsTrue(t)' /\ Recorded(t)' = Recorded(t)
    BY <1>1, <2>1, <2>2, RowStaysTrue DEF RowInv
  <2>4. \A q \in Procs : Working(q) => at[q] \in Tasks /\ at[q] # u
    BY <1>3 DEF IInv, WorkStarted, WorkHasTask
  <2>5. RowMatches'
    BY <1>1, <2>1, <2>3, <2>4 DEF RowInv, RowMatches, Working, LastPhase
  <2>6. TookEffect'
    BY <1>1 DEF RowInv, TookEffect, Returned
  <2> QED BY <2>3, <2>5, <2>6 DEF RowInv
<1> QED BY <1>2, <1>3

(* A step of the process of task t that touches no row but that of t. *)
LEMMA RowOfWorker ==
    ASSUME IInv, RowInv, NEW p \in Procs, NEW t \in Tasks,
           UNCHANGED <<kind, took>>,
           \A q \in Procs : q # p =>
               /\ pc'[q] = pc[q] /\ at'[q] = at[q] /\ step'[q] = step[q] /\ rc'[q] = rc[q]
               /\ Working(q) => at[q] # t,
           \A u \in Tasks : u # t =>
               /\ phase'[u] = phase[u] /\ outcome'[u] = outcome[u] /\ issued'[u] = issued[u]
               /\ inflight'[u] = inflight[u],
           RowIsTrue(t)',
           Working(p)' =>
               /\ at'[p] = t
               /\ Recorded(t)' + (IF pc'[p] = "finish" THEN 0 ELSE 1) = Rank[step'[p]]
               /\ pc'[p] = "finish" => step'[p] = LastPhase(kind[t])
               /\ Recorded(t)' > 0 => outcome'[t] = "ok",
           ~Returned(p)'
    PROVE  RowInv'
<1>1. \A u \in Tasks : u # t => RowIsTrue(u)' /\ Recorded(u)' = Recorded(u)
  BY RowStaysTrue DEF RowInv
<1>2. \A q \in Procs : q # p /\ Working(q)' => Working(q) /\ at[q] \in Tasks /\ at[q] # t
  BY DEF Working, IInv, WorkHasTask
<1>3. RowMatches'
  <2>1. ASSUME NEW q \in Procs, Working(q)', q # p
        PROVE  /\ Recorded(at[q])' + (IF pc'[q] = "finish" THEN 0 ELSE 1) = Rank[step'[q]]
               /\ pc'[q] = "finish" => step'[q] = LastPhase(kind'[at'[q]])
               /\ Recorded(at[q])' > 0 => outcome'[at'[q]] = "ok"
    <3>1. Working(q) /\ at[q] \in Tasks /\ at[q] # t /\ at'[q] = at[q]
      BY <1>2, <2>1
    <3>2. Recorded(at[q])' = Recorded(at[q])
      BY <1>1, <3>1 DEF Recorded, LastPhase
    <3> QED BY <2>1, <3>1, <3>2 DEF RowInv, RowMatches
  <2>2. ASSUME Working(p)'
        PROVE  /\ Recorded(at[p])' + (IF pc'[p] = "finish" THEN 0 ELSE 1) = Rank[step'[p]]
               /\ pc'[p] = "finish" => step'[p] = LastPhase(kind'[at'[p]])
               /\ Recorded(at[p])' > 0 => outcome'[at'[p]] = "ok"
    BY <2>2 DEF Recorded
  <2> QED BY <2>1, <2>2 DEF RowMatches
<1>4. TookEffect'
  <2> SUFFICES ASSUME NEW q \in Procs, q # p, Returned(q)'
               PROVE  step'[q] \in took'[at'[q]]
    BY DEF TookEffect
  <2>1. Working(q) /\ at[q] \in Tasks /\ at[q] # t
    BY <1>2 DEF Returned, Working
  <2>2. Returned(q)
    BY <2>1 DEF Returned
  <2> QED BY <2>2 DEF RowInv, TookEffect
<1> QED BY <1>1, <1>3, <1>4 DEF RowInv

LEMMA BeginRows ==
    ASSUME IInv, RowInv, NEW p \in Procs, NEW t \in Tasks, Begin(p, t)
    PROVE  RowInv'
<1>1. /\ pc'[p] = "issue" /\ at'[p] = t /\ step'[p] = "subscription"
      /\ phase'[t] = "started" /\ outcome' = outcome
      /\ UNCHANGED <<kind, issued, took, inflight, rc>>
  BY DEF Begin, native, IInv, TypeOK
<1>2. /\ \A q \in Procs : q # p => pc'[q] = pc[q] /\ at'[q] = at[q] /\ step'[q] = step[q]
      /\ \A u \in Tasks : u # t => phase'[u] = phase[u]
  BY DEF Begin, IInv, TypeOK
<1>3. reservation[t] = "reserved"
  BY DEF Begin
<1>4. outcome[t] = "none" /\ \A c \in Commands : issued[t][c] = 0
  BY <1>3 DEF IInv, Quiet
<1>5. \A q \in Procs : Working(q) => at[q] # t
  BY <1>3 DEF IInv, WorkStarted
<1>6. Recorded(t)' = 0
  BY <1>1 DEF Recorded, Commands
<1>7. RowIsTrue(t)'
  BY <1>1, <1>4, <1>6 DEF RowIsTrue
<1>8. ~Returned(p)'
  BY <1>1 DEF Returned
<1>9. Recorded(t)' + 1 = Rank["subscription"]
  BY <1>6 DEF Rank
<1> QED BY <1>1, <1>2, <1>5, <1>6, <1>7, <1>8, <1>9, RowOfWorker

LEMMA IssueRows ==
    ASSUME IInv, RowInv, NEW p \in Procs, IssueCommand(p)
    PROVE  RowInv'
<1> DEFINE t == at[p]
<1>1. /\ pc[p] = "issue" /\ pc'[p] = "wait"
      /\ UNCHANGED <<kind, phase, outcome, took, at, step, rc>>
      /\ issued' = [issued EXCEPT ![t][step[p]] = @ + 1]
      /\ inflight' = [inflight EXCEPT ![t] = @ \cup {step[p]}]
      /\ \A q \in Procs : q # p => pc'[q] = pc[q]
  BY DEF IssueCommand, durable, IInv, TypeOK
<1>2. Working(p)
  BY <1>1 DEF Working
<1>3. t \in Tasks /\ step[p] \in Commands /\ outcome[t] # "error"
  BY <1>2 DEF IInv, WorkHasTask, TypeOK, WorkStarted, Closed
<1>4. \A q \in Procs : q # p /\ Working(q) => at[q] # t
  BY <1>2 DEF IInv, OneWinner
<1>5. /\ Recorded(t) + 1 = Rank[step[p]] /\ Recorded(t)' = Recorded(t)
      /\ Recorded(t) > 0 => outcome[t] = "ok"
  BY <1>1, <1>2 DEF RowInv, RowMatches, Recorded, LastPhase
<1>6. /\ \A c \in Commands : c # step[p] => issued'[t][c] = issued[t][c]
      /\ \A u \in Tasks : u # t => issued'[u] = issued[u] /\ inflight'[u] = inflight[u]
      /\ step[p] \in inflight'[t]
  BY <1>1, <1>3 DEF IInv, TypeOK
<1>7. RowIsTrue(t)'
  <2>1. Rank[step[p]] <= Recorded(t)' + 1
    BY <1>3, <1>5, RankFacts, RecordedType
  <2> QED BY <1>1, <1>3, <1>5, <1>6, <2>1 DEF RowInv, RowIsTrue
<1>8. ~Returned(p)'
  BY <1>1, <1>6 DEF Returned
<1> QED BY <1>1, <1>3, <1>4, <1>5, <1>6, <1>7, <1>8, RowOfWorker

LEMMA RecordRows ==
    ASSUME IInv, RowInv, NEW p \in Procs, Record(p)
    PROVE  RowInv'
<1> PICK t : t = at[p]
  OBVIOUS
<1> DEFINE r == Rank[step[p]]
<1>1. /\ pc[p] = "record" /\ AfterRecord(p, rc[p])
      /\ UNCHANGED <<kind, issued, took, inflight>>
      /\ \A u \in Tasks : u # t => phase'[u] = phase[u] /\ outcome'[u] = outcome[u]
      /\ \A q \in Procs : q # p => rc'[q] = rc[q]
  BY DEF Record, native, IInv, TypeOK
<1>2. Working(p)
  BY <1>1 DEF Working
<1>3. t \in Tasks /\ step[p] \in Commands /\ rc[p] \in {"ok", "error"} /\ r \in 1 .. 4
  BY <1>2, RankFacts DEF IInv, WorkHasTask, TypeOK
<1>4. phase'[t] = step[p] /\ outcome'[t] = rc[p]
  BY <1>3 DEF Record, IInv, TypeOK
<1>5. Recorded(t)' = r
  BY <1>3, <1>4 DEF Recorded
<1>6. Recorded(t) + 1 = r /\ (Recorded(t) > 0 => outcome[t] = "ok")
  BY <1>1, <1>2 DEF RowInv, RowMatches
<1>7. \A c \in Commands :
         issued[t][c] = IF Rank[c] < r \/ c = step[p] THEN 1 ELSE 0
  BY <1>1, <1>2 DEF IInv, Counts
<1>8. RowIsTrue(t)'
  <2>1. ASSUME rc[p] = "ok", NEW c \in Commands, Rank[c] <= r PROVE c \in took[t]
    <3>1. CASE Rank[c] = r
      <4>1. c = step[p]
        BY <1>3, <3>1, RankFacts
      <4> QED BY <1>1, <2>1, <4>1 DEF RowInv, TookEffect, Returned
    <3>2. CASE Rank[c] # r
      <4>1. Rank[c] <= Recorded(t) /\ Recorded(t) > 0
        BY <1>3, <1>6, <2>1, <3>2, RankFacts, RecordedType
      <4> QED BY <1>3, <1>6, <4>1 DEF RowInv, RowIsTrue
    <3> QED BY <3>1, <3>2
  <2>2. \A c \in Commands : issued[t][c] > 0 => Rank[c] <= r
    BY <1>3, <1>7, RankFacts
  <2>3. \A c \in Commands : Rank[c] > r => issued[t][c] = 0
    BY <1>3, <1>7, RankFacts
  <2>4. \A c \in Commands : issued[t][c] > 0 => Rank[c] <= r + 1
    BY <1>3, <2>2, RankFacts
  <2> QED BY <1>1, <1>4, <1>5, <2>1, <2>3, <2>4 DEF RowIsTrue
<1>9. \A q \in Procs : q # p => pc'[q] = pc[q] /\ at'[q] = at[q] /\ step'[q] = step[q]
  BY <1>1 DEF AfterRecord, BackToQueue, IInv, TypeOK
<1>10. \A q \in Procs : q # p /\ Working(q) => at[q] # t
  BY <1>2 DEF IInv, OneWinner
<1>11. /\ Working(p)' =>
             /\ at'[p] = t /\ rc[p] = "ok"
             /\ r + (IF pc'[p] = "finish" THEN 0 ELSE 1) = Rank[step'[p]]
             /\ pc'[p] = "finish" => step'[p] = LastPhase(kind[t])
       /\ pc'[p] \in {"handoff", "finish", "issue"}
  <2>1. CASE BackToQueue(p)
    BY <2>1 DEF BackToQueue, Working, IInv, TypeOK
  <2>2. CASE /\ rc[p] = "ok" /\ step[p] = LastPhase(kind[t])
             /\ pc' = [pc EXCEPT ![p] = "finish"] /\ UNCHANGED <<at, step>>
    BY <1>3, <2>2 DEF IInv, TypeOK
  <2>3. CASE /\ rc[p] = "ok" /\ step[p] # LastPhase(kind[t])
             /\ pc' = [pc EXCEPT ![p] = "issue"]
             /\ step' = [step EXCEPT ![p] = Following[step[p]]] /\ UNCHANGED at
    <3>1. Rank[step[p]] <= Rank[LastPhase(kind[t])]
      BY <1>2 DEF IInv, WorkStarted
    <3>2. step[p] # "unblock"
      BY <1>3, <2>3, <3>1, RankFacts
    <3>3. Rank[Following[step[p]]] = r + 1
      BY <1>3, <3>2, RankFacts
    <3>4. pc'[p] = "issue" /\ step'[p] = Following[step[p]] /\ at'[p] = t
      BY <2>3 DEF IInv, TypeOK
    <3> QED BY <2>3, <3>3, <3>4
  <2> QED BY <1>1, <2>1, <2>2, <2>3 DEF AfterRecord
<1>12. ~Returned(p)'
  BY <1>11 DEF Returned
<1> QED
  BY <1>1, <1>3, <1>4, <1>5, <1>8, <1>9, <1>10, <1>11, <1>12, RowOfWorker

LEMMA FinishRows ==
    ASSUME IInv, RowInv, NEW p \in Procs, Finish(p)
    PROVE  RowInv'
<1> PICK t : t = at[p]
  OBVIOUS
<1>1. /\ pc[p] = "finish" /\ BackToQueue(p)
      /\ UNCHANGED <<kind, issued, took, inflight, rc>>
      /\ \A u \in Tasks : u # t => phase'[u] = phase[u] /\ outcome'[u] = outcome[u]
  BY DEF Finish, native, IInv, TypeOK
<1>2. Working(p)
  BY <1>1 DEF Working
<1>3. t \in Tasks /\ \A q \in Procs : q # p /\ Working(q) => at[q] # t
  BY <1>2 DEF IInv, WorkHasTask, OneWinner
<1>4. Recorded(t) = Rank[LastPhase(kind[t])] /\ (Recorded(t) > 0 => outcome[t] = "ok")
  BY <1>1, <1>2, <1>3, RecordedType DEF RowInv, RowMatches
<1>5. outcome[t] = "ok"
  BY <1>4, RankFacts
<1>6. Recorded(t)' = Recorded(t) /\ outcome'[t] = "ok"
  <2>1. CASE stop[p]
    BY <1>1, <1>3, <1>5, <2>1 DEF Finish, Recorded, LastPhase
  <2>2. CASE ~stop[p]
    <3>1. phase'[t] = "complete" /\ outcome'[t] = "ok"
      BY <1>3, <2>2 DEF Finish, IInv, TypeOK
    <3> QED BY <1>1, <1>4, <3>1 DEF Recorded, Commands, LastPhase
  <2> QED BY <2>1, <2>2
<1>7. RowIsTrue(t)'
  BY <1>1, <1>3, <1>5, <1>6 DEF RowInv, RowIsTrue
<1>8. \A q \in Procs : q # p => pc'[q] = pc[q] /\ at'[q] = at[q] /\ step'[q] = step[q]
  BY <1>1 DEF BackToQueue, IInv, TypeOK
<1>9. pc'[p] = "handoff"
  BY <1>1 DEF BackToQueue, IInv, TypeOK
<1>10. ~Working(p)' /\ ~Returned(p)'
  BY <1>9 DEF Working, Returned
<1> QED BY <1>1, <1>3, <1>7, <1>8, <1>10, RowOfWorker

LEMMA InitRows == Init => RowInv
<1> SUFFICES ASSUME Init PROVE RowInv
  OBVIOUS
<1>1. \A p \in Procs : ~Working(p) /\ ~Returned(p)
  BY DEF Init, Working, Returned
<1>2. \A t \in Tasks : RowIsTrue(t)
  BY RankFacts DEF Init, RowIsTrue, Recorded, Commands
<1> QED BY <1>1, <1>2 DEF RowInv, RowMatches, TookEffect

LEMMA NextRows == IInv /\ RowInv /\ [Next]_vars => RowInv'
<1> SUFFICES ASSUME IInv, RowInv, [Next]_vars PROVE RowInv'
  OBVIOUS
<1>1. ASSUME NEW p \in Procs, Step(p) \/ Acquire(p) \/ Interrupt(p) PROVE RowInv'
  BY <1>1, QuietRows, IdleRows, ReserveSeenRows, BeginRows, IssueRows, RecordRows,
     FinishRows DEF Step, Interrupt, Idle
<1>2. ASSUME NEW t \in Tasks, NativeStep(t) PROVE RowInv'
  BY <1>2, NativeRows
<1>3. CASE UNCHANGED vars
  BY <1>3, RowFrame DEF vars, durable, native, local, Working, Returned
<1> QED BY <1>1, <1>2, <1>3 DEF Next

(* What the intervention row lets an operator conclude after any crash is   *)
(* true of the board: phases recorded ok took effect, at most one command   *)
(* past the row was started, and none past an error.                        *)
THEOREM RowsTellTheBoard == Spec => []RowTellsTheBoard
<1>1. RowInv => RowTellsTheBoard
  BY DEF RowInv, RowIsTrue, RowTellsTheBoard
<1> QED BY <1>1, InitRows, NextRows, Invariance, PTL DEF Spec

-----------------------------------------------------------------------------
(* Refinement: every step of the pipeline is a step of OneEver or stutters. *)

ClosedMap == [t \in Tasks |-> Closed(t)]

LEMMA PromiseInit == Init => Promise!Init
<1> SUFFICES ASSUME Init PROVE Promise!Init
  OBVIOUS
<1>1. reservation = [t \in Tasks |-> "none"] /\ kind = [t \in Tasks |-> "none"]
  BY DEF Init
<1>2. issued = [t \in Tasks |-> [c \in Promise!Commands |-> 0]]
  BY DEF Init, Commands, Promise!Commands
<1>3. \A t \in Tasks : Closed(t) = FALSE
  BY DEF Init, Closed
<1>4. ClosedMap = [t \in Tasks |-> FALSE]
  BY <1>3 DEF ClosedMap
<1> QED BY <1>1, <1>2, <1>4 DEF Promise!Init, ClosedMap

(* Steps that change neither reservations, issued commands nor the row. *)
LEMMA PromiseStutter ==
    ASSUME UNCHANGED <<reservation, kind, phase, outcome, issued>>
    PROVE  UNCHANGED Promise!avars
BY DEF Promise!avars, Closed

(* Steps that write the row of one task and nothing else of the promise. *)
LEMMA PromiseRow ==
    ASSUME IInv, NEW t \in Tasks, reservation[t] = "started", ~Closed(t),
           UNCHANGED <<reservation, kind, issued>>,
           \A u \in Tasks : u # t => phase'[u] = phase[u] /\ outcome'[u] = outcome[u]
    PROVE  Promise!Next \/ UNCHANGED Promise!avars
<1>1. \A u \in Tasks : u # t => (Closed(u)' <=> Closed(u))
  BY DEF Closed
<1>2. CASE ~Closed(t)'
  <2>1. \A u \in Tasks : Closed(u)' = Closed(u)
    BY <1>1, <1>2 DEF Closed
  <2>2. ClosedMap' = ClosedMap
    BY <2>1 DEF ClosedMap
  <2> QED BY <2>2 DEF Promise!avars, ClosedMap
<1>3. CASE Closed(t)'
  <2>1. ClosedMap' = [ClosedMap EXCEPT ![t] = TRUE]
    BY <1>1, <1>3, Zenon DEF ClosedMap, Closed
  <2>2. ~ClosedMap[t]
    BY DEF ClosedMap
  <2>3. Promise!Close(t)
    BY <2>1, <2>2 DEF Promise!Close, ClosedMap
  <2> QED BY <2>3 DEF Promise!Next
<1> QED BY <1>2, <1>3

LEMMA PromiseReserve ==
    ASSUME IInv, NEW p \in Procs, ReserveSeen(p)
    PROVE  Promise!Next \/ UNCHANGED Promise!avars
<1> DEFINE u == seen[p].task
           k == seen[p].kind
<1>1. u \in Tasks /\ k \in {"blocker", "child"}
  BY DEF ReserveSeen, IInv, TypeOK, Candidates
<1>2. UNCHANGED <<phase, outcome, issued>>
  BY DEF ReserveSeen, native
<1>3. CASE reservation[u] # "none"
  <2>1. UNCHANGED <<reservation, kind>>
    BY <1>3 DEF ReserveSeen, ReserveBlocker
  <2> QED BY <1>2, <2>1, PromiseStutter
<1>4. CASE reservation[u] = "none"
  <2>1. /\ reservation' = [reservation EXCEPT ![u] = "reserved"]
        /\ kind' = [kind EXCEPT ![u] = k]
    BY <1>4 DEF ReserveSeen, ReserveBlocker
  <2>2. Promise!Reserve(u, k)
    BY <1>2, <1>4, <2>1 DEF Promise!Reserve, Closed
  <2> QED BY <1>1, <2>2 DEF Promise!Next
<1> QED BY <1>3, <1>4

LEMMA PromiseBegin ==
    ASSUME IInv, NEW p \in Procs, NEW t \in Tasks, Begin(p, t)
    PROVE  Promise!Next
<1>1. /\ reservation[t] = "reserved"
      /\ reservation' = [reservation EXCEPT ![t] = "started"]
      /\ phase' = [phase EXCEPT ![t] = "started"]
      /\ UNCHANGED <<kind, outcome, issued>>
  BY DEF Begin, native
<1>2. phase[t] = "none" /\ outcome[t] = "none"
  BY <1>1 DEF IInv, Quiet
<1>3. \A u \in Tasks : Closed(u)' = Closed(u)
  BY <1>1, <1>2 DEF Closed, IInv, TypeOK
<1>4. ClosedMap' = ClosedMap
  BY <1>3 DEF ClosedMap
<1>5. Promise!Start(t)
  BY <1>1, <1>4 DEF Promise!Start, ClosedMap
<1> QED BY <1>5 DEF Promise!Next

LEMMA PromiseIssue ==
    ASSUME IInv, NEW p \in Procs, IssueCommand(p)
    PROVE  Promise!Next
<1> DEFINE t == at[p]
           c == step[p]
<1>1. /\ pc[p] = "issue" /\ issued' = [issued EXCEPT ![t][c] = @ + 1]
      /\ UNCHANGED <<reservation, kind, phase, outcome>>
  BY DEF IssueCommand, durable
<1>2. Working(p)
  BY <1>1 DEF Working
<1>3. t \in Tasks /\ c \in Commands
  BY <1>2 DEF IInv, WorkHasTask, TypeOK
<1>4. reservation[t] = "started" /\ ~Closed(t) /\ Rank[c] <= Rank[LastPhase(kind[t])]
  BY <1>2 DEF IInv, WorkStarted
<1>5. \A d \in Commands : issued[t][d] = IF Rank[d] < Rank[c] THEN 1 ELSE 0
  BY <1>1, <1>2 DEF IInv, Counts
<1>6. issued[t][c] = 0 /\ \A d \in Commands : Rank[d] < Rank[c] => issued[t][d] = 1
  BY <1>3, <1>5, RankFacts
<1>7. c \in Promise!PhasesOf(kind[t])
  BY <1>3, <1>4 DEF Promise!PhasesOf, Promise!Commands, Commands, Rank, LastPhase
<1>8. issued' = [issued EXCEPT ![t][c] = 1]
  BY <1>1, <1>6
<1>9. Promise!Rank = Rank /\ Promise!Commands = Commands
  BY DEF Promise!Rank, Rank, Promise!Commands, Commands
<1>10. ~ClosedMap[t] /\ ClosedMap' = ClosedMap
  BY <1>1, <1>3, <1>4 DEF ClosedMap, Closed
<1>11. Promise!Issue(t, c)
  BY <1>1, <1>4, <1>6, <1>7, <1>8, <1>9, <1>10 DEF Promise!Issue, ClosedMap
<1> QED BY <1>3, <1>9, <1>11 DEF Promise!Next

LEMMA PromiseStep ==
    ASSUME IInv, NEW p \in Procs, Step(p)
    PROVE  Promise!Next \/ UNCHANGED Promise!avars
<1>1. CASE Idle(p) \/ LeaveScan(p) \/ LeaveHandoff(p)
  <2>1. UNCHANGED <<reservation, kind, phase, outcome, issued>>
    BY <1>1 DEF Idle, RequestStop, Look, StartHandoff, BeginRefused, NextCycle, ReturnOk,
           ReturnError, LeaveScan, LeaveHandoff, Gone, durable, native
  <2> QED BY <2>1, PromiseStutter
<1>2. CASE ReserveSeen(p)
  BY <1>2, PromiseReserve
<1>3. ASSUME NEW t \in Tasks, Begin(p, t) PROVE Promise!Next
  BY <1>3, PromiseBegin
<1>4. CASE IssueCommand(p)
  BY <1>4, PromiseIssue
<1>5. CASE Record(p) \/ Finish(p)
  <2>1. Working(p)
    BY <1>5 DEF Record, Finish, Working
  <2>2. at[p] \in Tasks /\ reservation[at[p]] = "started" /\ ~Closed(at[p])
    BY <2>1 DEF IInv, WorkHasTask, WorkStarted
  <2>3. UNCHANGED <<reservation, kind, issued>>
    BY <1>5 DEF Record, Finish, native
  <2>4. \A u \in Tasks : u # at[p] => phase'[u] = phase[u] /\ outcome'[u] = outcome[u]
    BY <1>5 DEF Record, Finish, IInv, TypeOK
  <2> QED BY <2>2, <2>3, <2>4, PromiseRow
<1> QED BY <1>1, <1>2, <1>3, <1>4, <1>5 DEF Step, Idle

LEMMA PromiseNext ==
    IInv /\ [Next]_vars => [Promise!Next]_(Promise!avars)
<1> SUFFICES ASSUME IInv, [Next]_vars
             PROVE  Promise!Next \/ UNCHANGED Promise!avars
  OBVIOUS
<1>1. ASSUME NEW p \in Procs, Step(p)
      PROVE  Promise!Next \/ UNCHANGED Promise!avars
  BY <1>1, PromiseStep
<1>2. ASSUME NEW p \in Procs, Acquire(p) \/ Interrupt(p)
      PROVE  UNCHANGED Promise!avars
  <2>1. UNCHANGED <<reservation, kind, phase, outcome, issued>>
    BY <1>2 DEF Acquire, Interrupt, Crash, RequestStop, AbortScan, Gone, durable, native
  <2> QED BY <2>1, PromiseStutter
<1>3. ASSUME NEW t \in Tasks, NativeStep(t)
      PROVE  UNCHANGED Promise!avars
  <2>1. UNCHANGED <<reservation, kind, phase, outcome, issued>>
    BY <1>3 DEF NativeStep, TakeEffect, OrphanDies, BoardStep, durable
  <2> QED BY <2>1, PromiseStutter
<1>4. CASE UNCHANGED vars
  <2>1. UNCHANGED <<reservation, kind, phase, outcome, issued>>
    BY <1>4 DEF vars, durable, native
  <2> QED BY <2>1, PromiseStutter
<1> QED BY <1>1, <1>2, <1>3, <1>4 DEF Next

(* The pipeline implements the one-ever promise (OneEver) for every number  *)
(* of processes, tasks, lock files and disturbances.                        *)
THEOREM ImplementsPromise == Spec => PromiseSpec
<1> QED
  BY PromiseInit, PromiseNext, Invariance, PTL DEF Spec, PromiseSpec, Promise!Spec
=============================================================================
