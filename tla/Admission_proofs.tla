-------------------------- MODULE Admission_proofs --------------------------
(***************************************************************************)
(* Proofs about Admission for every set of callers and keys and any number *)
(* of killed callers.                                                      *)
(***************************************************************************)
EXTENDS Admission, TLAPS

-----------------------------------------------------------------------------
(* The invariant.  PolicyIsStable is inductive because a registered         *)
(* contract is final; the board's promise needs that a promotion in flight  *)
(* was started with evidence on record, whoever started it; and that        *)
(* evidence is of an admission where no calls overlapped, because a call    *)
(* that is alone on its key finds no evidence until it records its own.     *)

Evidenced(k) == evidence[k] # "none" /\ (k \notin overlapped => evidence[k] \in Authorized)

PromotionsAreEvidenced ==
    \A i \in inflight :
        i.verb = "promote" => contract[i.key] = "allows" /\ Evidenced(i.key)

CallersAreEvidenced ==
    \A c \in Callers :
        step[c] \in {"promote", "promoting", "hold"} => Evidenced(at[c])

(* Of two callers on one key that nothing overlapped one is idle, and a     *)
(* caller that has not recorded yet is the first to record.                 *)
OneAtATime ==
    /\ \A c, d \in Callers :
           step[c] # "idle" /\ step[d] # "idle" /\ at[c] = at[d] /\ c # d => at[c] \in overlapped
    /\ \A c \in Callers :
           step[c] \notin {"idle", "promote", "promoting", "hold"} /\ at[c] \notin overlapped
               => evidence[at[c]] = "none"

ChildIsThere ==
    \A c \in Callers :
        /\ step[c] = "creating" /\ ~Waiting(c, "create") => child[at[c]] # "absent"
        /\ step[c] \in {"recheck", "withhold", "admit", "promote", "promoting", "hold"} =>
               child[at[c]] # "absent"

Core ==
    /\ TypeOK
    /\ PolicyIsStable
    /\ PromotionsAreEvidenced
    /\ CallersAreEvidenced
    /\ ChildIsThere
    /\ EvidenceBeforeDispatch
    /\ AdmittedHasChild

IInv == Core /\ OneAtATime

-----------------------------------------------------------------------------
(* Type correctness. *)

LEMMA InitTypeOK == AdmissionInit => TypeOK
BY AdmissionAssumption DEF AdmissionInit, TypeOK, PcValues, Statuses, Commands

LEMMA StepTypeOK ==
    ASSUME TypeOK, NEW c \in Callers, CallerStep(c)
    PROVE  TypeOK'
<1> USE DEF TypeOK, PcValues, To
<1>1. ASSUME NEW k \in AdmissionKeys, Call(c, k) PROVE TypeOK'
  BY <1>1 DEF Call
<1>2. CASE CheckPolicy(c) \/ GatewayRejects(c) \/ Recheck(c)
  BY <1>2 DEF CheckPolicy, GatewayRejects, Recheck
<1>3. CASE IssueCreate(c) \/ IssuePromote(c)
  <2>1. at[c] \in AdmissionKeys
    OBVIOUS
  <2>2. \A verb \in {"create", "promote"} :
            [caller |-> c, verb |-> verb, key |-> at[c]] \in Commands
    BY <2>1 DEF Commands
  <2>3. inflight' \subseteq Commands
    BY <1>3, <2>2 DEF IssueCreate, IssuePromote, Issue
  <2>4. step' \in [Callers -> PcValues]
    BY <1>3 DEF IssueCreate, IssuePromote, Issue
  <2> QED BY <1>3, <2>3, <2>4 DEF IssueCreate, IssuePromote, Issue
<1>4. CASE CreateOk(c) \/ PromoteOk(c)
  BY <1>4 DEF CreateOk, PromoteOk
<1>5. CASE CreateError(c) \/ PromoteError(c)
  BY <1>5 DEF CreateError, PromoteError, NativeError
<1>6. CASE RecordAdmission(c)
  <2>1. at[c] \in AdmissionKeys /\ RecordStatus[step[c]] \in Statuses
    BY <1>6 DEF RecordAdmission, RecordStatus, Statuses
  <2>2. evidence' \in [AdmissionKeys -> {"none"} \cup Statuses]
    BY <1>6, <2>1 DEF RecordAdmission, InsertOrIgnore
  <2> QED BY <1>6, <2>2 DEF RecordAdmission
<1>7. CASE HoldAdmission(c)
  BY <1>7 DEF HoldAdmission, Statuses
<1>8. CASE CallerDies(c)
  BY <1>8 DEF CallerDies
<1>9. ASSUME NEW k \in AdmissionKeys, Reported(c, k) PROVE TypeOK'
  BY <1>9 DEF Reported, admissionVars
<1> QED BY <1>1, <1>2, <1>3, <1>4, <1>5, <1>6, <1>7, <1>8, <1>9 DEF CallerStep

LEMMA BoardTypeOK ==
    ASSUME TypeOK, NEW command \in inflight, TakeEffect(command)
    PROVE  TypeOK'
<1>1. command.key \in AdmissionKeys
  BY DEF TypeOK, Commands
<1>2. child' \in [AdmissionKeys -> {"absent", "blocked", "dispatchable"}]
  BY <1>1 DEF TakeEffect, Effect, TypeOK
<1> QED BY <1>2 DEF TakeEffect, TypeOK

LEMMA RegisterTypeOK ==
    ASSUME TypeOK, NEW k \in AdmissionKeys, RegisterContract(k)
    PROVE  TypeOK'
BY DEF RegisterContract, TypeOK

LEMMA NextTypeOK == TypeOK /\ [AdmissionNext]_admissionVars => TypeOK'
<1>1. TypeOK /\ UNCHANGED admissionVars => TypeOK'
  BY DEF TypeOK, admissionVars
<1> QED BY <1>1, StepTypeOK, BoardTypeOK, RegisterTypeOK DEF AdmissionNext

(* The variables stay in their domains, for every value of the constants. *)
THEOREM TypeCorrect == AdmissionSpec => []TypeOK
BY InitTypeOK, NextTypeOK, PTL DEF AdmissionSpec

-----------------------------------------------------------------------------
(* The invariant, one lemma for each group of actions. *)

LEMMA InitIInv == AdmissionInit => IInv
BY InitTypeOK
   DEF AdmissionInit, IInv, PolicyIsStable, PromotionsAreEvidenced, CallersAreEvidenced,
       ChildIsThere, EvidenceBeforeDispatch, AdmittedHasChild, Core, OneAtATime

(* Everything the invariant says survives a step that only moves a caller   *)
(* to a place whose obligations it meets.                                   *)
LEMMA MoveIInv ==
    ASSUME IInv, TypeOK', NEW c \in Callers, NEW label \in PcValues, To(c, label),
           UNCHANGED <<contract, evidence, child, inflight, at, overlapped>>,
           label \notin {"idle", "check", "deny"} => Allowed(at[c]),
           label \in {"promote", "promoting", "hold"} => Evidenced(at[c]),
           label \in {"recheck", "withhold", "admit", "promote", "promoting", "hold"} =>
               child[at[c]] # "absent",
           label # "creating"
    PROVE  Core'
<1> USE DEF IInv, Core, TypeOK, To
<1>1. PolicyIsStable'
  BY DEF PolicyIsStable, Allowed
<1>2. PromotionsAreEvidenced'
  BY DEF PromotionsAreEvidenced, Evidenced
<1>3. CallersAreEvidenced'
  BY DEF CallersAreEvidenced, Evidenced
<1>4. ChildIsThere'
  BY DEF ChildIsThere, Waiting
<1>5. EvidenceBeforeDispatch' /\ AdmittedHasChild'
  BY DEF EvidenceBeforeDispatch, AdmittedHasChild, Allowed, Evidenced
<1> QED BY <1>1, <1>2, <1>3, <1>4, <1>5

LEMMA WalkIInv ==
    ASSUME IInv, TypeOK', NEW c \in Callers,
           \/ CheckPolicy(c) \/ GatewayRejects(c) \/ CreateOk(c) \/ Recheck(c)
           \/ PromoteOk(c) \/ CallerDies(c)
    PROVE  Core'
<1> USE DEF IInv, Core, PcValues
<1>1. CASE CheckPolicy(c)
  BY <1>1, MoveIInv DEF CheckPolicy
<1>2. CASE GatewayRejects(c) \/ PromoteOk(c) \/ CallerDies(c)
  BY <1>2, MoveIInv DEF GatewayRejects, PromoteOk, CallerDies
<1>3. CASE CreateOk(c)
  BY <1>3, MoveIInv DEF CreateOk, ChildIsThere, PolicyIsStable
<1>4. CASE Recheck(c)
  BY <1>4, MoveIInv DEF Recheck, ChildIsThere, PolicyIsStable
<1> QED BY <1>1, <1>2, <1>3, <1>4

LEMMA CallIInv ==
    ASSUME IInv, TypeOK', NEW c \in Callers, NEW k \in AdmissionKeys, Call(c, k)
    PROVE  Core'
<1> USE DEF IInv, Core, TypeOK, Call, To
<1>1. PolicyIsStable'
  BY DEF PolicyIsStable, Allowed
<1>2. PromotionsAreEvidenced' /\ CallersAreEvidenced'
  BY DEF PromotionsAreEvidenced, CallersAreEvidenced, Evidenced
<1>3. ChildIsThere'
  BY DEF ChildIsThere, Waiting
<1>4. EvidenceBeforeDispatch' /\ AdmittedHasChild'
  BY DEF EvidenceBeforeDispatch, AdmittedHasChild, Allowed, Evidenced
<1> QED BY <1>1, <1>2, <1>3, <1>4

LEMMA IssueIInv ==
    ASSUME IInv, TypeOK', NEW c \in Callers, IssueCreate(c) \/ IssuePromote(c)
    PROVE  Core'
<1> USE DEF IInv, Core, TypeOK, To
<1>1. CASE IssueCreate(c)
  <2> USE <1>1 DEF IssueCreate, Issue
  <2>1. PolicyIsStable'
    BY DEF PolicyIsStable, Allowed
  <2>2. PromotionsAreEvidenced' /\ CallersAreEvidenced'
    BY DEF PromotionsAreEvidenced, CallersAreEvidenced, Evidenced
  <2>3. ChildIsThere'
    BY DEF ChildIsThere, Waiting
  <2>4. EvidenceBeforeDispatch' /\ AdmittedHasChild'
    BY DEF EvidenceBeforeDispatch, AdmittedHasChild, Allowed, Evidenced
  <2> QED BY <2>1, <2>2, <2>3, <2>4
<1>2. CASE IssuePromote(c)
  <2> USE <1>2 DEF IssuePromote, Issue
  <2>1. PolicyIsStable'
    BY DEF PolicyIsStable, Allowed
  <2>2. PromotionsAreEvidenced' /\ CallersAreEvidenced'
    BY DEF PromotionsAreEvidenced, CallersAreEvidenced, Evidenced, PolicyIsStable, Allowed
  <2>3. ChildIsThere'
    BY DEF ChildIsThere, Waiting
  <2>4. EvidenceBeforeDispatch' /\ AdmittedHasChild'
    BY DEF EvidenceBeforeDispatch, AdmittedHasChild, Allowed, Evidenced
  <2> QED BY <2>1, <2>2, <2>3, <2>4
<1> QED BY <1>1, <1>2

LEMMA ErrorIInv ==
    ASSUME IInv, TypeOK', NEW c \in Callers, CreateError(c) \/ PromoteError(c)
    PROVE  Core'
<1> USE DEF IInv, Core, TypeOK, To, CreateError, PromoteError, NativeError
<1>1. PolicyIsStable'
  BY DEF PolicyIsStable, Allowed
<1>2. PromotionsAreEvidenced' /\ CallersAreEvidenced'
  BY DEF PromotionsAreEvidenced, CallersAreEvidenced, Evidenced
<1>3. ChildIsThere'
  (* A caller waits for its own commands only: another's errors leave them. *)
  <2>1. \A d \in Callers \ {c} : Waiting(d, "create") => Waiting(d, "create")'
    BY DEF Waiting
  <2> QED BY <2>1 DEF ChildIsThere
<1>4. EvidenceBeforeDispatch' /\ AdmittedHasChild'
  BY DEF EvidenceBeforeDispatch, AdmittedHasChild, Allowed, Evidenced
<1> QED BY <1>1, <1>2, <1>3, <1>4

LEMMA RecordIInv ==
    ASSUME IInv, TypeOK', NEW c \in Callers, RecordAdmission(c) \/ HoldAdmission(c)
    PROVE  Core'
<1> USE DEF IInv, Core, TypeOK, To
<1>0. "none" \notin Statuses /\ "held" \in Authorized /\ "admitted" \in Authorized
  BY DEF Statuses, Authorized
<1>1. /\ \A k \in AdmissionKeys : Evidenced(k) => Evidenced(k)'
      /\ step[c] \in {"admit", "hold"} => Evidenced(at[c])'
      /\ \A k \in AdmissionKeys : evidence'[k] = "admitted" => child[k] # "absent"
  <2>1. CASE RecordAdmission(c)
    <3>1. step[c] \in {"deny", "fail", "withhold", "admit"} /\ overlapped' = overlapped
      BY <2>1 DEF RecordAdmission, RecordStatus
    <3>2. /\ RecordStatus[step[c]] \in Statuses
          /\ RecordStatus[step[c]] = "admitted" <=> step[c] = "admit"
      BY <3>1 DEF RecordStatus, Statuses
    <3>3. \A k \in AdmissionKeys :
              evidence'[k] = IF k = at[c] /\ evidence[k] = "none" THEN RecordStatus[step[c]]
                             ELSE evidence[k]
      BY <2>1 DEF RecordAdmission, InsertOrIgnore
    <3>4. step[c] = "admit" => child[at[c]] # "absent"
      BY DEF ChildIsThere
    <3>5. step[c] = "admit" /\ at[c] \notin overlapped => evidence[at[c]] = "none"
      BY DEF OneAtATime
    <3>6. at[c] \in AdmissionKeys /\ evidence'[at[c]] # "none"
      BY <1>0, <3>2, <3>3
    <3>7. step[c] = "admit" => Evidenced(at[c])'
      <4>1. at'[c] = at[c]
        BY <2>1 DEF RecordAdmission
      <4>2. step[c] = "admit" /\ at[c] \notin overlapped => evidence'[at[c]] = "admitted"
        BY <3>2, <3>3, <3>5, <3>6
      <4> QED BY <1>0, <2>1, <3>1, <3>6, <4>1, <4>2 DEF Evidenced, RecordAdmission
    <3>8. \A k \in AdmissionKeys : Evidenced(k) => Evidenced(k)'
      BY <3>1, <3>3 DEF Evidenced
    <3> QED BY <1>0, <3>1, <3>2, <3>3, <3>4, <3>7, <3>8 DEF AdmittedHasChild
  <2>2. CASE HoldAdmission(c)
    BY <1>0, <2>2 DEF HoldAdmission, AdmittedHasChild, Evidenced
  <2> QED BY <2>1, <2>2
<1>2. /\ UNCHANGED <<contract, child, inflight, at, overlapped>>
      /\ \A d \in Callers \ {c} : step'[d] = step[d]
      /\ step'[c] = "idle" \/ (step'[c] = "promote" /\ step[c] = "admit")
  BY DEF RecordAdmission, HoldAdmission
<1>3. PolicyIsStable'
  BY <1>2 DEF PolicyIsStable, Allowed
<1>4. PromotionsAreEvidenced' /\ CallersAreEvidenced'
  <2>1. \A i \in inflight : i.key \in AdmissionKeys
    BY DEF Commands
  <2> QED BY <1>1, <1>2, <2>1 DEF PromotionsAreEvidenced, CallersAreEvidenced
<1>5. ChildIsThere'
  BY <1>2 DEF ChildIsThere, Waiting
<1>6. EvidenceBeforeDispatch' /\ AdmittedHasChild'
  BY <1>1, <1>2 DEF EvidenceBeforeDispatch, AdmittedHasChild, Allowed, Evidenced
<1> QED BY <1>3, <1>4, <1>5, <1>6

LEMMA BoardIInv ==
    ASSUME IInv, TypeOK', NEW command \in inflight, TakeEffect(command)
    PROVE  Core'
<1> USE DEF IInv, Core, TypeOK, TakeEffect
<1>1. command.key \in AdmissionKeys /\ command.verb \in {"create", "promote"}
  BY DEF Commands
<1>2. /\ \A k \in AdmissionKeys : child[k] # "absent" => child'[k] # "absent"
      /\ command.verb = "create" => child'[command.key] # "absent"
      /\ \A k \in AdmissionKeys : child'[k] = "dispatchable" =>
             child[k] = "dispatchable" \/ (k = command.key /\ command.verb = "promote")
  BY <1>1 DEF Effect
<1>3. PolicyIsStable' /\ CallersAreEvidenced'
  BY DEF PolicyIsStable, CallersAreEvidenced, Allowed, Evidenced
<1>4. PromotionsAreEvidenced'
  BY DEF PromotionsAreEvidenced, Evidenced
<1>5. ChildIsThere'
  (* The awaited command is either still in flight or the one that landed. *)
  <2>1. ASSUME NEW c \in Callers, Waiting(c, "create"), ~Waiting(c, "create")'
        PROVE  child'[at[c]] # "absent"
    <3>1. command = [caller |-> c, verb |-> "create", key |-> at[c]]
      BY <2>1 DEF Waiting
    <3> QED BY <1>2, <3>1
  <2> QED BY <1>2, <2>1 DEF ChildIsThere
<1>6. EvidenceBeforeDispatch'
  BY <1>2 DEF EvidenceBeforeDispatch, PromotionsAreEvidenced, Allowed, Evidenced
<1>7. AdmittedHasChild'
  BY <1>2 DEF AdmittedHasChild
<1> QED BY <1>3, <1>4, <1>5, <1>6, <1>7

LEMMA RegisterIInv ==
    ASSUME IInv, TypeOK', NEW k \in AdmissionKeys, RegisterContract(k)
    PROVE  Core'
<1> USE DEF IInv, Core, TypeOK, RegisterContract
<1>1. \A j \in AdmissionKeys : contract[j] = "allows" => contract'[j] = "allows"
  OBVIOUS
<1>2. PolicyIsStable' /\ CallersAreEvidenced'
  BY <1>1 DEF PolicyIsStable, CallersAreEvidenced, Allowed, Evidenced
<1>3. PromotionsAreEvidenced'
  BY <1>1 DEF PromotionsAreEvidenced, Commands, Evidenced
<1>4. ChildIsThere'
  BY DEF ChildIsThere, Waiting
<1>5. EvidenceBeforeDispatch' /\ AdmittedHasChild'
  BY <1>1 DEF EvidenceBeforeDispatch, AdmittedHasChild, Allowed
<1> QED BY <1>2, <1>3, <1>4, <1>5

(* A call on a key that is busy marks it, and no call but the one that      *)
(* records leaves evidence.                                                 *)
LEMMA AloneStep ==
    ASSUME IInv, [AdmissionNext]_admissionVars
    PROVE  OneAtATime'
<1> USE DEF IInv, Core, TypeOK, OneAtATime
<1>1. ASSUME NEW c \in Callers, CallerStep(c)
      PROVE  OneAtATime'
  <2>1. ASSUME NEW k \in AdmissionKeys, Call(c, k)
        PROVE  OneAtATime'
    <3>1. /\ step' = [step EXCEPT ![c] = "check"] /\ at' = [at EXCEPT ![c] = k]
          /\ step[c] = "idle" /\ evidence[k] = "none" /\ evidence' = evidence
          /\ overlapped \subseteq overlapped'
          /\ Busy(k) => k \in overlapped'
      BY <2>1 DEF Call, To
    <3> QED BY <3>1 DEF Busy
  <2>2. ASSUME \E label : To(c, label) /\ (step[c] = "idle" => label = "idle"),
               UNCHANGED <<at, overlapped>>,
               evidence' = evidence
               \/ (step'[c] \in {"idle", "promote"} /\ step[c] # "idle"
                   /\ \A k \in AdmissionKeys : k # at[c] => evidence'[k] = evidence[k]),
               step[c] \in {"idle", "promote", "promoting", "hold"} =>
                   step'[c] \in {"idle", "promote", "promoting", "hold"}
        PROVE  OneAtATime'
    <3>1. \A d \in Callers : d # c => step'[d] = step[d]
      BY <2>2 DEF To
    <3>2. \A d \in Callers : step'[d] # "idle" => step[d] # "idle"
      BY <2>2, <3>1 DEF To
    <3>3. ASSUME NEW d \in Callers, step'[d] \notin {"idle", "promote", "promoting", "hold"},
                 at[d] \notin overlapped
          PROVE  evidence'[at[d]] = "none"
      <4>1. evidence[at[d]] = "none" /\ step[d] # "idle"
        BY <2>2, <3>1, <3>2, <3>3
      <4>2. d # c /\ step[c] # "idle" => at[d] # at[c]
        BY <3>3, <4>1
      <4> QED BY <2>2, <3>3, <4>1, <4>2
    <3> QED BY <2>2, <3>2, <3>3
  <2>3. CASE RecordAdmission(c)
    BY <2>2, <2>3 DEF RecordAdmission, RecordStatus, InsertOrIgnore, To
  <2>4. CASE HoldAdmission(c)
    BY <2>2, <2>4 DEF HoldAdmission, To
  <2>5. CASE \/ CheckPolicy(c) \/ GatewayRejects(c) \/ CreateOk(c) \/ Recheck(c)
             \/ PromoteOk(c) \/ CallerDies(c)
    BY <2>2, <2>5 DEF CheckPolicy, GatewayRejects, CreateOk, Recheck, PromoteOk, CallerDies, To
  <2>6. CASE IssueCreate(c) \/ IssuePromote(c) \/ CreateError(c) \/ PromoteError(c)
    BY <2>2, <2>6 DEF IssueCreate, IssuePromote, Issue, CreateError, PromoteError, NativeError, To
  <2>7. ASSUME NEW k \in AdmissionKeys, Reported(c, k)
        PROVE  OneAtATime'
    BY <2>7 DEF Reported, admissionVars
  <2> QED BY <1>1, <2>1, <2>3, <2>4, <2>5, <2>6, <2>7 DEF CallerStep
<1>2. CASE UNCHANGED <<evidence, step, at, overlapped>>
  BY <1>2
<1> QED BY <1>1, <1>2 DEF AdmissionNext, TakeEffect, RegisterContract, admissionVars

LEMMA NextIInv == IInv /\ [AdmissionNext]_admissionVars => IInv'
<1> SUFFICES ASSUME IInv, [AdmissionNext]_admissionVars PROVE IInv'
  OBVIOUS
<1>1. TypeOK'
  BY NextTypeOK DEF IInv, Core
<1>2. UNCHANGED admissionVars => Core'
  BY DEF admissionVars, IInv, Core, TypeOK, PolicyIsStable, PromotionsAreEvidenced,
         CallersAreEvidenced, ChildIsThere, Waiting, EvidenceBeforeDispatch,
         AdmittedHasChild, Allowed, Evidenced
<1>3. ASSUME NEW c \in Callers, CallerStep(c) PROVE Core'
  BY <1>1, <1>2, <1>3, CallIInv, WalkIInv, IssueIInv, ErrorIInv, RecordIInv
     DEF CallerStep, Reported
<1> QED BY <1>1, <1>2, <1>3, AloneStep, BoardIInv, RegisterIInv DEF AdmissionNext, IInv

LEMMA Invariance == AdmissionSpec => []IInv
BY InitIInv, NextIInv, PTL DEF AdmissionSpec

(* A dispatchable child always has an allowing contract and evidence on     *)
(* record, of an admission unless calls on its key overlapped, for any      *)
(* number of racing and killed callers.                                     *)
THEOREM EvidenceFirst == AdmissionSpec => []EvidenceBeforeDispatch
BY Invariance, PTL DEF IInv, Core

(* What admit_child validates twice it validates the same both times. *)
THEOREM PolicyStays == AdmissionSpec => []PolicyIsStable
BY Invariance, PTL DEF IInv, Core

(* A row that says admitted names a child that exists. *)
THEOREM AdmittedIsReal == AdmissionSpec => []AdmittedHasChild
BY Invariance, PTL DEF IInv, Core

-----------------------------------------------------------------------------
(* The row of a key changes from nothing to a first status, and after that  *)
(* only to held.                                                            *)
LEMMA RowStep ==
    ASSUME TypeOK, [AdmissionNext]_admissionVars, NEW k \in AdmissionKeys,
           evidence[k] # "none", evidence'[k] # evidence[k]
    PROVE  evidence'[k] = "held"
<1> USE DEF TypeOK
<1>1. ASSUME NEW c \in Callers, CallerStep(c) PROVE evidence'[k] = "held"
  <2>1. CASE RecordAdmission(c)
    BY <2>1 DEF RecordAdmission, InsertOrIgnore
  <2>2. CASE HoldAdmission(c)
    BY <2>2 DEF HoldAdmission
  <2>3. ~RecordAdmission(c) /\ ~HoldAdmission(c) => UNCHANGED evidence
    BY <1>1 DEF CallerStep, Call, CheckPolicy, GatewayRejects, IssueCreate, IssuePromote, Issue,
                CreateOk, CreateError, PromoteOk, PromoteError, NativeError, Recheck, CallerDies,
                Reported, admissionVars
  <2> QED BY <2>1, <2>2, <2>3
<1>2. UNCHANGED evidence \/ \E c \in Callers : CallerStep(c)
  BY DEF AdmissionNext, admissionVars, TakeEffect, RegisterContract
<1> QED BY <1>1, <1>2

(* Evidence once recorded is final but for a failed promotion. *)
THEOREM EvidenceStays == AdmissionSpec => EvidenceIsFinal
<1>1. TypeOK /\ [AdmissionNext]_admissionVars =>
          [\A k \in AdmissionKeys : evidence[k] # "none" /\ evidence'[k] # evidence[k] => evidence'[k] = "held"]_admissionVars
  BY RowStep
<1> QED BY <1>1, TypeCorrect, PTL DEF AdmissionSpec, EvidenceIsFinal
=============================================================================
