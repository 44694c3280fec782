----------------------------- MODULE Admission -----------------------------
(***************************************************************************)
(* Child admission (admit_child): a child task is created blocked, its     *)
(* effect is validated again, evidence is recorded, and only then is the   *)
(* child promoted into dispatch.  The command takes no instance lock:      *)
(* several callers may work on one admission key, each may be killed       *)
(* between any two steps, and the native commands it started may fail,     *)
(* time out after they took effect, or outlive it.                         *)
(*                                                                         *)
(* Durable: contract, evidence and the board.  Volatile: step, at.         *)
(***************************************************************************)
EXTENDS Naturals

CONSTANTS
    Callers,
    AdmissionKeys,           \* admission keys: parent, contract and effect
    MaxKilled      \* bound on killed callers

ASSUME AdmissionAssumption == MaxKilled \in Nat

VARIABLES
    contract,   \* what check_effect says of a key: "missing", "allows", "denies"
    evidence,   \* outcome_admissions.status, "none" without a row
    child,      \* the native child: "absent", "blocked", "dispatchable"
    inflight,   \* native commands started, neither applied nor dead
    step, at,   \* where a caller is, and the key it works on
    overlapped, \* history: keys on which a call began while another was under way
    killed

admissionVars == <<contract, evidence, child, inflight, step, at, overlapped, killed>>

Statuses == {"denied", "failed", "held", "admitted"}

Commands == [caller : Callers, verb : {"create", "promote"}, key : AdmissionKeys]

AdmissionInit ==
    /\ contract = [k \in AdmissionKeys |-> "missing"]
    /\ evidence = [k \in AdmissionKeys |-> "none"]
    /\ child = [k \in AdmissionKeys |-> "absent"]
    /\ inflight = {}
    /\ step = [c \in Callers |-> "idle"]
    /\ at \in [Callers -> AdmissionKeys]
    /\ overlapped = {}
    /\ killed = 0

Allowed(k) == contract[k] = "allows"

-----------------------------------------------------------------------------
(* Contracts. *)

(* Mutant: a registration replaces the contract of the same name. *)
RegisterReplacing(k) ==
    /\ contract' \in {[contract EXCEPT ![k] = v] : v \in {"allows", "denies"}}
    /\ UNCHANGED <<evidence, child, inflight, step, at, overlapped, killed>>

(* register_contract: documents are immutable and their parents registered  *)
(* before them, so a verdict is final once the contract exists.             *)
RegisterContract(k) ==
    /\ contract[k] = "missing"
    /\ contract' \in {[contract EXCEPT ![k] = v] : v \in {"allows", "denies"}}
    /\ UNCHANGED <<evidence, child, inflight, step, at, overlapped, killed>>

-----------------------------------------------------------------------------
(* admit_child. *)

To(c, label) == step' = [step EXCEPT ![c] = label]

(* Mutant: INSERT OR REPLACE. *)
InsertOrReplace(k, status) == evidence' = [evidence EXCEPT ![k] = status]

(* INSERT OR IGNORE on the admission key. *)
InsertOrIgnore(k, status) == evidence' = [evidence EXCEPT ![k] = IF @ = "none" THEN status ELSE @]

(* A recorded admission is only reported. *)
Reported(c, k) ==
    /\ step[c] = "idle" /\ evidence[k] # "none"
    /\ UNCHANGED admissionVars

Busy(k) == \E c \in Callers : step[c] # "idle" /\ at[c] = k

Call(c, k) ==
    /\ step[c] = "idle" /\ evidence[k] = "none"
    /\ at' = [at EXCEPT ![c] = k]
    /\ overlapped' = IF Busy(k) THEN overlapped \cup {k} ELSE overlapped
    /\ To(c, "check")
    /\ UNCHANGED <<contract, evidence, child, inflight, killed>>

CheckPolicy(c) ==
    /\ step[c] = "check"
    /\ To(c, IF Allowed(at[c]) THEN "create" ELSE "deny")
    /\ UNCHANGED <<contract, evidence, child, inflight, at, overlapped, killed>>

(* The gateway's checks reject the card: nothing is recorded. *)
GatewayRejects(c) ==
    /\ step[c] = "create"
    /\ To(c, "idle")
    /\ UNCHANGED <<contract, evidence, child, inflight, at, overlapped, killed>>

Issue(c, from, verb, to) ==
    /\ step[c] = from
    /\ inflight' = inflight \cup {[caller |-> c, verb |-> verb, key |-> at[c]]}
    /\ To(c, to)
    /\ UNCHANGED <<contract, evidence, child, at, overlapped, killed>>

IssueCreate(c) == Issue(c, "create", "create", "creating")

IssuePromote(c) == Issue(c, "promote", "promote", "promoting")

Waiting(c, verb) == [caller |-> c, verb |-> verb, key |-> at[c]] \in inflight

(* The command succeeded, after its effect. *)
CreateOk(c) ==
    /\ step[c] = "creating" /\ ~Waiting(c, "create")
    /\ To(c, "recheck")
    /\ UNCHANGED <<contract, evidence, child, inflight, at, overlapped, killed>>

PromoteOk(c) ==
    /\ step[c] = "promoting" /\ ~Waiting(c, "promote")
    /\ To(c, "idle")
    /\ UNCHANGED <<contract, evidence, child, inflight, at, overlapped, killed>>

(* Nonzero exit, unreadable result or the 120 s timeout that kills the      *)
(* command: its effect happened or never will.                              *)
NativeError(c, from, verb, to) ==
    /\ step[c] = from
    /\ inflight' = inflight \ {[caller |-> c, verb |-> verb, key |-> at[c]]}
    /\ To(c, to)
    /\ UNCHANGED <<contract, evidence, child, at, overlapped, killed>>

CreateError(c) == NativeError(c, "creating", "create", "fail")

PromoteError(c) == NativeError(c, "promoting", "promote", "hold")

Recheck(c) ==
    /\ step[c] = "recheck"
    /\ To(c, IF Allowed(at[c]) THEN "admit" ELSE "withhold")
    /\ UNCHANGED <<contract, evidence, child, inflight, at, overlapped, killed>>

(* _record_admission; an admitted child is promoted next, all other ends    *)
(* return or raise.                                                         *)
RecordStatus == [deny |-> "denied", fail |-> "failed", withhold |-> "held", admit |-> "admitted"]

(* Mutant: the child is promoted on the evidence of an earlier call. *)
RecordUnlessAdmitting(c) ==
    /\ step[c] \in DOMAIN RecordStatus
    /\ IF step[c] = "admit" THEN UNCHANGED evidence
       ELSE InsertOrIgnore(at[c], RecordStatus[step[c]])
    /\ To(c, IF step[c] = "admit" THEN "promote" ELSE "idle")
    /\ UNCHANGED <<contract, child, inflight, at, overlapped, killed>>

RecordAdmission(c) ==
    /\ step[c] \in DOMAIN RecordStatus
    /\ InsertOrIgnore(at[c], RecordStatus[step[c]])
    /\ To(c, IF step[c] = "admit" THEN "promote" ELSE "idle")
    /\ UNCHANGED <<contract, child, inflight, at, overlapped, killed>>

(* _update_admission_status: an unconditional UPDATE. *)
HoldAdmission(c) ==
    /\ step[c] = "hold"
    /\ evidence' = [evidence EXCEPT ![at[c]] = "held"]
    /\ To(c, "idle")
    /\ UNCHANGED <<contract, child, inflight, at, overlapped, killed>>

(* The caller is killed; its native command lives on.  A command of the same *)
(* caller and key in a later call stands for the older one too: both verbs   *)
(* are idempotent.                                                           *)
CallerDies(c) ==
    /\ step[c] # "idle" /\ killed < MaxKilled
    /\ killed' = killed + 1
    /\ To(c, "idle")
    /\ UNCHANGED <<contract, evidence, child, inflight, at, overlapped>>

-----------------------------------------------------------------------------
(* The native board. *)

(* create is idempotent on the key and creates the child blocked; promote   *)
(* makes a blocked child dispatchable.                                      *)
Effect(state, verb) ==
    IF verb = "create" THEN (IF state = "absent" THEN "blocked" ELSE state)
    ELSE (IF state = "blocked" THEN "dispatchable" ELSE state)

TakeEffect(command) ==
    /\ command \in inflight
    /\ inflight' = inflight \ {command}
    /\ child' = [child EXCEPT ![command.key] = Effect(@, command.verb)]
    /\ UNCHANGED <<contract, evidence, step, at, overlapped, killed>>

-----------------------------------------------------------------------------
CallerStep(c) ==
    \/ \E k \in AdmissionKeys : Call(c, k) \/ Reported(c, k)
    \/ CheckPolicy(c) \/ GatewayRejects(c)
    \/ IssueCreate(c) \/ CreateOk(c) \/ CreateError(c)
    \/ Recheck(c) \/ RecordAdmission(c)
    \/ IssuePromote(c) \/ PromoteOk(c) \/ PromoteError(c) \/ HoldAdmission(c)
    \/ CallerDies(c)

AdmissionNext ==
    \/ \E c \in Callers : CallerStep(c)
    \/ \E command \in inflight : TakeEffect(command)
    \/ \E k \in AdmissionKeys : RegisterContract(k)

AdmissionSpec == AdmissionInit /\ [][AdmissionNext]_admissionVars

-----------------------------------------------------------------------------
PcValues == {"idle", "check", "deny", "create", "creating", "fail", "recheck", "withhold",
             "admit", "promote", "promoting", "hold"}

(* Every variable stays in its domain. *)
TypeOK ==
    /\ contract \in [AdmissionKeys -> {"missing", "allows", "denies"}]
    /\ evidence \in [AdmissionKeys -> {"none"} \cup Statuses]
    /\ child \in [AdmissionKeys -> {"absent", "blocked", "dispatchable"}]
    /\ inflight \subseteq Commands
    /\ step \in [Callers -> PcValues] /\ at \in [Callers -> AdmissionKeys]
    /\ overlapped \subseteq AdmissionKeys /\ killed \in Nat

Authorized == {"admitted", "held"}

(* A child is dispatchable only under a contract that allows its effect and *)
(* with durable evidence on record, whichever caller died or raced which;   *)
(* and that evidence is of an admission, or of one held because the answer  *)
(* of its promotion was lost, unless two calls on the key overlapped.       *)
EvidenceBeforeDispatch ==
    \A k \in AdmissionKeys :
        child[k] = "dispatchable" =>
            /\ Allowed(k) /\ evidence[k] # "none"
            /\ k \notin overlapped => evidence[k] \in Authorized

(* The second validation never disagrees with the first: from the creation  *)
(* of the child to its promotion the contract allows the effect, because    *)
(* registered contracts never change.                                       *)
PolicyIsStable ==
    \A c \in Callers :
        step[c] \notin {"idle", "check", "deny"} => Allowed(at[c])

(* Admitted means there is a child: a later call, answered from the row     *)
(* alone, names a task that exists.                                         *)
AdmittedHasChild == \A k \in AdmissionKeys : evidence[k] = "admitted" => child[k] # "absent"

(* Evidence is final: the first status recorded for a key is never replaced *)
(* by another caller's, except that a failed promotion holds it.            *)
EvidenceIsFinal ==
    [][\A k \in AdmissionKeys : evidence[k] # "none" /\ evidence'[k] # evidence[k] => evidence'[k] = "held"]_admissionVars

-----------------------------------------------------------------------------
(* What the documentation says and the code does not do. *)

=============================================================================
