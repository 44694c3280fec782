---------------------------- MODULE Parts_proofs ----------------------------
(***************************************************************************)
(* Proofs about the four parts that the runs of MCParts check together and  *)
(* that share nothing: StreamCursor, GitHook, BoardTools, ShippedFixRetro.  *)
(***************************************************************************)
EXTENDS BoardTools, StreamCursor, GitHook, ShippedFixRetro, TLAPS,
        FiniteSetTheorems, WellFoundedInduction

-----------------------------------------------------------------------------
(* Max is defined by CHOOSE: that a nonempty bounded set of numbers has a   *)
(* maximum is the least-number principle, read from the bound downwards.    *)

LEMMA LeastNumber ==
    ASSUME NEW S, S \subseteq Nat, S # {}
    PROVE  \E m \in S : \A n \in S : m <= n
<1>1. IsWellFoundedOn({x \in Nat \X Nat : x[1] < x[2]}, Nat)
  BY NatLessThanWellFounded DEF OpToRel
<1>2. PICK m \in S : \A n \in S : <<n, m>> \notin {x \in Nat \X Nat : x[1] < x[2]}
  BY <1>1, WFMin
<1>3. ASSUME NEW n \in S PROVE m <= n
  <2>1. ~(n < m)
    BY <1>2
  <2> QED BY <2>1
<1> QED BY <1>3

LEMMA MaxIsElement ==
    ASSUME NEW n \in Nat, NEW S \in SUBSET (1 .. n), S # {}
    PROVE  Max(S) \in S /\ \A x \in S : Max(S) >= x
<1> DEFINE Below == {n - x : x \in S}
<1>1. Below \subseteq Nat
  <2> SUFFICES ASSUME NEW x \in S PROVE n - x \in Nat
    OBVIOUS
  <2> QED BY x \in 1 .. n
<1>0. Below # {}
  OBVIOUS
<1>2. PICK m \in Below : \A k \in Below : m <= k
  BY <1>0, <1>1, LeastNumber
<1>3. PICK y \in S : m = n - y
  BY <1>2
<1>4. ASSUME NEW x \in S PROVE y >= x
  <2>1. n - x \in Below
    OBVIOUS
  <2>2. n - y <= n - x
    BY <1>2, <1>3, <2>1
  <2> QED BY <2>2
<1> QED BY <1>4 DEF Max

-----------------------------------------------------------------------------
(* The inductive invariant: what CursorStandsOnHandled needs to know of the *)
(* row is that it keeps its fields and that the cursor is an event id or    *)
(* zero.                                                                    *)

RowFields == {"identity", "cursor", "reset", "resets", "failures", "sent", "attempted"}

RowType ==
    /\ DOMAIN row = RowFields
    /\ row.cursor \in 0 .. MaxId
    /\ handled \subseteq 1 .. MaxId

CursorInv == RowType /\ CursorStandsOnHandled

LEMMA MaxIdIsNat == MaxId \in Nat
BY CursorAssumption, Zenon DEF CursorAssumption

LEMMA CursorIsNumber ==
    ASSUME RowType
    PROVE  row.cursor \in Nat /\ row.cursor <= MaxId
BY MaxIdIsNat DEF RowType

LEMMA InitCursorInv == Init => CursorInv
<1> SUFFICES ASSUME Init PROVE CursorInv
  OBVIOUS
<1>1. PICK e : row = [identity |-> e, cursor |-> 0, reset |-> TRUE, resets |-> 0,
                      failures |-> 0, sent |-> FALSE, attempted |-> FALSE]
  BY Zenon DEF Init, Uninitialized
<1>2. DOMAIN row = RowFields /\ row.cursor = 0
  BY <1>1 DEF RowFields
<1>3. handled = {}
  BY Zenon DEF Init
<1> QED BY <1>2, <1>3, MaxIdIsNat DEF CursorInv, RowType, CursorStandsOnHandled

LEMMA ReconcileKeeps ==
    ASSUME CursorInv, NEW identity \in Identities, NEW floor, NEW observed,
           ReconcileStreamCursor(identity, floor, observed)
    PROVE  CursorInv' /\ (row'.cursor < row.cursor
                         => row'.cursor = 0 /\ row'.resets = row.resets + 1)
<1> DEFINE resync == MustResync(row, identity, floor, observed)
<1>0. RowType /\ row.cursor \in Nat
  BY CursorIsNumber DEF CursorInv
<1>1. /\ row' = [row EXCEPT !.identity = identity,
                            !.cursor = IF resync THEN 0 ELSE @,
                            !.resets = IF resync THEN @ + 1 ELSE @,
                            !.reset = row.identity # "" /\ (resync \/ @)]
      /\ handled' = handled
  BY DEF ReconcileStreamCursor, Reconciled
<1> HIDE DEF resync
<1>2. CASE resync
  <2>1. row'.cursor = 0 /\ row'.resets = row.resets + 1
    BY <1>0, <1>1, <1>2 DEF RowType, RowFields
  <2>2. RowType'
    BY <1>0, <1>1, <1>2, MaxIdIsNat DEF CursorInv, RowType, RowFields
  <2> QED BY <2>1, <2>2 DEF CursorInv, CursorStandsOnHandled
<1>3. CASE ~resync
  <2>1. row'.cursor = row.cursor
    BY <1>0, <1>1, <1>3 DEF RowType, RowFields
  <2>2. RowType'
    BY <1>0, <1>1, <1>3 DEF CursorInv, RowType, RowFields
  <2> QED BY <1>0, <1>1, <2>1, <2>2 DEF CursorInv, CursorStandsOnHandled
<1> QED BY <1>2, <1>3

(* A frame moves the cursor to its last event or not at all.                *)
LEMMA CommitKeeps ==
    ASSUME CursorInv, NEW identity \in Identities, NEW cursor \in 0 .. MaxId,
           NEW ids \in SUBSET (1 .. MaxId), CommitStreamFrame(identity, cursor, ids)
    PROVE  CursorInv' /\ row'.cursor >= row.cursor
<1>1. handled' = handled \cup ids /\ row' = Committed(row, cursor, ids)
  BY DEF CommitStreamFrame
<1>2. RowType /\ CursorStandsOnHandled
  BY DEF CursorInv
<1>0. row.cursor \in Nat /\ row.cursor <= MaxId
  BY <1>2, CursorIsNumber
<1>3. CASE ids = {}
  <2>1. row' = [row EXCEPT !.failures = 0, !.sent = FALSE, !.attempted = FALSE]
    BY <1>1, <1>3 DEF Committed, EpisodeOver
  <2>2. RowType' /\ row'.cursor = row.cursor
    BY <1>0, <1>1, <1>2, <1>3, <2>1 DEF RowType, RowFields
  <2> QED BY <1>0, <1>1, <1>2, <1>3, <2>2 DEF CursorInv, CursorStandsOnHandled
<1>4. CASE ids # {}
  <2>1. cursor \in ids
    BY <1>4, MaxIsElement, MaxIdIsNat DEF CommitStreamFrame, CommitAllowed
  <2> DEFINE ahead == IF cursor < row.cursor THEN row.cursor ELSE cursor
  <2>2. row' = [row EXCEPT !.failures = 0, !.sent = FALSE, !.attempted = FALSE,
                           !.cursor = ahead, !.reset = FALSE]
    BY <1>0, <1>1, <1>2, <1>4 DEF Committed, EpisodeOver, RowType, RowFields
  <2>3. ahead \in 0 .. MaxId /\ ahead >= row.cursor
    BY <1>0, MaxIdIsNat
  <2> HIDE DEF ahead
  <2>4. RowType' /\ row'.cursor = ahead
    BY <1>0, <1>1, <1>2, <2>2, <2>3 DEF RowType, RowFields
  <2>5. ahead \in {row.cursor, cursor}
    BY DEF ahead
  <2> QED BY <1>1, <1>2, <2>1, <2>3, <2>4, <2>5 DEF CursorInv, CursorStandsOnHandled
<1> QED BY <1>3, <1>4

LEMMA FailureKeeps ==
    ASSUME CursorInv, RecordStreamTransportFailure
    PROVE  CursorInv' /\ row'.cursor = row.cursor
<1>1. row' = [row EXCEPT !.failures = @ + 1] /\ handled' = handled
  BY DEF RecordStreamTransportFailure, FailureRecorded
<1>2. RowType
  BY DEF CursorInv
<1>3. RowType' /\ row'.cursor = row.cursor
  BY <1>1, <1>2 DEF CursorInv, RowType, RowFields
<1> QED BY <1>1, <1>3 DEF CursorInv, CursorStandsOnHandled

LEMMA MarkKeeps ==
    ASSUME CursorInv, NEW delivered \in BOOLEAN, MarkStreamAlert(delivered)
    PROVE  CursorInv' /\ row'.cursor = row.cursor
<1>1. row' = AlertMarked(row, delivered) /\ handled' = handled
  BY DEF MarkStreamAlert
<1>2. RowType
  BY DEF CursorInv
<1>3. RowType' /\ row'.cursor = row.cursor
  BY <1>1, <1>2 DEF AlertMarked, RowType, RowFields
<1> QED BY <1>1, <1>3 DEF CursorInv, CursorStandsOnHandled

LEMMA NextCursorInv ==
    ASSUME CursorInv, [Next]_vars
    PROVE  /\ CursorInv'
           /\ row'.cursor < row.cursor => row'.cursor = 0 /\ row'.resets = row.resets + 1
<1>0. row.cursor \in Nat
  BY CursorIsNumber DEF CursorInv
<1>1. ASSUME NEW identity \in Identities, NEW floor, NEW observed,
             ReconcileStreamCursor(identity, floor, observed)
      PROVE  /\ CursorInv'
             /\ row'.cursor < row.cursor => row'.cursor = 0 /\ row'.resets = row.resets + 1
  BY <1>1, ReconcileKeeps
<1>2. ASSUME NEW identity \in Identities, NEW ids \in SUBSET (1 .. MaxId),
             NEW cursor \in 0 .. MaxId, CommitStreamFrame(identity, cursor, ids)
      PROVE  CursorInv' /\ ~(row'.cursor < row.cursor)
  <2>1. row'.cursor >= row.cursor /\ CursorInv'
    BY <1>2, CommitKeeps
  <2>2. row'.cursor \in Nat
    BY <2>1, MaxIdIsNat DEF CursorInv, RowType
  <2> QED BY <1>0, <2>1, <2>2
<1>3. CASE RecordStreamTransportFailure
  BY <1>0, <1>3, FailureKeeps
<1>4. CASE \E delivered \in BOOLEAN : MarkStreamAlert(delivered)
  BY <1>0, <1>4, MarkKeeps
<1>5. CASE UNCHANGED vars
  BY <1>0, <1>5 DEF vars, CursorInv, RowType, CursorStandsOnHandled
<1> QED BY <1>1, <1>2, <1>3, <1>4, <1>5 DEF Next

LEMMA CursorInvariance == Spec => []CursorInv
BY InitCursorInv, NextCursorInv, PTL DEF Spec

-----------------------------------------------------------------------------
(* The durable cursor stands on an event that was accepted, through any     *)
(* mixture of resets, replays, older frames and other generations.          *)
THEOREM CursorOnHandled == Spec => []CursorStandsOnHandled
<1>1. CursorInv => CursorStandsOnHandled
  BY DEF CursorInv
<1> QED BY CursorInvariance, <1>1, PTL

(* No call but a counted reset takes the cursor back, and a reset takes it  *)
(* to zero.                                                                 *)
THEOREM BackOnlyByReset == Spec => OnlyResetsGoBack
<1>1. CursorInv /\ [Next]_vars =>
        [row'.cursor < row.cursor => row'.cursor = 0 /\ row'.resets = row.resets + 1]_vars
  BY NextCursorInv
<1> QED BY <1>1, CursorInvariance, PTL DEF Spec, OnlyResetsGoBack

-----------------------------------------------------------------------------
(* GitHook.  The inductive invariant.  As long as nothing upset the files,  *)
(* one call runs at most, a hook in place that is not the tool's and a copy *)
(* that is complete are the one the user wrote last, and the tool gets to   *)
(* overwrite or to remove a hook only when the copy is there.               *)

Labels == {"idle", "conflict", "copy", "copying", "replace", "unlink", "restore"}

HookTypes ==
    /\ DOMAIN pc = Operators /\ \A o \in Operators : pc[o] \in Labels
    /\ DOMAIN text = Operators
    /\ latest \in UserHooks \cup {"none"}
    /\ crashes \in Nat

Lone ==
    \A o, p \in Operators : pc[o] # "idle" /\ pc[p] # "idle" => o = p

Truthful ==
    /\ hook \in {latest, "none", "managed"}
    /\ orig \in {latest, "none", "empty"}
    /\ orig = "empty" <=> \E o \in Operators : pc[o] = "copying"
    /\ HookSafe

Sites(o) ==
    /\ pc[o] \in {"conflict", "copy", "copying"} => hook = latest /\ hook # "none"
    /\ pc[o] = "copy" => orig = "none"
    /\ pc[o] = "copying" => text[o] = hook
    /\ pc[o] = "replace" => orig = latest
    /\ pc[o] = "unlink" => hook = "managed"
    /\ pc[o] = "restore" => hook # "managed"

Settled == Lone /\ Truthful /\ \A o \in Operators : Sites(o)

HookInv == HookTypes /\ (upset = {} => Settled)

LEMMA InitHookInv == HookInit => HookInv
BY DEF HookInit, HookInv, HookTypes, Labels, Settled, Lone, Truthful, Sites, HookSafe

(* A step of a call that upsets nothing is the only one under way.          *)
LEMMA StepAlone ==
    ASSUME HookInv, NEW o \in Operators, Step(o), upset' = {}
    PROVE  /\ upset = {} /\ Settled
           /\ \A p \in Operators : p # o => pc[p] = "idle" /\ pc'[p] = "idle"
<1>1. upset = {} /\ Settled
  BY DEF Step, InstallLooks, UninstallLooks, Begin, ChecksOrig, OpensCopy, WritesCopy,
         ReplacesHook, UnlinksHook, RestoresOrig, Crash, HookInv
<1>2. ASSUME NEW p \in Operators, p # o
      PROVE  pc[p] = "idle" /\ pc'[p] = pc[p]
  <2>1. pc'[p] = pc[p]
    BY <1>2 DEF Step, InstallLooks, UninstallLooks, Begin, ChecksOrig, OpensCopy, WritesCopy,
           ReplacesHook, UnlinksHook, RestoresOrig, Crash, Goto, HookInv, HookTypes
  <2>2. pc[o] = "idle" => \A q \in Operators : pc[q] = "idle"
    BY DEF Step, InstallLooks, UninstallLooks, Begin, ChecksOrig, OpensCopy, WritesCopy,
           ReplacesHook, UnlinksHook, RestoresOrig, Crash
  <2>3. pc[o] # "idle" => pc[p] = "idle"
    BY <1>1, <1>2 DEF Settled, Lone
  <2> QED BY <2>1, <2>2, <2>3
<1> QED BY <1>1, <1>2

LEMMA StepTypes ==
    ASSUME HookTypes, NEW o \in Operators, Step(o)
    PROVE  HookTypes'
<1>1. latest' = latest /\ (crashes' = crashes \/ crashes' = crashes + 1)
  BY DEF Step, InstallLooks, UninstallLooks, Begin, ChecksOrig, OpensCopy, WritesCopy,
         ReplacesHook, UnlinksHook, RestoresOrig, Crash
<1>2. \E label \in Labels : Goto(o, label)
  BY DEF Step, InstallLooks, UninstallLooks, Begin, ChecksOrig, OpensCopy, WritesCopy,
         ReplacesHook, UnlinksHook, RestoresOrig, Crash, Labels
<1>3. DOMAIN text' = Operators
  BY DEF Step, InstallLooks, UninstallLooks, ChecksOrig, OpensCopy, WritesCopy,
         ReplacesHook, UnlinksHook, RestoresOrig, Crash, HookTypes
<1> QED BY <1>1, <1>2, <1>3 DEF HookTypes, Goto

(* What one call alone makes of the files.                                  *)
LEMMA StepSettles ==
    ASSUME HookInv, NEW o \in Operators, Step(o), upset' = {}
    PROVE  Settled'
<1>1. /\ upset = {} /\ Settled
      /\ \A p \in Operators : p # o => pc[p] = "idle" /\ pc'[p] = "idle"
  BY StepAlone
<1>2. Lone'
  BY <1>1 DEF Lone
<1>3. pc[o] \in Labels /\ DOMAIN pc = Operators /\ DOMAIN text = Operators
  BY DEF HookInv, HookTypes
<1>4. /\ orig = "empty" <=> pc[o] = "copying"
      /\ latest \notin {"managed", "empty"}
  BY <1>1, HookAssumption DEF HookInv, HookTypes, Settled, Truthful
<1>5. Sites(o)' /\ (hook \in {latest, "none", "managed"})' /\ (orig \in {latest, "none", "empty"})'
      /\ (orig = "empty" <=> pc[o] = "copying")' /\ HookSafe'
  <2> USE <1>1, <1>3, <1>4 DEF Settled, Truthful, Sites, HookSafe, Goto, Begin, Labels
  <2>1. CASE InstallLooks(o)
    BY <2>1 DEF InstallLooks
  <2>2. CASE ChecksOrig(o)
    BY <2>2 DEF ChecksOrig
  <2>3. CASE OpensCopy(o)
    BY <2>3 DEF OpensCopy
  <2>4. CASE WritesCopy(o)
    BY <2>4 DEF WritesCopy
  <2>5. CASE ReplacesHook(o)
    BY <2>5 DEF ReplacesHook
  <2>6. CASE UninstallLooks(o)
    BY <2>6 DEF UninstallLooks
  <2>7. CASE UnlinksHook(o)
    BY <2>7 DEF UnlinksHook
  <2>8. CASE RestoresOrig(o)
    BY <2>8 DEF RestoresOrig
  <2>9. CASE Crash(o)
    BY <2>9 DEF Crash
  <2> QED BY <2>1, <2>2, <2>3, <2>4, <2>5, <2>6, <2>7, <2>8, <2>9 DEF Step
<1>6. ASSUME NEW p \in Operators, p # o
      PROVE  Sites(p)'
  BY <1>1, <1>6 DEF Sites
<1>7. Truthful'
  BY <1>1, <1>5 DEF Truthful
<1> QED BY <1>2, <1>5, <1>6, <1>7 DEF Settled

(* A hook written into a repository free of the tool's files settles it.    *)
LEMMA WriteKeepsInv ==
    ASSUME HookInv, UserWrites
    PROVE  HookInv'
<1>1. HookTypes'
  BY DEF UserWrites, HookInv, HookTypes
<1>2. upset' = {} => Free
  BY DEF UserWrites
<1>3. Free => Settled'
  BY DEF UserWrites, Free, Settled, Lone, Truthful, Sites, HookSafe
<1> QED BY <1>1, <1>2, <1>3 DEF HookInv

LEMMA HookInvariance == HookSpec => []HookInv
<1>1. HookInv /\ [HookNext]_hookVars => HookInv'
  <2>1. ASSUME HookInv, NEW o \in Operators, Step(o)
        PROVE  HookInv'
    BY <2>1, StepTypes, StepSettles DEF HookInv
  <2>2. HookInv /\ UNCHANGED hookVars => HookInv'
    BY DEF hookVars, HookInv, HookTypes, Settled, Lone, Truthful, Sites, HookSafe
  <2> QED BY <2>1, <2>2, WriteKeepsInv DEF HookNext
<1> QED BY <1>1, InitHookInv, PTL DEF HookSpec

-----------------------------------------------------------------------------
(* install_hook and uninstall_hook lose the hook the user wrote last only   *)
(* to two calls at once, a kill in the middle of the copy, or a write of    *)
(* his own beside the tool's files.                                         *)
THEOREM HookIsKept == HookSpec => []UserHookKept
<1>1. HookInv => UserHookKept
  BY DEF HookInv, Settled, Truthful, UserHookKept, HookSafe
<1> QED BY <1>1, HookInvariance, PTL

LEMMA RestoreIsLatest ==
    ASSUME HookInv, [HookNext]_hookVars, NEW o \in Operators, upset = {},
           pc[o] = "restore", pc'[o] = "idle", crashes' = crashes
    PROVE  hook' = latest /\ orig' = "none"
<1>1. PICK p \in Operators : Step(p)
  BY DEF HookNext, UserWrites, hookVars
<1>2. p = o
  BY <1>1 DEF Step, InstallLooks, UninstallLooks, Begin, ChecksOrig, OpensCopy, WritesCopy,
         ReplacesHook, UnlinksHook, RestoresOrig, Crash, Goto, HookInv, HookTypes
<1>3. RestoresOrig(o)
  BY <1>1, <1>2 DEF Step, InstallLooks, UninstallLooks, Begin, ChecksOrig, OpensCopy, WritesCopy,
         ReplacesHook, UnlinksHook, Crash, HookInv, HookTypes
<1>4. orig # "empty"
  <2>1. \A q \in Operators : pc[q] # "copying"
    BY DEF HookInv, Settled, Lone
  <2> QED BY <2>1 DEF HookInv, Settled, Truthful
<1>5. hook \in {latest, "none"} /\ orig \in {latest, "none"} /\ HookSafe
  BY <1>4 DEF HookInv, Settled, Truthful, Sites
<1> QED BY <1>3, <1>5 DEF RestoresOrig, HookSafe

(* But for those three, an uninstall that runs to its end leaves the hook   *)
(* the user wrote last, also after installs and uninstalls that were killed.*)
THEOREM UninstallIsClean == HookSpec => UninstallRestores
<1>1. HookInv /\ [HookNext]_hookVars =>
        [\A o \in Operators :
            upset = {} /\ pc[o] = "restore" /\ pc'[o] = "idle" /\ crashes' = crashes =>
                hook' = latest /\ orig' = "none"]_hookVars
  BY RestoreIsLatest
<1> QED BY <1>1, HookInvariance, PTL DEF HookSpec, UninstallRestores

-----------------------------------------------------------------------------
(* The retrospective.  Nights and backfills save whole files over one       *)
(* another, so what is claimed of the ledger is claimed of every copy a     *)
(* run works on: its findings are not older than those ever saved, and no   *)
(* blind spot before its last run is missing from its queue.                *)

Foreseen(found) ==
    \A t \in Topics : found[t] # 0 => known[t] # 0 /\ known[t] <= found[t]

Blind(i) == BlindSpot(known, CardLineage(TRUE), i)

Complete(file) ==
    \A i \in Before(file.last) \ unjudged : Blind(i) => i \in file.queue[PatternIn(i)]

Sound(file) ==
    /\ DOMAIN file = {"last", "found", "queue"} /\ DOMAIN file.queue = Topics
    /\ file.found \in [Topics -> Nat] /\ file.last \in 0 .. hour
    /\ Foreseen(file.found) /\ Complete(file)

Shipped ==
    /\ hour \in Nat
    /\ DOMAIN merges = 1 .. Cardinality(DOMAIN merges) /\ Cardinality(DOMAIN merges) \in Nat
    /\ \A i \in DOMAIN merges : merges[i].at \in 0 .. hour /\ merges[i].topic \in Topics

RunFields == {"pc", "now", "copy", "blind"}

(* What a night is about to save completes the copy up to its hour.         *)
Judged ==
    \A i \in Before(night.now) \ unjudged :
        Blind(i) => i \in night.copy.queue[PatternIn(i)] \cup night.blind

RetroInv ==
    /\ Shipped /\ known \in [Topics -> Nat]
    /\ Sound(ledger) /\ Sound(night.copy) /\ Sound(fill.copy)
    /\ DOMAIN night = RunFields /\ DOMAIN fill = RunFields
    /\ night.now \in 0 .. hour
    /\ night.pc = "save" => Judged

LEMMA EarliestIsLowest ==
    ASSUME NEW seen \in [Topics -> Nat], NEW older \in [Topics -> Nat]
    PROVE  /\ Earliest(seen, older) \in [Topics -> Nat]
           /\ \A t \in Topics : seen[t] # 0 =>
                Earliest(seen, older)[t] # 0 /\ Earliest(seen, older)[t] <= seen[t]
           /\ \A t \in Topics : older[t] # 0 =>
                Earliest(seen, older)[t] # 0 /\ Earliest(seen, older)[t] <= older[t]
BY DEF Earliest

(* Merges come at the hour, and what was foreseen stays foreseen.           *)
Grows ==
    /\ hour' \in Nat /\ hour <= hour' /\ known' \in [Topics -> Nat]
    /\ \A t \in Topics : known[t] # 0 => known'[t] # 0 /\ known'[t] <= known[t]
    /\ DOMAIN merges \subseteq DOMAIN merges'
    /\ \A i \in DOMAIN merges : merges'[i] = merges[i]
    /\ \A i \in DOMAIN merges' \ DOMAIN merges : merges'[i].at = hour
    /\ unjudged \subseteq unjudged'

LEMMA BlindBefore ==
    ASSUME Shipped, known \in [Topics -> Nat], Grows, NEW i \in DOMAIN merges, Blind(i)'
    PROVE  Blind(i)
<1>1. merges'[i] = merges[i] /\ merges[i].topic \in Topics /\ merges[i].at \in Nat
  BY DEF Grows, Shipped
<1>2. ~(i \in DOMAIN merges' /\ merges'[i].born) /\ i \in DOMAIN merges'
  BY DEF Blind, BlindSpot, DetectorBorn, CardLineage, Grows
<1>3. ~(known'[merges[i].topic] \in 1 .. merges[i].at)
  BY <1>1 DEF Blind, BlindSpot, Covered, PatternIn
<1>4. ~(known[merges[i].topic] \in 1 .. merges[i].at)
  BY <1>1, <1>3 DEF Grows
<1> QED BY <1>1, <1>2, <1>4 DEF Blind, BlindSpot, DetectorBorn, CardLineage, Covered, PatternIn

LEMMA BeforeStays ==
    ASSUME Shipped, Grows, NEW time \in 0 .. hour
    PROVE  Before(time)' \subseteq Before(time)
BY DEF Shipped, Grows, Before

LEMMA SoundStays ==
    ASSUME Shipped, known \in [Topics -> Nat], Grows, NEW F, Sound(F)
    PROVE  Sound(F)'
<1>1. F.last \in 0 .. hour' /\ F.last \in 0 .. hour
  BY DEF Shipped, Grows, Sound
<1>2. Foreseen(F.found)'
  BY DEF Sound, Foreseen, Grows
<1>3. Complete(F)'
  <2> SUFFICES ASSUME NEW i \in Before(F.last)', i \notin unjudged', Blind(i)'
               PROVE  i \in F.queue[PatternIn(i)']
    BY DEF Complete
  <2>1. i \in Before(F.last) /\ i \notin unjudged
    BY <1>1, BeforeStays DEF Grows
  <2>2. i \in DOMAIN merges /\ Blind(i)
    BY <2>1, BlindBefore DEF Before
  <2>3. PatternIn(i)' = PatternIn(i)
    BY <2>2 DEF PatternIn, Grows
  <2> QED BY <2>1, <2>2, <2>3 DEF Sound, Complete
<1> QED BY <1>1, <1>2, <1>3 DEF Sound

LEMMA SoundEmpty ==
    ASSUME Shipped
    PROVE  Sound(Empty)
<1>1. Before(0) = {}
  BY DEF Before, Shipped
<1>2. Complete(Empty)
  BY <1>1 DEF Complete, Empty
<1> QED BY <1>2 DEF Sound, Empty, Foreseen, Shipped

LEMMA InitRetroInv == RetroInit => RetroInv
<1> SUFFICES ASSUME RetroInit PROVE RetroInv
  OBVIOUS
<1>1. Shipped
  BY FS_EmptySet DEF RetroInit, Shipped
<1>2. Sound(Empty)
  BY <1>1, SoundEmpty
<1> QED BY <1>1, <1>2 DEF RetroInit, RetroInv, Idle, Empty, RunFields

LEMMA CopiesStay ==
    ASSUME RetroInv, Grows
    PROVE  /\ Sound(Empty)'
           /\ ledger' \in {ledger, fill.copy} => Sound(ledger)'
           /\ night'.copy \in {night.copy, ledger, Empty} => Sound(night.copy)'
           /\ fill'.copy \in {fill.copy, ledger, Empty} => Sound(fill.copy)'
<1>1. \A F \in {ledger, night.copy, fill.copy, Empty} : Sound(F)
  BY SoundEmpty DEF RetroInv
<1>2. ASSUME NEW F, Sound(F) PROVE Sound(F)'
  BY <1>2, SoundStays DEF RetroInv
<1> QED BY <1>1, <1>2

LEMMA JudgedStays ==
    ASSUME RetroInv, Grows, night' = night, Judged
    PROVE  Judged'
<1> SUFFICES ASSUME NEW i \in Before(night.now)', i \notin unjudged', Blind(i)'
             PROVE  i \in night.copy.queue[PatternIn(i)'] \cup night.blind
  BY DEF Judged
<1>1. i \in Before(night.now) /\ i \notin unjudged
  BY BeforeStays DEF RetroInv, Grows
<1>2. i \in DOMAIN merges /\ Blind(i)
  BY <1>1, BlindBefore DEF Before, RetroInv
<1>3. PatternIn(i)' = PatternIn(i)
  BY <1>2 DEF PatternIn, Grows
<1> QED BY <1>1, <1>2, <1>3 DEF Judged

(* Nothing of what Grows speaks of changes, but for the unjudged.           *)
LEMMA StillGrows ==
    ASSUME RetroInv, UNCHANGED <<hour, merges, known>>, unjudged \subseteq unjudged'
    PROVE  Grows /\ Shipped'
<1>1. known \in [Topics -> Nat] /\ hour \in Nat /\ Shipped
  BY DEF RetroInv, Shipped
<1>2. \A t \in Topics : known[t] <= known[t]
  BY <1>1
<1> QED BY <1>1, <1>2 DEF Grows, Shipped

LEMMA MergeKeeps ==
    ASSUME RetroInv, Merge
    PROVE  RetroInv'
<1>1. PICK t \in Topics, born \in BOOLEAN :
        merges' = [i \in 1 .. Cardinality(DOMAIN merges) + 1 |->
                      IF i \in DOMAIN merges THEN merges[i]
                      ELSE [at |-> hour, topic |-> t, born |-> born]]
  BY DEF Merge
<1>2. UNCHANGED <<hour, ledger, backup, night, fill, unjudged, known, retroFaults>>
  BY DEF Merge
<1> DEFINE n == Cardinality(DOMAIN merges)
<1>3. n \in Nat /\ DOMAIN merges = 1 .. n /\ hour \in Nat
  BY DEF RetroInv, Shipped
<1>4. DOMAIN merges' = 1 .. n + 1 /\ Cardinality(DOMAIN merges') = n + 1
  <2>1. DOMAIN merges' = 1 .. n + 1
    BY <1>1
  <2> QED BY <1>3, <2>1, FS_Interval
<1>5. \A i \in DOMAIN merges : merges'[i] = merges[i]
  BY <1>1, <1>3
<1>6. \A i \in DOMAIN merges' \ DOMAIN merges :
        merges'[i].at = hour /\ merges'[i].topic = t
  BY <1>1
<1>7. Shipped'
  <2>1. ASSUME NEW i \in DOMAIN merges'
        PROVE  merges'[i].at \in 0 .. hour /\ merges'[i].topic \in Topics
    BY <1>3, <1>5, <1>6, <2>1 DEF RetroInv, Shipped
  <2> QED BY <1>2, <1>3, <1>4, <2>1 DEF Shipped
<1>8. Grows
  <2>1. \A u \in Topics : known[u] <= known[u]
    BY DEF RetroInv
  <2>2. DOMAIN merges \subseteq DOMAIN merges'
    BY <1>3, <1>4
  <2> QED BY <1>2, <1>3, <1>5, <1>6, <2>1, <2>2 DEF Grows, RetroInv
<1>9. Sound(ledger)' /\ Sound(night.copy)' /\ Sound(fill.copy)'
  BY <1>2, <1>8, CopiesStay
<1>10. night.pc = "save" => Judged'
  BY <1>2, <1>8, JudgedStays DEF RetroInv
<1> QED BY <1>2, <1>7, <1>9, <1>10 DEF RetroInv

LEMMA TimeKeeps ==
    ASSUME RetroInv, Time
    PROVE  RetroInv'
<1>1. hour' = hour + 1 /\ hour \in Nat
      /\ UNCHANGED <<merges, ledger, backup, night, fill, unjudged, known, retroFaults>>
  BY DEF Time, RetroInv, Shipped
<1>2. Shipped'
  BY <1>1 DEF RetroInv, Shipped
<1>3. Grows
  <2>1. \A t \in Topics : known[t] <= known[t]
    BY DEF RetroInv
  <2> QED BY <1>1, <2>1 DEF Grows, RetroInv
<1>4. Sound(ledger)' /\ Sound(night.copy)' /\ Sound(fill.copy)'
  BY <1>1, <1>3, CopiesStay
<1>5. night.pc = "save" => Judged'
  BY <1>1, <1>3, JudgedStays DEF RetroInv
<1>6. night'.now \in 0 .. hour'
  BY <1>1 DEF RetroInv
<1> QED BY <1>1, <1>2, <1>4, <1>5, <1>6 DEF RetroInv

(* A run begins on the file, or ends without a save.                        *)
LEMMA RunKeeps ==
    ASSUME RetroInv, BeginNight \/ NightEnds \/ BeginFill \/ FillEnds
    PROVE  RetroInv'
<1>1. UNCHANGED <<hour, merges, ledger, unjudged, known>>
  BY DEF BeginNight, NightEnds, BeginFill, FillEnds
<1>2. Grows /\ Shipped'
  BY <1>1, StillGrows
<1>3. CASE BeginNight \/ NightEnds
  <2>1. fill' = fill /\ DOMAIN night' = RunFields /\ night'.copy \in {ledger, Empty}
        /\ night'.now \in {hour, 0} /\ night'.pc # "save"
    BY <1>3 DEF BeginNight, NightEnds, Idle, RunFields
  <2>2. Sound(ledger)' /\ Sound(night.copy)' /\ Sound(fill.copy)'
    BY <1>1, <1>2, <2>1, CopiesStay
  <2>3. night'.now \in 0 .. hour'
    BY <1>1, <2>1 DEF RetroInv, Shipped
  <2> QED BY <1>1, <1>2, <2>1, <2>2, <2>3 DEF RetroInv
<1>4. CASE BeginFill \/ FillEnds
  <2>1. night' = night /\ DOMAIN fill' = RunFields /\ fill'.copy \in {ledger, Empty}
    <3>1. CASE BeginFill
      <4>1. fill' = [pc |-> "judge", now |-> 0, copy |-> ledger, blind |-> {}]
        BY <3>1 DEF BeginFill, Idle
      <4> QED BY <3>1, <4>1 DEF BeginFill, RunFields
    <3>2. CASE FillEnds
      BY <3>2 DEF FillEnds, Idle, RunFields
    <3> QED BY <1>4, <3>1, <3>2
  <2>2. Sound(ledger)' /\ Sound(night.copy)' /\ Sound(fill.copy)'
    BY <1>1, <1>2, <2>1, CopiesStay
  <2>3. night.pc = "save" => Judged'
    BY <1>2, <2>1, JudgedStays DEF RetroInv
  <2> QED BY <1>1, <1>2, <2>1, <2>2, <2>3 DEF RetroInv
<1> QED BY <1>3, <1>4

(* Judging against findings that were ever saved misses no blind spot.      *)
LEMMA BlindIsJudged ==
    ASSUME RetroInv, NEW found \in [Topics -> Nat], Foreseen(found),
           NEW i \in DOMAIN merges, Blind(i), NEW lineage \in SUBSET DOMAIN merges
    PROVE  BlindSpot(found, lineage, i)
<1>1. merges[i].topic \in Topics /\ merges[i].at \in Nat
  BY DEF RetroInv, Shipped
<1>2. ~merges[i].born /\ ~(known[merges[i].topic] \in 1 .. merges[i].at)
  BY DEF Blind, BlindSpot, DetectorBorn, CardLineage, Covered, PatternIn
<1>3. ~(found[merges[i].topic] \in 1 .. merges[i].at)
  BY <1>1, <1>2 DEF Foreseen, RetroInv
<1> QED BY <1>2, <1>3 DEF BlindSpot, DetectorBorn, Covered, PatternIn

LEMMA WithRequirementsAdds ==
    ASSUME NEW F, DOMAIN F = {"last", "found", "queue"}, DOMAIN F.queue = Topics, NEW blind
    PROVE  LET G == WithRequirements(F, blind) IN
           /\ DOMAIN G = DOMAIN F /\ DOMAIN G.queue = Topics
           /\ G.last = F.last /\ G.found = F.found
           /\ \A t \in Topics : F.queue[t] \subseteq G.queue[t]
           /\ \A t \in Topics, i \in blind : PatternIn(i) = t => i \in G.queue[t]
BY DEF WithRequirements

LEMMA JudgingKeeps ==
    ASSUME RetroInv, Prepass \/ Degraded
    PROVE  RetroInv'
<1>1. /\ UNCHANGED <<hour, merges, ledger, fill, known>>
      /\ unjudged \subseteq unjudged'
      /\ FirstRun => Before(night.now) \subseteq unjudged'
      /\ night.pc = "log" /\ night'.copy = night.copy /\ night'.now = night.now
      /\ DOMAIN night' = RunFields
  BY DEF Prepass, Degraded, RetroInv, RunFields
<1>2. Grows /\ Shipped'
  BY <1>1, StillGrows
<1>3. Sound(ledger)' /\ Sound(night.copy)' /\ Sound(fill.copy)'
  BY <1>1, <1>2, CopiesStay
<1>4. ASSUME NEW i \in Before(night.now), i \notin unjudged', Blind(i)
      PROVE  i \in night.copy.queue[PatternIn(i)] \/ i \in night'.blind
  <2>1. i \in DOMAIN merges /\ merges[i].at \in Nat /\ merges[i].at < night.now
    BY DEF Before, RetroInv, Shipped
  <2>2. ~FirstRun /\ Since = night.copy.last /\ night.copy.last \in Nat
    BY <1>1, <1>4 DEF Since, RetroInv, Sound
  <2>3. CASE i \in Before(night.copy.last)
    BY <1>1, <1>4, <2>3 DEF RetroInv, Sound, Complete
  <2>4. CASE i \notin Before(night.copy.last) /\ Prepass
    <3>1. PICK readable \in BOOLEAN :
            night' = [night EXCEPT !.pc = "save",
                         !.blind = Classified(Register(Since), LedgerFindings(night.copy),
                                            CardLineage(readable))]
      BY <2>4 DEF Prepass
    <3>2. night'.blind = Classified(Register(Since), LedgerFindings(night.copy), CardLineage(readable))
      BY <3>1 DEF RetroInv, RunFields
    <3>3. i \in Register(Since)
      BY <2>1, <2>2, <2>4 DEF Register, Before
    <3>4. BlindSpot(night.copy.found, CardLineage(readable), i)
      BY <1>4, <2>1, BlindIsJudged DEF RetroInv, Sound, CardLineage
    <3> QED BY <3>2, <3>3, <3>4 DEF Classified, LedgerFindings
  <2>5. CASE i \notin Before(night.copy.last) /\ Degraded
    BY <1>4, <2>2, <2>5 DEF Degraded
  <2> QED BY <2>3, <2>4, <2>5
<1>5. Judged'
  BY <1>1, <1>4 DEF Judged, Before, Blind, BlindSpot, DetectorBorn, CardLineage, Covered, PatternIn
<1> QED BY <1>1, <1>2, <1>3, <1>5 DEF RetroInv

LEMMA SaveNightKeeps ==
    ASSUME RetroInv, SaveNight
    PROVE  RetroInv'
<1>1. PICK seen \in SUBSET Topics, stale \in SUBSET {t \in Topics : night.copy.found[t] # 0} :
        /\ ledger' = WithRequirements(Detected(Pruned([night.copy EXCEPT !.last = night.now], stale),
                                              seen), night.blind)
        /\ known' = Earliest(ledger'.found, known)
  BY DEF SaveNight
<1>2. /\ night' = Idle /\ night.pc = "save" /\ Judged
      /\ UNCHANGED <<hour, merges, fill, unjudged>>
  BY DEF SaveNight, RetroInv
<1>3. /\ DOMAIN night.copy = {"last", "found", "queue"} /\ DOMAIN night.copy.queue = Topics
      /\ night.copy.found \in [Topics -> Nat] /\ night.now \in Nat /\ hour \in Nat
      /\ night.now \in 0 .. hour
  BY DEF RetroInv, Sound, Shipped
<1> DEFINE D == Detected(Pruned([night.copy EXCEPT !.last = night.now], stale), seen)
<1>4. /\ DOMAIN D = {"last", "found", "queue"} /\ D.queue = night.copy.queue
      /\ D.last = night.now /\ D.found \in [Topics -> Nat]
  BY <1>3 DEF Detected, Pruned
<1> HIDE DEF D
<1>5. /\ DOMAIN ledger' = {"last", "found", "queue"} /\ DOMAIN ledger'.queue = Topics
      /\ ledger'.last = night.now /\ ledger'.found \in [Topics -> Nat]
      /\ \A t \in Topics : night.copy.queue[t] \subseteq ledger'.queue[t]
      /\ \A t \in Topics, i \in night.blind : PatternIn(i) = t => i \in ledger'.queue[t]
  <2>1. ledger' = WithRequirements(D, night.blind)
    BY <1>1 DEF D
  <2> QED BY <1>3, <1>4, <2>1, WithRequirementsAdds
<1>6. /\ known' \in [Topics -> Nat] /\ Foreseen(ledger.found)'
      /\ \A t \in Topics : known[t] # 0 => known'[t] # 0 /\ known'[t] <= known[t]
  BY <1>1, <1>5, EarliestIsLowest DEF RetroInv, Foreseen
<1>7. Grows /\ Shipped'
  BY <1>2, <1>3, <1>6 DEF Grows, RetroInv, Shipped
<1>8. Sound(night.copy)' /\ Sound(fill.copy)'
  BY <1>2, <1>7, CopiesStay DEF Idle
<1>9. Complete(ledger)'
  <2> SUFFICES ASSUME NEW i \in Before(ledger.last)', i \notin unjudged', Blind(i)'
               PROVE  i \in ledger'.queue[PatternIn(i)']
    BY DEF Complete
  <2>1. i \in DOMAIN merges /\ i \in Before(night.now) /\ i \notin unjudged
    BY <1>2, <1>5 DEF Before
  <2>2. Blind(i) /\ PatternIn(i)' = PatternIn(i) /\ PatternIn(i) \in Topics
    BY <1>2, <1>7, <2>1, BlindBefore DEF RetroInv, Shipped, PatternIn
  <2> QED BY <1>2, <1>5, <2>1, <2>2 DEF Judged
<1>10. Sound(ledger)'
  BY <1>2, <1>3, <1>5, <1>6, <1>9 DEF Sound
<1> QED BY <1>2, <1>6, <1>7, <1>8, <1>10 DEF RetroInv, Idle, RunFields, Shipped

LEMMA SaveFillKeeps ==
    ASSUME RetroInv, SaveFill
    PROVE  RetroInv'
<1>1. PICK blind : ledger' = WithRequirements(fill.copy, blind)
  BY DEF SaveFill
<1>2. fill' = Idle /\ UNCHANGED <<hour, merges, night, unjudged, known>>
  BY DEF SaveFill
<1>3. Grows /\ Shipped'
  BY <1>2, StillGrows
<1>4. Sound(fill.copy)
  BY DEF RetroInv
<1>5. Sound(ledger') /\ UNCHANGED <<hour, merges, unjudged, known>>
  <2>1. /\ DOMAIN ledger' = {"last", "found", "queue"} /\ DOMAIN ledger'.queue = Topics
        /\ ledger'.last = fill.copy.last /\ ledger'.found = fill.copy.found
        /\ \A t \in Topics : fill.copy.queue[t] \subseteq ledger'.queue[t]
    <3>1. DOMAIN fill.copy = {"last", "found", "queue"} /\ DOMAIN fill.copy.queue = Topics
      BY <1>4 DEF Sound
    <3> QED BY <1>1, <3>1, WithRequirementsAdds
  <2>2. \A i \in Before(fill.copy.last) : PatternIn(i) \in Topics
    BY DEF RetroInv, Shipped, Before, PatternIn
  <2>3. Complete(ledger')
    BY <1>4, <2>1, <2>2 DEF Sound, Complete
  <2> QED BY <1>2, <1>4, <2>1, <2>3 DEF Sound
<1>6. Sound(ledger)'
  BY <1>5 DEF Sound, Foreseen, Complete, Before, Blind, BlindSpot, DetectorBorn, CardLineage,
              Covered, PatternIn
<1>7. Sound(night.copy)' /\ Sound(fill.copy)'
  BY <1>2, <1>3, CopiesStay DEF Idle
<1>8. night.pc = "save" => Judged'
  BY <1>2, <1>3, JudgedStays DEF RetroInv
<1> QED BY <1>2, <1>3, <1>6, <1>7, <1>8 DEF RetroInv, Idle, RunFields

LEMMA RetroInvariance == RetroSpec => []RetroInv
<1>1. RetroInv /\ [RetroNext]_retroVars => RetroInv'
  <2> SUFFICES ASSUME RetroInv, [RetroNext]_retroVars PROVE RetroInv'
    OBVIOUS
  <2>1. CASE UNCHANGED retroVars
    <3>1. UNCHANGED <<hour, merges, known, unjudged, ledger, night, fill>>
      BY <2>1 DEF retroVars
    <3>2. Grows /\ Shipped'
      BY <3>1, StillGrows
    <3>3. Sound(ledger)' /\ Sound(night.copy)' /\ Sound(fill.copy)'
      BY <3>1, <3>2, CopiesStay
    <3>4. night.pc = "save" => Judged'
      BY <3>1, <3>2, JudgedStays DEF RetroInv
    <3> QED BY <3>1, <3>2, <3>3, <3>4 DEF RetroInv
  <2> QED BY <2>1, MergeKeeps, TimeKeeps, RunKeeps, JudgingKeeps, SaveNightKeeps, SaveFillKeeps
          DEF RetroNext
<1> QED BY <1>1, InitRetroInv, PTL DEF RetroSpec

(* However many nights and backfills die or save over one another, a fix    *)
(* before the last run that nothing foresaw is on the queue, unless the log *)
(* of its night could not be read.                                          *)
THEOREM BlindSpotsAreQueued == RetroSpec => []BlindSpotQueued
<1>1. RetroInv => BlindSpotQueued
  BY DEF RetroInv, Sound, Complete, Blind, BlindSpotQueued
<1> QED BY <1>1, RetroInvariance, PTL

-----------------------------------------------------------------------------
(* The tools of a board.  A digest has told only what its file holds, so    *)
(* what is fresh was never told.  The guard acts before it saves: what it   *)
(* has told is in its file, in the copy of the tick, is the pair it is at,  *)
(* or was in the hands of a run that died.                                  *)

Acting == {"pairs", "follower", "holder"}
Commenting == {"follower", "holder"}
GuardFields == {"pc", "mem", "at", "todo", "lines"}

Boarded ==
    /\ setting \in Boards /\ DOMAIN board = DOMAIN setting.paths
    /\ DOMAIN tick = Tools /\ DOMAIN state = Tools

DigestInv(t) ==
    /\ tick[t].pc \in {"idle", "save", "deliver"}
    /\ \A x \in told : x[1] = t => x[2] \in state[t]
    /\ tick[t].pc # "idle" =>
         DOMAIN tick[t] = {"pc", "found", "fresh"} /\ tick[t].fresh \subseteq tick[t].found
    /\ tick[t].pc = "save" => tick[t].fresh \cap state[t] = {}
    /\ tick[t].pc = "deliver" =>
         tick[t].found \subseteq state[t] /\ \A k \in tick[t].fresh : <<t, k>> \notin told

(* What may be told: it was not, or by a run that was lost.                 *)
Untold(k) == <<"guard", k>> \in told => <<"guard", k>> \in lost

(* Where a key that was told is on record.                                  *)
Kept(k) == <<"guard", k>> \in lost \/ k \in state["guard"]

Recorded(k, g) ==
    \/ Kept(k)
    \/ g.pc \in Acting /\ k \in g.mem
    \/ g.pc \in Commenting /\ k = g.at

(* What the guard still has to do is untold, and no line is a pair to come. *)
Pursued(g) ==
    /\ g.pc \in Acting =>
         /\ state["guard"] \subseteq g.mem /\ g.lines \cap g.todo = {}
         /\ \A p \in g.todo : Untold(p) \/ (g.pc \in Commenting /\ p = g.at)
    /\ g.pc # "idle" => \A k \in g.lines : Untold(k)
    /\ g.pc = "print" => g.lines \subseteq state["guard"]

GuardShape(g) ==
    /\ g.pc \in {"idle", "print"} \cup Acting
    /\ g.pc # "idle" => DOMAIN g = GuardFields
    /\ g.pc \in Acting => \A p \in g.todo : p \in Cards \X Cards /\ p[1] < p[2]
    /\ g.pc \in Commenting => g.at \in g.todo

GuardInv(g) ==
    setting.mode # "dry" =>
        /\ \A x \in told : x[1] = "guard" => Recorded(x[2], g)
        /\ Pursued(g)

BoardInv ==
    /\ Boarded /\ DigestInv("death") /\ DigestInv("input")
    /\ GuardShape(tick["guard"]) /\ GuardInv(tick["guard"])
    /\ ToldOnce

LEMMA InitBoardInv == ToolsInit => BoardInv
BY DEF ToolsInit, Asleep, Tools, Acting, Commenting, BoardInv, Boarded, DigestInv, GuardShape,
       GuardInv, Pursued, Untold, Recorded, Kept, ToldOnce

(* What a step that is not a tool's own leaves of its part.                 *)
LEMMA DigestUnmoved ==
    ASSUME NEW t, DigestInv(t), tick'[t] = tick[t], state'[t] = state[t],
           \A x \in told' : x \in told \/ x[1] # t
    PROVE  DigestInv(t)'
BY DEF DigestInv

LEMMA GuardUnmoved ==
    ASSUME GuardShape(tick["guard"]), GuardInv(tick["guard"]), DOMAIN board' = DOMAIN board,
           setting' = setting, tick'["guard"] = tick["guard"], state'["guard"] = state["guard"],
           \A x \in told' : x \in told \/ x[1] # "guard", lost \subseteq lost'
    PROVE  GuardShape(tick["guard"])' /\ GuardInv(tick["guard"])'
<1> DEFINE g == tick["guard"]
<1>1. g' = g
  OBVIOUS
<1>2. GuardShape(g)'
  BY <1>1 DEF GuardShape, Cards
<1>3. ASSUME NEW k, Untold(k) PROVE Untold(k)'
  BY <1>3 DEF Untold
<1>4. ASSUME setting.mode # "dry"
      PROVE  (\A x \in told : x[1] = "guard" => Recorded(x[2], g))'
  BY <1>1, <1>4 DEF GuardInv, Recorded, Kept
<1>5. ASSUME setting.mode # "dry" PROVE Pursued(g)'
  BY <1>1, <1>3, <1>5 DEF GuardInv, Pursued
<1> QED BY <1>2, <1>4, <1>5 DEF GuardInv

LEMMA BoardMovesKeeps ==
    ASSUME BoardInv, Event \/ Ages \/ UNCHANGED toolVars
    PROVE  BoardInv'
<1>1. DOMAIN board' = DOMAIN board /\ UNCHANGED <<setting, state, tick, told, again, lost>>
  BY DEF Event, Ages, toolVars, BoardMoves, Blocked, Commented
<1>2. DigestInv("death")' /\ DigestInv("input")'
  BY <1>1, DigestUnmoved DEF BoardInv
<1>3. GuardShape(tick["guard"])' /\ GuardInv(tick["guard"])'
  BY <1>1, GuardUnmoved DEF BoardInv
<1> QED BY <1>1, <1>2, <1>3 DEF BoardInv, Boarded, ToldOnce

LEMMA DigestKeeps ==
    ASSUME BoardInv, NEW t \in {"death", "input"},
           \/ \E found : Discovered(t, found)
           \/ SaveState(t)
           \/ Delivered(t)
    PROVE  BoardInv'
<1>1. Boarded /\ DigestInv(t) /\ t \in Tools /\ t # "guard" /\ "guard" \in Tools
  BY DEF BoardInv, Tools
<1>2. UNCHANGED <<setting, board, lost>>
  BY DEF Discovered, SaveState, Delivered
<1>3. /\ DigestInv(t)' /\ again' = again
      /\ DOMAIN tick' = Tools /\ DOMAIN state' = Tools
      /\ \A u \in Tools \ {t} : tick'[u] = tick[u] /\ state'[u] = state[u]
      /\ \A x \in told' : x \in told \/ x[1] = t
  <2>1. CASE \E found : Discovered(t, found)
    <3>1. PICK found : Discovered(t, found)
      BY <2>1
    <3>2. tick' = [tick EXCEPT ![t] = [pc |-> "save", found |-> found, fresh |-> found \ state[t]]]
          /\ UNCHANGED <<state, told, again>>
      BY <3>1 DEF Discovered
    <3> QED BY <1>1, <3>2 DEF DigestInv, Boarded
  <2>2. CASE SaveState(t)
    <3>1. /\ tick[t].pc = "save" /\ UNCHANGED <<told, again>>
          /\ state' = [state EXCEPT ![t] = @ \cup tick[t].found]
          /\ tick' = [tick EXCEPT ![t] = [tick[t] EXCEPT !.pc = "deliver"]]
      BY <2>2 DEF SaveState, Known
    <3>2. /\ tick'[t] = [tick[t] EXCEPT !.pc = "deliver"]
          /\ state'[t] = state[t] \cup tick[t].found
      BY <1>1, <3>1 DEF Boarded
    <3>3. \A k \in tick[t].fresh : <<t, k>> \notin told
      BY <1>1, <3>1 DEF DigestInv
    <3>4. DigestInv(t)'
      BY <1>1, <3>1, <3>2, <3>3 DEF DigestInv
    <3> QED BY <1>1, <3>1, <3>4 DEF Boarded
  <2>3. CASE Delivered(t)
    <3>1. /\ tick[t].pc = "deliver" /\ state' = state
          /\ told' = told \cup {<<t, k>> : k \in tick[t].fresh}
          /\ again' = again \cup {<<t, k>> : k \in {k \in tick[t].fresh : <<t, k>> \in told}}
          /\ tick' = [tick EXCEPT ![t] = Asleep]
      BY <2>3 DEF Delivered, Tell
    <3>2. again' = again
      BY <1>1, <3>1 DEF DigestInv
    <3>3. tick'[t].pc = "idle"
      BY <1>1, <3>1 DEF Boarded, Asleep
    <3>4. tick[t].fresh \subseteq state[t]
      BY <1>1, <3>1 DEF DigestInv
    <3>5. \A x \in told' : x \in told \/ (x[1] = t /\ x[2] \in tick[t].fresh)
      BY <3>1
    <3>6. DigestInv(t)'
      BY <1>1, <3>1, <3>3, <3>4, <3>5 DEF DigestInv
    <3> QED BY <1>1, <3>1, <3>2, <3>5, <3>6 DEF Boarded
  <2> QED BY <2>1, <2>2, <2>3
<1>4. ASSUME NEW u \in {"death", "input"} PROVE DigestInv(u)'
  <2>1. CASE u = t
    BY <1>3, <2>1
  <2>2. CASE u # t
    <3>1. u \in Tools \ {t} /\ DigestInv(u)
      BY <2>2 DEF Tools, BoardInv
    <3> QED BY <1>3, <2>2, <3>1, DigestUnmoved
  <2> QED BY <2>1, <2>2
<1>5. GuardShape(tick["guard"])' /\ GuardInv(tick["guard"])'
  BY <1>1, <1>2, <1>3, GuardUnmoved DEF BoardInv
<1> QED BY <1>1, <1>2, <1>3, <1>4, <1>5 DEF BoardInv, Boarded, ToldOnce

LEMMA GuardOnly ==
    ASSUME BoardInv, DOMAIN board' = DOMAIN board, setting' = setting,
           DOMAIN tick' = Tools, DOMAIN state' = Tools,
           \A u \in Tools \ {"guard"} : tick'[u] = tick[u] /\ state'[u] = state[u],
           \A x \in told' : x \in told \/ x[1] = "guard",
           GuardShape(tick["guard"])', GuardInv(tick["guard"])', ToldOnce'
    PROVE  BoardInv'
<1>1. ASSUME NEW u \in {"death", "input"} PROVE DigestInv(u)'
  <2>1. u \in Tools \ {"guard"} /\ DigestInv(u)
    BY DEF Tools, BoardInv
  <2> QED BY <2>1, DigestUnmoved
<1> QED BY <1>1 DEF BoardInv, Boarded

LEMMA GuardScanKeeps ==
    ASSUME BoardInv, GuardScan
    PROVE  BoardInv'
<1>1. PICK shown \in SUBSET Open :
        tick' = [tick EXCEPT !["guard"] =
                   [pc |-> "pairs", mem |-> state["guard"], at |-> <<0, 0>>,
                    todo |-> Overlaps(shown) \ state["guard"],
                    lines |-> Nags(shown) \ state["guard"]]]
  BY DEF GuardScan
<1>2. tick["guard"].pc = "idle" /\ UNCHANGED <<setting, board, state, told, again, lost>>
  BY DEF GuardScan
<1> DEFINE g == tick'["guard"]
<1>3. /\ DOMAIN tick' = Tools /\ \A u \in Tools \ {"guard"} : tick'[u] = tick[u]
      /\ g.pc = "pairs" /\ g.mem = state["guard"] /\ DOMAIN g = GuardFields
      /\ g.todo = Overlaps(shown) \ state["guard"] /\ g.lines = Nags(shown) \ state["guard"]
  BY <1>1 DEF BoardInv, Boarded, Tools, GuardFields
<1>4. /\ Cards \subseteq Nat /\ shown \subseteq Cards
      /\ \A p \in Overlaps(shown) : p \in Cards \X Cards /\ p[1] < p[2]
      /\ \A p \in Nags(shown) : p[2] = 0
  BY BoardAssumption DEF BoardInv, Boarded, Cards, Open, Overlaps, Nags
<1>5. \A p \in Overlaps(shown) : p[2] # 0
  <2> SUFFICES ASSUME NEW p \in Overlaps(shown) PROVE p[2] # 0
    OBVIOUS
  <2>1. p[1] \in Nat /\ p[2] \in Nat /\ p[1] < p[2]
    BY <1>4
  <2> QED BY <2>1
<1>6. GuardShape(tick["guard"])'
  BY <1>2, <1>3, <1>4 DEF GuardShape, Acting, Commenting, Cards
<1>7. ASSUME setting.mode # "dry"
      PROVE  /\ \A k : k \in state["guard"] \/ Untold(k)
             /\ \A x \in told : x[1] = "guard" => Kept(x[2])
  <2>1. \A x \in told : x[1] = "guard" => Kept(x[2])
    BY <1>2, <1>7 DEF BoardInv, GuardInv, Recorded, Kept, Acting, Commenting
  <2> QED BY <2>1 DEF Untold, Kept
<1>8. ASSUME setting.mode # "dry" PROVE Pursued(tick["guard"])'
  <2>1. g.lines \cap g.todo = {}
    BY <1>3, <1>4, <1>5
  <2>2. \A k \in g.todo \cup g.lines : Untold(k)
    BY <1>3, <1>7, <1>8
  <2>3. \A k \in g.todo \cup g.lines : Untold(k)'
    BY <1>2, <2>2 DEF Untold
  <2> QED BY <1>2, <1>3, <2>1, <2>3 DEF Pursued
<1>9. GuardInv(tick["guard"])'
  BY <1>2, <1>7, <1>8 DEF GuardInv, Recorded, Kept
<1> QED BY <1>2, <1>3, <1>6, <1>9, GuardOnly DEF BoardInv, Boarded, ToldOnce

(* The next pair is one that is left to do: the least in age of the holders *)
(* and, among the followers of that one, the least in age.                  *)
LEMMA NextPairIsTodo ==
    ASSUME BoardInv, tick["guard"].pc \in Acting, tick["guard"].todo # {}
    PROVE  NextPair \in tick["guard"].todo
<1> DEFINE todo == tick["guard"].todo
           Holders == {p[1] : p \in todo}
<1>1. \A p \in todo : p = <<p[1], p[2]>> /\ p[1] \in Nat /\ p[2] \in Nat
  BY BoardAssumption DEF BoardInv, Boarded, GuardShape, Cards
<1>2. PICK a \in Holders : \A n \in Holders : a <= n
  BY <1>1, LeastNumber
<1> DEFINE Followers == {p[2] : p \in {p \in todo : p[1] = a}}
<1>3. Followers \subseteq Nat /\ Followers # {}
  BY <1>1
<1>4. PICK b \in Followers : \A n \in Followers : b <= n
  BY <1>3, LeastNumber
<1>5. PICK p \in todo : p[1] = a /\ p[2] = b
  OBVIOUS
<1>6. ASSUME NEW q \in todo PROVE p[1] < q[1] \/ (p[1] = q[1] /\ p[2] <= q[2])
  <2>1. a <= q[1] /\ a \in Nat /\ q[1] \in Nat
    BY <1>1, <1>2
  <2>2. q[1] = a => b <= q[2]
    BY <1>4
  <2> QED BY <1>5, <2>1, <2>2
<1> QED BY <1>6 DEF NextPair

LEMMA PairDoneLeaves ==
    ASSUME Boarded, DOMAIN tick["guard"] = GuardFields, NEW p
    PROVE  LET T == PairDone(p) IN
           /\ DOMAIN T = Tools /\ \A u \in Tools \ {"guard"} : T[u] = tick[u]
           /\ DOMAIN T["guard"] = GuardFields
           /\ T["guard"].pc = "pairs" /\ T["guard"].todo = tick["guard"].todo \ {p}
           /\ T["guard"].mem = tick["guard"].mem /\ T["guard"].lines = tick["guard"].lines
<1>1. PairDone(p) = [tick EXCEPT !["guard"] = [tick["guard"] EXCEPT !.todo = @ \ {p}, !.pc = "pairs"]]
  BY DEF PairDone, Boarded, Tools, GuardFields
<1> QED BY <1>1 DEF Boarded, Tools, GuardFields

(* The guard comes to its next pair with one pair less, which is told or    *)
(* now a line, on record or left to the next tick.                          *)
LEMMA PairLeft ==
    ASSUME BoardInv, tick["guard"].pc \in Acting, DOMAIN board' = DOMAIN board,
           UNCHANGED <<setting, state, told, again, lost>>,
           NEW p \in tick["guard"].todo,
           tick["guard"].pc \in Commenting => p = tick["guard"].at /\ p \in tick'["guard"].mem,
           DOMAIN tick' = Tools, \A u \in Tools \ {"guard"} : tick'[u] = tick[u],
           DOMAIN tick'["guard"] = GuardFields, tick'["guard"].pc = "pairs",
           tick'["guard"].todo = tick["guard"].todo \ {p},
           tick["guard"].mem \subseteq tick'["guard"].mem,
           \/ tick'["guard"].lines = tick["guard"].lines
           \/ /\ tick["guard"].pc = "pairs"
              /\ tick'["guard"].lines = tick["guard"].lines \cup {p}
    PROVE  BoardInv'
<1> DEFINE g == tick["guard"]
           h == tick'["guard"]
<1>1. GuardShape(g) /\ GuardInv(g) /\ Boarded
  BY DEF BoardInv
<1>2. GuardShape(tick["guard"])'
  BY <1>1 DEF GuardShape, Acting, Commenting, Cards
<1>3. \A k : Untold(k)' <=> Untold(k)
  BY DEF Untold
<1>4. ASSUME setting.mode # "dry"
      PROVE  (\A x \in told : x[1] = "guard" => Recorded(x[2], tick["guard"]))'
  <2> SUFFICES ASSUME NEW x \in told, x[1] = "guard", <<"guard", x[2]>> \notin lost
               PROVE  x[2] \in state["guard"] \/ x[2] \in h.mem
    BY DEF Recorded, Kept, Acting
  <2> QED BY <1>1, <1>4 DEF GuardInv, Recorded, Kept
<1>5. ASSUME setting.mode # "dry" PROVE Pursued(tick["guard"])'
  <2>1. state["guard"] \subseteq h.mem /\ h.lines \cap h.todo = {}
    BY <1>1, <1>5 DEF GuardInv, Pursued
  <2>2. \A q \in h.todo : Untold(q)
    BY <1>1, <1>5 DEF GuardInv, Pursued
  <2>3. \A k \in h.lines : Untold(k)
    BY <1>1, <1>5 DEF GuardInv, Pursued, Acting, Commenting
  <2> QED BY <1>3, <2>1, <2>2, <2>3 DEF Pursued, Acting, Commenting
<1>6. GuardInv(tick["guard"])'
  BY <1>4, <1>5 DEF GuardInv
<1> QED BY <1>1, <1>2, <1>6, GuardOnly DEF BoardInv, Boarded, ToldOnce

LEMMA ActingHasFields ==
    ASSUME BoardInv, tick["guard"].pc # "idle"
    PROVE  Boarded /\ DOMAIN tick["guard"] = GuardFields
BY DEF BoardInv, GuardShape

LEMMA ReportPairKeeps ==
    ASSUME BoardInv, ReportPair
    PROVE  BoardInv'
<1>1. tick["guard"].pc = "pairs" /\ tick["guard"].todo # {}
      /\ UNCHANGED <<setting, board, state, told, again, lost>>
      /\ tick' = [PairDone(NextPair) EXCEPT !["guard"].lines = @ \cup {NextPair}]
  BY DEF ReportPair
<1>2. NextPair \in tick["guard"].todo
  BY <1>1, NextPairIsTodo DEF Acting
<1> DEFINE T == PairDone(NextPair)
<1>3. /\ DOMAIN T = Tools /\ \A u \in Tools \ {"guard"} : T[u] = tick[u]
      /\ DOMAIN T["guard"] = GuardFields
      /\ T["guard"].pc = "pairs" /\ T["guard"].todo = tick["guard"].todo \ {NextPair}
      /\ T["guard"].mem = tick["guard"].mem /\ T["guard"].lines = tick["guard"].lines
  BY <1>1, ActingHasFields, PairDoneLeaves
<1>4. tick' = [T EXCEPT !["guard"].lines = @ \cup {NextPair}]
  BY <1>1
<1> HIDE DEF T
<1>5. tick' = [T EXCEPT !["guard"] = [T["guard"] EXCEPT !.lines = @ \cup {NextPair}]]
  BY <1>4
<1>6. /\ DOMAIN tick' = Tools /\ \A u \in Tools \ {"guard"} : tick'[u] = tick[u]
      /\ tick'["guard"] = [T["guard"] EXCEPT !.lines = @ \cup {NextPair}]
  BY <1>3, <1>5 DEF Tools
<1>7. /\ DOMAIN tick'["guard"] = GuardFields
      /\ tick'["guard"].pc = "pairs" /\ tick'["guard"].todo = tick["guard"].todo \ {NextPair}
      /\ tick'["guard"].mem = tick["guard"].mem
      /\ tick'["guard"].lines = tick["guard"].lines \cup {NextPair}
  BY <1>3, <1>6 DEF GuardFields
<1> QED BY <1>1, <1>2, <1>6, <1>7, PairLeft DEF Acting, Commenting

LEMMA BlockFailsKeeps ==
    ASSUME BoardInv, BlockFails
    PROVE  BoardInv'
<1>1. tick["guard"].pc = "pairs" /\ tick["guard"].todo # {}
      /\ UNCHANGED <<setting, board, state, told, again, lost>>
      /\ tick' = PairDone(NextPair)
  BY DEF BlockFails
<1>2. NextPair \in tick["guard"].todo
  BY <1>1, NextPairIsTodo DEF Acting
<1>3. /\ DOMAIN tick' = Tools /\ \A u \in Tools \ {"guard"} : tick'[u] = tick[u]
      /\ DOMAIN tick'["guard"] = GuardFields
      /\ tick'["guard"].pc = "pairs" /\ tick'["guard"].todo = tick["guard"].todo \ {NextPair}
      /\ tick'["guard"].mem = tick["guard"].mem /\ tick'["guard"].lines = tick["guard"].lines
  BY <1>1, ActingHasFields, PairDoneLeaves
<1> QED BY <1>1, <1>2, <1>3, PairLeft DEF Acting, Commenting

LEMMA BlockPairKeeps ==
    ASSUME BoardInv, BlockPair
    PROVE  BoardInv'
<1> DEFINE g == tick["guard"]
           p == NextPair
<1>1. g.pc = "pairs" /\ g.todo # {} /\ UNCHANGED <<setting, state, lost>>
      /\ Boarded /\ DOMAIN g = GuardFields /\ GuardShape(g) /\ GuardInv(g)
  BY ActingHasFields DEF BlockPair, BoardInv
<1>2. p \in g.todo
  BY <1>1, NextPairIsTodo DEF Acting
<1> HIDE DEF p
<1>3. CASE tick' = PairDone(p) /\ UNCHANGED <<board, told, again>>
  <2>1. /\ DOMAIN tick' = Tools /\ \A u \in Tools \ {"guard"} : tick'[u] = tick[u]
        /\ DOMAIN tick'["guard"] = GuardFields
        /\ tick'["guard"].pc = "pairs" /\ tick'["guard"].todo = g.todo \ {p}
        /\ tick'["guard"].mem = g.mem /\ tick'["guard"].lines = g.lines
    BY <1>1, <1>3, PairDoneLeaves
  <2> QED BY <1>1, <1>2, <1>3, <2>1, PairLeft DEF Acting, Commenting
<1>4. CASE /\ board' = Blocked(p[2], "untyped") /\ Tell("guard", {p})
           /\ tick' = [tick EXCEPT !["guard"].pc = "follower", !["guard"].at = p]
  <2>1. tick' = [tick EXCEPT !["guard"] = [g EXCEPT !.pc = "follower", !.at = p]]
    BY <1>4
  <2>2. /\ DOMAIN tick' = Tools /\ \A u \in Tools \ {"guard"} : tick'[u] = tick[u]
        /\ tick'["guard"] = [g EXCEPT !.pc = "follower", !.at = p]
    BY <1>1, <2>1 DEF Boarded, Tools
  <2> DEFINE h == tick'["guard"]
  <2>3. /\ DOMAIN h = GuardFields /\ h.pc = "follower" /\ h.at = p
        /\ h.mem = g.mem /\ h.todo = g.todo /\ h.lines = g.lines
    BY <1>1, <2>2 DEF GuardFields
  <2> HIDE DEF h
  <2>4. DOMAIN board' = DOMAIN board
    BY <1>4 DEF Blocked
  <2>5. /\ told' = told \cup {<<"guard", p>>}
        /\ \A x \in again' : x \in again \/ (x = <<"guard", p>> /\ x \in told)
    BY <1>4 DEF Tell
  <2>6. GuardShape(tick["guard"])'
    BY <1>1, <1>2, <2>3, <2>4 DEF GuardShape, Acting, Commenting, Cards, h
  <2>7. ASSUME setting.mode # "dry"
        PROVE  /\ Untold(p) /\ state["guard"] \subseteq g.mem /\ g.lines \cap g.todo = {}
               /\ \A k \in g.todo \cup g.lines : Untold(k)
               /\ \A x \in told : x[1] = "guard" =>
                    Kept(x[2]) \/ x[2] \in g.mem
    BY <1>1, <1>2, <2>7 DEF GuardInv, Pursued, Recorded, Kept, Acting, Commenting
  <2>8. \A k : k # p /\ Untold(k) => Untold(k)'
    BY <1>1, <2>5 DEF Untold
  <2>9. GuardInv(tick["guard"])'
    <3> SUFFICES ASSUME setting.mode # "dry"
                 PROVE  /\ \A x \in told' : x[1] = "guard" => Recorded(x[2], tick["guard"])'
                        /\ Pursued(tick["guard"])'
      BY <1>1 DEF GuardInv
    <3>1. \A x \in told' : x[1] = "guard" => Recorded(x[2], tick["guard"])'
      BY <1>1, <2>3, <2>5, <2>7 DEF Recorded, Kept, Acting, Commenting, h
    <3>2. \A k \in h.todo : Untold(k)' \/ k = h.at
      BY <2>3, <2>7, <2>8
    <3>3. \A k \in h.lines : Untold(k)'
      BY <1>2, <2>3, <2>7, <2>8
    <3>4. Pursued(tick["guard"])'
      BY <1>1, <2>3, <2>7, <3>2, <3>3 DEF Pursued, Acting, Commenting, h
    <3> QED BY <3>1, <3>4
  <2>10. ToldOnce'
    <3>1. setting.mode # "dry"
      BY DEF BlockPair
    <3> QED BY <1>1, <2>5, <2>7, <3>1 DEF ToldOnce, BoardInv, Untold
  <2> QED BY <1>1, <2>2, <2>4, <2>5, <2>6, <2>9, <2>10, GuardOnly DEF Boarded
<1> QED BY <1>3, <1>4 DEF BlockPair, p

LEMMA CommentPairKeeps ==
    ASSUME BoardInv, CommentPair
    PROVE  BoardInv'
<1> DEFINE g == tick["guard"]
           p == g.at
<1>1. g.pc \in Commenting /\ UNCHANGED <<setting, state, told, again, lost>>
      /\ Boarded /\ DOMAIN g = GuardFields /\ GuardShape(g) /\ GuardInv(g) /\ p \in g.todo
  BY ActingHasFields DEF CommentPair, BoardInv, Commenting, GuardShape
<1>2. DOMAIN board' = DOMAIN board
  BY DEF CommentPair, Commented
<1>3. CASE tick' = [tick EXCEPT !["guard"].pc = "holder"]
  <2>1. /\ DOMAIN tick' = Tools /\ \A u \in Tools \ {"guard"} : tick'[u] = tick[u]
        /\ tick'["guard"] = [g EXCEPT !.pc = "holder"]
    BY <1>1, <1>3 DEF Boarded, Tools
  <2> DEFINE h == tick'["guard"]
  <2>2. /\ DOMAIN h = GuardFields /\ h.pc = "holder" /\ h.at = g.at
        /\ h.mem = g.mem /\ h.todo = g.todo /\ h.lines = g.lines
    BY <1>1, <2>1 DEF GuardFields
  <2> HIDE DEF h
  <2>3. GuardShape(tick["guard"])'
    BY <1>1, <1>2, <2>2 DEF GuardShape, Acting, Commenting, Cards, h
  <2>4. \A k : Untold(k)' <=> Untold(k)
    BY <1>1 DEF Untold
  <2>5. GuardInv(tick["guard"])'
    BY <1>1, <2>2, <2>4 DEF GuardInv, Pursued, Recorded, Kept, Acting, Commenting, h
  <2> QED BY <1>1, <1>2, <2>1, <2>3, <2>5, GuardOnly DEF BoardInv, Boarded, ToldOnce
<1>4. CASE tick' = [PairDone(p) EXCEPT !["guard"].mem = @ \cup {p}]
  <2> DEFINE T == PairDone(p)
  <2>1. /\ DOMAIN T = Tools /\ \A u \in Tools \ {"guard"} : T[u] = tick[u]
        /\ DOMAIN T["guard"] = GuardFields
        /\ T["guard"].pc = "pairs" /\ T["guard"].todo = g.todo \ {p}
        /\ T["guard"].mem = g.mem /\ T["guard"].lines = g.lines
    BY <1>1, PairDoneLeaves
  <2>2. tick' = [T EXCEPT !["guard"] = [T["guard"] EXCEPT !.mem = @ \cup {p}]]
    BY <1>4
  <2> HIDE DEF T
  <2>3. /\ DOMAIN tick' = Tools /\ \A u \in Tools \ {"guard"} : tick'[u] = tick[u]
        /\ tick'["guard"] = [T["guard"] EXCEPT !.mem = @ \cup {p}]
    BY <2>1, <2>2 DEF Tools
  <2>4. /\ DOMAIN tick'["guard"] = GuardFields
        /\ tick'["guard"].pc = "pairs" /\ tick'["guard"].todo = g.todo \ {p}
        /\ tick'["guard"].mem = g.mem \cup {p} /\ tick'["guard"].lines = g.lines
    BY <2>1, <2>3 DEF GuardFields
  <2> QED BY <1>1, <1>2, <2>3, <2>4, PairLeft DEF Acting, Commenting
<1> QED BY <1>3, <1>4 DEF CommentPair

LEMMA GuardSaveKeeps ==
    ASSUME BoardInv, GuardSave
    PROVE  BoardInv'
<1> DEFINE g == tick["guard"]
           h == tick'["guard"]
<1>1. /\ g.pc = "pairs" /\ UNCHANGED <<setting, board, told, again, lost>>
      /\ tick' = [tick EXCEPT !["guard"] = [g EXCEPT !.pc = "print"]]
      /\ Boarded /\ DOMAIN g = GuardFields /\ GuardShape(g) /\ GuardInv(g)
  BY ActingHasFields DEF GuardSave, BoardInv
<1>2. /\ DOMAIN state' = Tools /\ \A u \in Tools \ {"guard"} : state'[u] = state[u]
      /\ setting.mode # "dry" => state'["guard"] = g.mem \cup g.lines
  BY <1>1 DEF GuardSave, Known, Boarded, Tools
<1>3. /\ DOMAIN tick' = Tools /\ \A u \in Tools \ {"guard"} : tick'[u] = tick[u]
      /\ h = [g EXCEPT !.pc = "print"]
  BY <1>1 DEF Boarded, Tools
<1>4. DOMAIN h = GuardFields /\ h.pc = "print" /\ h.lines = g.lines
  BY <1>1, <1>3 DEF GuardFields
<1> HIDE DEF h
<1>5. GuardShape(tick["guard"])'
  BY <1>4 DEF GuardShape, Acting, Commenting, h
<1>6. \A k : Untold(k)' <=> Untold(k)
  BY <1>1 DEF Untold
<1>7. GuardInv(tick["guard"])'
  <2> SUFFICES ASSUME setting.mode # "dry"
               PROVE  /\ \A x \in told' : x[1] = "guard" => Recorded(x[2], tick["guard"])'
                      /\ Pursued(tick["guard"])'
    BY <1>1 DEF GuardInv
  <2>1. /\ state["guard"] \subseteq g.mem /\ \A k \in g.lines : Untold(k)
        /\ \A x \in told : x[1] = "guard" =>
             Kept(x[2]) \/ x[2] \in g.mem
    BY <1>1 DEF GuardInv, Pursued, Recorded, Kept, Acting, Commenting
  <2>2. \A x \in told' : x[1] = "guard" => Kept(x[2])'
    BY <1>1, <1>2, <2>1 DEF Kept
  <2>3. Pursued(tick["guard"])'
    BY <1>2, <1>4, <1>6, <2>1 DEF Pursued, Acting, Commenting, h
  <2> QED BY <2>2, <2>3 DEF Recorded, Kept
<1> QED BY <1>1, <1>2, <1>3, <1>5, <1>7, GuardOnly DEF BoardInv, Boarded, ToldOnce

LEMMA GuardPrintKeeps ==
    ASSUME BoardInv, GuardPrint
    PROVE  BoardInv'
<1> DEFINE g == tick["guard"]
<1>1. /\ g.pc = "print" /\ UNCHANGED <<setting, board, state, lost>>
      /\ tick' = [tick EXCEPT !["guard"] = Asleep]
      /\ Boarded /\ GuardInv(g)
  BY DEF GuardPrint, BoardInv
<1>2. /\ DOMAIN tick' = Tools /\ \A u \in Tools \ {"guard"} : tick'[u] = tick[u]
      /\ tick'["guard"].pc = "idle"
  BY <1>1 DEF Boarded, Tools, Asleep
<1>3. /\ told' = told \cup {<<"guard", k>> : k \in g.lines}
      /\ \A x \in again' : x \in again \/ (/\ setting.mode # "dry" /\ x \in told
                                         /\ \E k \in g.lines : x = <<"guard", k>>)
  <2>1. CASE setting.mode = "dry"
    BY <2>1 DEF GuardPrint
  <2>2. CASE setting.mode # "dry"
    <3>1. /\ told' = told \cup {<<"guard", k>> : k \in g.lines}
          /\ again' = again \cup {<<"guard", k>> : k \in {k \in g.lines : <<"guard", k>> \in told}}
      BY <2>2 DEF GuardPrint, Tell
    <3> QED BY <2>2, <3>1
  <2> QED BY <2>1, <2>2
<1>4. GuardShape(tick["guard"])'
  BY <1>2 DEF GuardShape, Acting, Commenting
<1>5. ASSUME setting.mode # "dry"
      PROVE  /\ \A k \in g.lines : Untold(k) /\ k \in state["guard"]
             /\ \A x \in told : x[1] = "guard" => Kept(x[2])
  BY <1>1, <1>5 DEF GuardInv, Pursued, Recorded, Kept, Acting, Commenting
<1>6. GuardInv(tick["guard"])'
  <2> SUFFICES ASSUME setting.mode # "dry"
               PROVE  /\ \A x \in told' : x[1] = "guard" => Recorded(x[2], tick["guard"])'
                      /\ Pursued(tick["guard"])'
    BY <1>1 DEF GuardInv
  <2>1. \A x \in told' : x[1] = "guard" => Kept(x[2])
    BY <1>3, <1>5 DEF Kept
  <2> QED BY <1>1, <1>2, <2>1 DEF Recorded, Kept, Pursued, Acting, Commenting
<1>7. ToldOnce'
  BY <1>1, <1>3, <1>5 DEF ToldOnce, BoardInv, Untold
<1>8. \A x \in told' : x \in told \/ x[1] = "guard"
  BY <1>3
<1> QED BY <1>1, <1>2, <1>4, <1>6, <1>7, <1>8, GuardOnly DEF Boarded

LEMMA RunDiesKeeps ==
    ASSUME BoardInv, NEW t \in Tools, RunDies(t)
    PROVE  BoardInv'
<1>1. /\ UNCHANGED <<setting, board, state, told, again>> /\ lost \subseteq lost'
      /\ lost' = lost \cup {<<t, k>> : k \in Unsaved(t)}
      /\ tick' = [tick EXCEPT ![t] = Asleep] /\ Boarded
  BY DEF RunDies, BoardInv
<1>2. /\ DOMAIN tick' = Tools /\ \A u \in Tools \ {t} : tick'[u] = tick[u]
      /\ tick'[t].pc = "idle"
  BY <1>1 DEF Boarded, Asleep
<1>3. ToldOnce'
  BY <1>1 DEF ToldOnce, BoardInv
<1>4. CASE t = "guard"
  <2> DEFINE g == tick["guard"]
  <2>1. GuardShape(tick["guard"])'
    BY <1>2, <1>4 DEF GuardShape, Acting, Commenting
  <2>2. ASSUME setting.mode # "dry", NEW x \in told, x[1] = "guard", <<"guard", x[2]>> \notin lost
        PROVE  x[2] \in state["guard"] \/ x[2] \in Unsaved("guard")
    BY <2>2 DEF BoardInv, GuardInv, Recorded, Kept, Acting, Commenting, Unsaved
  <2>3. GuardInv(tick["guard"])'
    BY <1>1, <1>2, <1>4, <2>2 DEF GuardInv, Pursued, Recorded, Kept, Acting, Commenting
  <2> QED BY <1>1, <1>2, <1>3, <1>4, <2>1, <2>3, GuardOnly DEF Boarded
<1>5. CASE t \in {"death", "input"}
  <2>1. ASSUME NEW u \in {"death", "input"} PROVE DigestInv(u)'
    <3>1. CASE u = t
      BY <1>1, <1>2, <3>1 DEF BoardInv, DigestInv
    <3>2. CASE u # t
      BY <1>1, <1>2, <3>2, DigestUnmoved DEF BoardInv, Tools
    <3> QED BY <3>1, <3>2
  <2>2. GuardShape(tick["guard"])' /\ GuardInv(tick["guard"])'
    BY <1>1, <1>2, <1>5, GuardUnmoved DEF BoardInv, Tools
  <2> QED BY <1>1, <1>2, <1>3, <2>1, <2>2 DEF BoardInv, Boarded
<1> QED BY <1>4, <1>5 DEF Tools

LEMMA BoardInvariance == ToolsSpec => []BoardInv
<1>1. BoardInv /\ [ToolsNext]_toolVars => BoardInv'
  <2> SUFFICES ASSUME BoardInv, [ToolsNext]_toolVars PROVE BoardInv'
    OBVIOUS
  <2>1. CASE Event \/ Ages \/ UNCHANGED toolVars
    BY <2>1, BoardMovesKeeps
  <2>2. CASE DeathStep
    BY <2>2, DigestKeeps DEF DeathStep, DiscoverSilentDeathBlocks, DigestDeaths
  <2>3. CASE InputStep
    BY <2>3, DigestKeeps DEF InputStep, DiscoverNeedsInput, SummarizeInputs
  <2>4. CASE GuardStep
    BY <2>4, GuardScanKeeps, ReportPairKeeps, BlockPairKeeps, BlockFailsKeeps, CommentPairKeeps,
       GuardSaveKeeps, GuardPrintKeeps DEF GuardStep
  <2>5. CASE \E t \in Tools : RunDies(t)
    BY <2>5, RunDiesKeeps
  <2> QED BY <2>1, <2>2, <2>3, <2>4, <2>5 DEF ToolsNext
<1> QED BY <1>1, InitBoardInv, PTL DEF ToolsSpec

(* Neither digest repeats an episode, and the guard does again only what a  *)
(* run that died had done or found and not saved.                           *)
THEOREM NothingToldTwice == ToolsSpec => []ToldOnce
<1>1. BoardInv => ToldOnce
  BY DEF BoardInv
<1> QED BY <1>1, BoardInvariance, PTL
=============================================================================
