--------------------------- MODULE HarnessLedger ---------------------------
(* The nightly harness loop (harness_loop.py) as the keeper of a ledger of  *)
(* findings.  A run loads the ledger, detects what is wrong in sessions,    *)
(* boards, cron jobs and skills, folds the detections into the ledger,      *)
(* revalidates it, lets an analyzer propose fixes, routes at most one       *)
(* proposal and one process amendment into pairs of cards, and saves the    *)
(* ledger once.  The world moves, the operator and other people act, native *)
(* commands fail or answer too late and the process dies between any two    *)
(* steps.  Findings are named for their detectors: a session over the token *)
(* threshold (live, ended), a done task without a review (gap), a cron job  *)
(* in error or switched off (job), a question asked again (reask), a skill  *)
(* that contradicts itself (skill), a card out of retries (spent) and the   *)
(* loop's own stall (stall).                                                *)
EXTENDS Integers, FiniteSets

CONSTANTS
    Casts,          \* the settings explored: [findings, analysis, moves], where
                    \* moves bounds those of the world and of people, dry runs
                    \* among them
    Cooldown,       \* nights during which a suggested finding is not routed
    Retention,      \* nights a stale entry is kept after it was last seen
    RetireNights,   \* nights after which a report-only entry goes dormant
    StallNights,    \* nights without a proposal that make a stall
    MaxFaults       \* failed native commands and lost runs explored

Names == {"live", "ended", "gap", "job", "reask", "skill", "spent", "stall"}
Channels == {"code", "process"}

ASSUME LedgerAssumption ==
    /\ \A c \in Casts : c.findings \subseteq Names /\ c.analysis \in {"off", "on"} /\ c.moves \in Nat
    /\ {Cooldown, Retention, RetireNights, StallNights} \subseteq Nat \ {0}
    /\ MaxFaults \in Nat

VARIABLES
    cast,    \* the setting of this behaviour
    world,   \* what the collectors read
    file,    \* the ledger on disk
    run,     \* the run in progress: its snapshot, its ledger, its routing
    cards,   \* the pair of cards per channel and routed identity
    bounds   \* moves and faults so far

vars == <<cast, world, file, run, cards, bounds>>

Findings == cast.findings

ApplyKind(f) ==
    CASE f = "reask" -> "process" [] f = "skill" -> "orchestration" [] OTHER -> "none"

Working == {"open", "deferred"}
Statuses == Working \cup {"none", "resolved", "stale", "applied", "monitor"}

(* An entry of the queue; "none" is an entry that is not there.  suggested  *)
(* counts the nights since the finding was last suggested, up to Cooldown.  *)
NoEntry == [status |-> "none", count |-> 0, age |-> 0]

NewLedger ==
    [entry |-> [f \in Names |-> NoEntry], topics |-> {}, ran |-> FALSE,
     suggested |-> [f \in Names |-> Cooldown], silent |-> 0]

Idle == [pc |-> "idle"]

(* A proposal that stands on several findings has an identity of its own.   *)
Identities == Names \cup {"joint"}

NoCards == [c \in Channels |-> [f \in Identities |-> [impl |-> "none", review |-> "none"]]]

Init ==
    /\ cast \in Casts
    /\ world = [session |-> "absent", task |-> "absent", job |-> "ok", asked |-> FALSE,
                contradiction |-> FALSE, trip |-> "none", commits |-> {}]
    /\ file = NewLedger /\ run = Idle /\ cards = NoCards
    /\ bounds = [moves |-> 0, faults |-> 0]

-----------------------------------------------------------------------------
(* What moves while nobody looks.                                           *)

Move(field, values) ==
    /\ \E v \in values \ {world[field]} : world' = [world EXCEPT ![field] = v]
    /\ UNCHANGED <<file, cards>>

(* Work in the checkouts and on the boards of the cast.                     *)
WorldMoves ==
    \/ Findings \cap {"live", "ended"} # {}
       /\ Move("session", {"absent", "small", "live", "ended"})
    \/ "gap" \in Findings /\ Move("task", {"absent", "open", "bare", "reviewed"})
    \/ "job" \in Findings /\ Move("job", {"ok", "error", "off", "absent", "unreadable"})
    \/ "reask" \in Findings /\ Move("asked", BOOLEAN)
    \/ "skill" \in Findings /\ Move("contradiction", BOOLEAN)
    \/ "spent" \in Findings /\ Move("trip", {"none", "open", "over"})

(* A commit whose subject names the finding or, for a review gap, its task. *)
Commit ==
    /\ \E f \in Findings \ world.commits : world' = [world EXCEPT !.commits = @ \cup {f}]
    /\ UNCHANGED <<file, cards>>

(* Somebody archives the cards of a pair.                                   *)
Archive ==
    /\ \E c \in Channels, f \in Findings \cup {"joint"}, side \in {"impl", "review"} :
         cards[c][f][side] = "live" /\ cards' = [cards EXCEPT ![c][f][side] = "archived"]
    /\ UNCHANGED <<world, file>>

(* The operator defers, resolves or discards a finding of the working set.  *)
(* The fourth disposition, promote, needs a stored finding of kind hkrc; no *)
(* detector writes one, so it ends in an error and changes nothing.         *)
Dispose ==
    /\ \E f \in Findings, status \in {"deferred", "resolved", "stale"} :
         /\ file.entry[f].status \in Working
         /\ file' = [file EXCEPT !.entry[f].status = status]
    /\ UNCHANGED <<world, cards>>

People ==
    /\ bounds.moves < cast.moves
    /\ bounds' = [bounds EXCEPT !.moves = @ + 1]
    /\ WorldMoves \/ Commit \/ Archive \/ Dispose
    /\ UNCHANGED <<cast, run>>

Capped(n, limit) == IF n < limit THEN n + 1 ELSE limit

(* A day goes by.                                                           *)
Night ==
    /\ run = Idle
    /\ file' = [file EXCEPT !.suggested = [f \in Names |-> Capped(@[f], Cooldown)],
                            !.entry = [f \in Names |-> [@[f] EXCEPT !.age =
                                IF file.entry[f].status = "none" THEN 0
                                ELSE Capped(file.entry[f].age, Retention + 1)]]]
    /\ UNCHANGED <<cast, world, run, cards, bounds>>

-----------------------------------------------------------------------------
(* The detectors, over the world as collected and the ledger as loaded.     *)

DetectBloat == {world.session} \cap {"live", "ended"}
DetectReviewPairGap == IF world.task = "bare" THEN {"gap"} ELSE {}
DetectReask == IF world.asked THEN {"reask"} ELSE {}
DetectSkillContradictions == IF world.contradiction THEN {"skill"} ELSE {}

(* A trip of a card that has ended since is suppressed.                     *)
DetectRetryExhaustion == IF world.trip = "open" THEN {"spent"} ELSE {}

(* A job that is off at once, one in error from its second night on.        *)
CronSelfHealthScan ==
    IF world.job = "off" \/ (world.job = "error" /\ file.entry["job"].count >= 1)
    THEN {"job"} ELSE {}

(* High by its detector, or raised by the ladder: two recurring nights make *)
(* a medium finding high, and every other finding here is high.             *)
High(f, entry) == f # "ended" \/ entry.count >= 2

DetectStalledLoop ==
    IF /\ file.silent >= StallNights
       /\ \E f \in Findings : file.entry[f].status \in Working /\ High(f, file.entry[f])
    THEN {"stall"} ELSE {}

DetectAll ==
    Findings \cap
    UNION {DetectBloat, DetectReviewPairGap, DetectReask, DetectSkillContradictions,
           DetectRetryExhaustion, CronSelfHealthScan, DetectStalledLoop}

-----------------------------------------------------------------------------
(* The dedupe state machine.                                                *)

InCooldown(f, suggested) == suggested[f] < Cooldown

(* Self-health findings are closed by their own rules, never by a commit.   *)
FixedInLog(log) == log \ {"job", "stall"}

Upserted(entry) ==
    [status |-> IF entry.status \in Working THEN entry.status ELSE "open",
     count |-> IF entry.status = "none" THEN 1
               ELSE Capped(IF entry.count = 0 THEN 1 ELSE entry.count, RetireNights),
     age |-> 0]

Marked(entry, status) == IF entry.status = "none" THEN entry ELSE [entry EXCEPT !.status = status]

(* Mutant: a topic is reopened when its finding is detected again.          *)
Detected(seen, ledger) == seen

(* What was resolved once is skipped for ever.                              *)
Unresolved(seen, ledger) == seen \ ledger.topics

Dedupe(ledger, seen, log) ==
    LET fixed == Unresolved(seen, ledger) \cap FixedInLog(log)
        recorded == Unresolved(seen, ledger) \ fixed
        cooled == {f \in recorded : ApplyKind(f) # "none" /\ ~InCooldown(f, ledger.suggested)}
    IN  [ledger EXCEPT
            !.topics = @ \cup fixed,
            !.entry = [f \in Names |->
                CASE f \in recorded -> Upserted(@[f])
                  [] f \in seen \ recorded -> Marked(@[f], "resolved")
                  [] OTHER -> @[f]],
            !.suggested = [f \in Names |-> IF f \in cooled THEN 0 ELSE @[f]]]

-----------------------------------------------------------------------------
(* Revalidation of the working set against the same collections.            *)

ReviewGapOutcome(log) ==
    CASE world.task = "absent" -> IF "gap" \in log THEN "resolved" ELSE "stale"
      [] world.task = "open" -> "stale"
      [] world.task = "reviewed" -> "resolved"
      [] OTHER -> IF "gap" \in log THEN "resolved" ELSE "open"

(* Mutant: a session over the threshold keeps either finding open.          *)
OutcomeOver(f, seen, log) ==
    IF f \in {"live", "ended"} /\ world.session \in {"live", "ended"} THEN "open" ELSE "stale"

Outcome(f, seen, log) ==
    CASE f \in {"live", "ended"} -> IF world.session = f THEN "open" ELSE "stale"
      [] f = "gap" -> ReviewGapOutcome(log)
      [] f = "skill" -> IF world.contradiction THEN "open" ELSE "resolved"
      [] OTHER -> IF f \in seen THEN "open" ELSE "stale"

Revalidate(ledger, seen, log) ==
    LET over == {f \in Findings : /\ ledger.entry[f].status \in Working
                                  /\ Outcome(f, seen, log) # "open"}
    IN  [ledger EXCEPT
            !.entry = [f \in Names |->
                IF f \in over THEN [@[f] EXCEPT !.status = Outcome(f, seen, log)] ELSE @[f]],
            !.topics = @ \cup {f \in over : Outcome(f, seen, log) = "resolved"}]

-----------------------------------------------------------------------------
(* A run: collect, detect, fold, revalidate; then the analyzer; then the    *)
(* two channels, one native command at a time; then everything is saved.    *)

(* The first run has no date to read the log from.                          *)
GitLogSince == IF file.ran THEN world.commits ELSE {}

Begin(mode) ==
    /\ run = Idle
    /\ bounds' = [bounds EXCEPT !.moves = IF mode = "dry" THEN @ + 1 ELSE @]
    /\ bounds'.moves <= cast.moves
    /\ LET seen == DetectAll
           log == GitLogSince
       IN  run' = [pc |-> "analyze", mode |-> mode, seen |-> seen, read |-> world.commits,
                   cooled |-> file.suggested,
                   mem |-> Revalidate(Dedupe(file, seen, log), seen, log),
                   todo |-> {}, at |-> "none", via |-> "code", proposed |-> "none",
                   applied |-> {}, deferred |-> {}]
    /\ UNCHANGED <<cast, world, file, cards>>

WorkingSet == {f \in Findings : run.mem.entry[f].status \in Working}

(* Without an analyzer the ranked queue itself is routed.                   *)
ApplyCandidates ==
    {f \in WorkingSet : ApplyKind(f) \notin {"none", "process"} /\ ~InCooldown(f, run.cooled)}

(* What a proposal may stand on; its text is judged by what it names.       *)
Proposable == {f \in WorkingSet : ~InCooldown(f, run.cooled)}

(* The analyzer's validated proposals, no finding in two of them: one that   *)
(* names a single finding keeps its identity, one that names several joins   *)
(* them.  An analyzer that fails proposes nothing.                           *)
Proposals ==
    (SUBSET Proposable) \cup
    {single \cup {"joint"} :
        single \in {s \in SUBSET Proposable : Cardinality(Proposable \ s) > 1}}

Analyze ==
    /\ run.pc = "analyze"
    /\ \/ /\ cast.analysis = "off"
          /\ run' = [run EXCEPT !.pc = "code", !.todo = ApplyCandidates,
                                !.proposed = IF ApplyCandidates = {} THEN "none" ELSE "some"]
       \/ /\ cast.analysis = "on"
          /\ \E proposals \in Proposals :
               run' = [run EXCEPT !.pc = "code", !.todo = proposals,
                                  !.proposed = IF proposals = {} THEN "none" ELSE "some"]
       \/ /\ cast.analysis = "on" /\ WorkingSet # {}
          /\ run' = [run EXCEPT !.pc = "code", !.proposed = "unknown"]
    /\ UNCHANGED <<cast, world, file, cards, bounds>>

Deferred(f, next) == [run EXCEPT !.pc = next, !.deferred = @ \cup {f}, !.at = "none",
                                 !.todo = @ \ {f}]

(* The scope gate, of the text of a proposal, and the look at its target:   *)
(* only what the analyzer proposes is a fix of this repository.             *)
ScopeGate == IF cast.analysis = "on" THEN {"routed", "refused"} ELSE {"refused"}

(* The policy gate takes the proposals one by one.                          *)
RouteCode ==
    /\ run.pc = "code" /\ run.mode = "live"
    /\ \E f \in run.todo :
         \/ "refused" \in ScopeGate /\ run' = Deferred(f, "code")
         \/ "routed" \in ScopeGate /\ run' = [run EXCEPT !.pc = "impl", !.at = f, !.via = "code"]
    /\ UNCHANGED <<cast, world, file, cards, bounds>>

ProcessCandidates ==
    {f \in WorkingSet : ApplyKind(f) = "process" /\ ~InCooldown(f, run.cooled)}

(* The remediation pack of the finding may be missing or out of its scope.  *)
ProcessScopeGate == {"routed", "refused"}

(* The amendment channel, after the code channel and with its own budget.   *)
RouteProcess ==
    /\ run.pc = "code" /\ (run.mode = "dry" \/ run.todo = {})
    /\ \/ /\ run.mode = "dry" \/ ProcessCandidates = {}
          /\ run' = [run EXCEPT !.pc = "finish"]
       \/ /\ run.mode = "live"
          /\ \E f \in ProcessCandidates :
               \/ "refused" \in ProcessScopeGate /\ run' = Deferred(f, "finish")
               \/ /\ "routed" \in ProcessScopeGate
                  /\ run' = [run EXCEPT !.pc = "impl", !.at = f, !.via = "process"]
    /\ UNCHANGED <<cast, world, file, cards, bounds>>

(* A create answers with the card that has its idempotency key; one that is *)
(* archived no longer counts.                                               *)
Made(f, side) == [cards EXCEPT ![run.via][f][side] = "live"]

(* Mutant: a create that failed counts as a pair.                           *)
Applied(f, next) ==
    [run EXCEPT !.pc = next, !.at = "none", !.todo = {}, !.applied = @ \cup {<<run.via, f>>}]

Missed(f, next) == Deferred(f, next)

After == IF run.via = "code" THEN "code" ELSE "finish"

CreateImpl ==
    /\ run.pc = "impl"
    /\ cards' = Made(run.at, "impl")
    /\ run' = [run EXCEPT !.pc = "review"]
    /\ UNCHANGED <<cast, world, file, bounds>>

(* A pair spends the budget of its channel.                                 *)
CreateReview ==
    /\ run.pc = "review"
    /\ cards' = Made(run.at, "review")
    /\ run' = [run EXCEPT !.pc = After, !.at = "none", !.todo = {},
                          !.applied = @ \cup {<<run.via, run.at>>}]
    /\ UNCHANGED <<cast, world, file, bounds>>

(* A create that fails or answers too late defers the finding.              *)
CreateFails ==
    /\ run.pc \in {"impl", "review"} /\ bounds.faults < MaxFaults
    /\ bounds' = [bounds EXCEPT !.faults = @ + 1]
    /\ cards' \in {cards, Made(run.at, run.pc)}
    /\ run' = Missed(run.at, After)
    /\ UNCHANGED <<cast, world, file>>

Crash ==
    /\ run # Idle /\ bounds.faults < MaxFaults
    /\ bounds' = [bounds EXCEPT !.faults = @ + 1]
    /\ run' = Idle
    /\ UNCHANGED <<cast, world, file, cards>>

-----------------------------------------------------------------------------
(* The end of a live run.                                                   *)

(* A joint pair closes no entry: none has its identity.                     *)
MarkRouted(ledger) ==
    LET applied == {f \in Findings : \E c \in Channels : <<c, f>> \in run.applied}
    IN  [ledger EXCEPT
            !.topics = @ \cup {f \in Findings : <<"code", f>> \in run.applied},
            !.entry = [f \in Names |->
                IF f \in run.deferred THEN Marked(@[f], "deferred")
                ELSE IF f \in applied THEN Marked(@[f], "applied") ELSE @[f]]]

PruneStale(ledger) ==
    [ledger EXCEPT !.entry = [f \in Names |->
        IF @[f].status = "stale" /\ @[f].age > Retention THEN NoEntry ELSE @[f]]]

(* Mutant: the streak starts again every night.                             *)
JobStreakForgotten(entry) ==
    IF world.job = "error" THEN [status |-> "monitor", count |-> 0, age |-> 0] ELSE entry

(* The streak of a cron job counts its nights in error; the store is read   *)
(* again, and a job the scan has already counted is left alone.             *)
JobStreak(entry) ==
    IF world.job \in {"ok", "absent"} /\ (world.job = "absent" \/ "job" \notin run.seen)
    THEN IF entry.count = 0 THEN entry
         ELSE [status |-> "monitor", count |-> 0, age |-> 0]
    ELSE IF world.job = "error" /\ "job" \notin run.seen
    THEN LET nights == Capped(entry.count, RetireNights)
         IN  [status |-> IF nights >= 2 THEN "open" ELSE "monitor", count |-> nights, age |-> 0]
    ELSE entry

RecordCronStreaks(ledger) ==
    IF "job" \in Findings THEN [ledger EXCEPT !.entry["job"] = JobStreak(@)] ELSE ledger

RetireReportOnly(ledger) ==
    [ledger EXCEPT !.entry = [f \in Names |->
        IF /\ ApplyKind(f) = "none" /\ @[f].status \in Working
           /\ @[f].count >= RetireNights
        THEN [@[f] EXCEPT !.status = "monitor"] ELSE @[f]]]

(* An analysis that failed leaves the streak of silent nights as it is.     *)
RecordFunnel(ledger) ==
    [ledger EXCEPT !.silent =
        CASE run.proposed = "some" -> 0
          [] run.proposed = "none" -> Capped(@, StallNights)
          [] OTHER -> @]

Finish ==
    /\ run.pc = "finish" /\ run' = Idle
    /\ \/ run.mode = "dry" /\ UNCHANGED <<world, file>>
       \/ /\ run.mode = "live"
          /\ file' = [RecordFunnel(RetireReportOnly(RecordCronStreaks(PruneStale(
                        MarkRouted(run.mem))))) EXCEPT !.ran = TRUE]
          /\ world' = [world EXCEPT !.commits = @ \ run.read]
    /\ UNCHANGED <<cast, cards, bounds>>

RunStep ==
    Analyze \/ RouteCode \/ RouteProcess \/ CreateImpl \/ CreateReview \/ Finish

Next ==
    \/ People \/ Night \/ Begin("live") \/ Begin("dry")
    \/ RunStep \/ CreateFails \/ Crash

(* The nightly cron starts a live run again and again; dry runs are started *)
(* by hand and lost runs are bounded.                                       *)
Fairness == SF_vars(Begin("live")) /\ WF_vars(RunStep \/ CreateFails)

Spec == Init /\ [][Next]_vars
FairSpec == Spec /\ Fairness
-----------------------------------------------------------------------------
(* What the ledger promises.                                                *)

(* An entry is saved as applied only when both cards of a pair were made: a *)
(* half pair is a deferral, which the next night takes up again.            *)
AppliedHasPair ==
    \A f \in Names : file.entry[f].status = "applied" =>
        \E c \in Channels : cards[c][f].impl # "none" /\ cards[c][f].review # "none"

(* A resolved topic stays closed: what was fixed in the log, revalidated as *)
(* resolved or routed as code is not in the working set of a later night,   *)
(* however often it is detected (dedupe: "skipped forever").  A cron job is *)
(* one exception: its streak recorder asks no topic, and a job routed as a  *)
(* code fix comes back open with the second error of its next streak.  The  *)
(* other is a process finding that the analyzer makes a code proposal of:   *)
(* both channels take it in one run, and when the code pair is made and the *)
(* amendment refused, the closed topic stays behind as a deferral.          *)
TwiceRouted(f) ==
    ApplyKind(f) = "process" /\ cast.analysis = "on" /\ file.entry[f].status = "deferred"

TopicClosesEntry ==
    \A f \in file.topics \ {"job"} : file.entry[f].status \in Working => TwiceRouted(f)

(* One session is one lifecycle: the saved working set never holds the      *)
(* finding of a live session and that of an ended one together.             *)
LifecyclesApart ==
    ~(file.entry["live"].status \in Working /\ file.entry["ended"].status \in Working)

(* A watched job that stays in error comes to the report: the scan and the  *)
(* streak recorder, which share one counter, never leave it below two for   *)
(* ever, lost runs and dry runs in between notwithstanding.                 *)
ErrorEscalates ==
    ("job" \in Findings /\ <>[](world.job = "error")) =>
        <>[](file.entry["job"].count >= 2 \/ "job" \in file.topics)

(* The claim of record_cron_self_health_streaks about a job that is off:    *)
(* the streak is "frozen untouched".  The scan reports the job and dedupe   *)
(* counts the report in the entry that holds the streak.                    *)
StreakFrozenWhileOff ==
    [][(run.pc = "finish" /\ world.job = "off") =>
        file'.entry["job"].count = file.entry["job"].count]_vars
=============================================================================
