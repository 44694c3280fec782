------------------------ MODULE HarnessLedger_proofs ------------------------
(***************************************************************************)
(* Proofs about HarnessLedger: any settings, any number of runs, lost runs, *)
(* failed commands and moves of the world and of people.                   *)
(***************************************************************************)
EXTENDS HarnessLedger, TLAPS

StatusOf(ledger, f) == ledger.entry[f].status

IsWorking(ledger, f) == StatusOf(ledger, f) \in Working

HasPair(c, f) == cards[c][f].impl # "none" /\ cards[c][f].review # "none"

(* A ledger and its entries have their fields, one entry per finding.       *)
Shaped(ledger) ==
    /\ DOMAIN ledger = {"entry", "topics", "ran", "suggested", "silent"}
    /\ DOMAIN ledger.entry = Names
    /\ \A f \in Names : DOMAIN ledger.entry[f] = {"status", "count", "age"}
    /\ ledger.topics \subseteq Names

(* Nothing is recorded of what no detector of the setting looks for.        *)
Bare(ledger) == \A f \in Names \ Findings : StatusOf(ledger, f) = "none"

Apart(ledger) == ~(IsWorking(ledger, "live") /\ IsWorking(ledger, "ended"))

Paired(ledger) ==
    \A f \in Names : StatusOf(ledger, f) = "applied" => \E c \in Channels : HasPair(c, f)

(* In the ledger of a run the topics are closed, those of process findings  *)
(* included: a deferral left behind ends when the next run folds and        *)
(* revalidates.                                                             *)
Closed(ledger) == \A f \in ledger.topics \ {"job"} : ~IsWorking(ledger, f)

LedgerInv(ledger) == Shaped(ledger) /\ Bare(ledger) /\ Apart(ledger) /\ Paired(ledger)

-----------------------------------------------------------------------------
Sides == {"impl", "review"}

CardsInv ==
    /\ DOMAIN cards = Channels
    /\ \A c \in Channels :
         /\ DOMAIN cards[c] = Identities
         /\ \A f \in Identities :
              /\ DOMAIN cards[c][f] = Sides
              /\ \A side \in Sides : cards[c][f][side] \in {"none", "live", "archived"}

RunFields ==
    {"pc", "mode", "seen", "read", "cooled", "mem", "todo", "at", "via", "proposed",
     "applied", "deferred"}

(* What is routed stands on the working set, and what one channel deferred  *)
(* it does not take again.                                                  *)
Routing ==
    /\ run.todo \subseteq {f \in Findings : IsWorking(run.mem, f)} \cup {"joint"}
    /\ run.deferred \subseteq {f \in Findings : IsWorking(run.mem, f)} \cup {"joint"}
    /\ run.todo \cap run.deferred = {}
    /\ cast.analysis = "off" => \A f \in run.todo : ApplyKind(f) # "process"

(* The pair that is being made.                                             *)
AtWork ==
    run.pc \in {"impl", "review"} =>
        /\ run.at = "joint" \/ (run.at \in Findings /\ IsWorking(run.mem, run.at))
        /\ run.via = "code" => run.at \in run.todo
        /\ run.via = "process" => ApplyKind(run.at) = "process"
        /\ run.pc = "review" => cards[run.via][run.at].impl # "none"

(* An applied finding has its pair.  A code pair ends the code channel, and *)
(* only a process finding of the analyzer can be deferred after it.         *)
Spent ==
    /\ \A c \in Channels, f \in Findings : <<c, f>> \in run.applied => HasPair(c, f)
    /\ \A f \in Findings : <<"code", f>> \in run.applied =>
         /\ run.todo = {}
         /\ run.pc \in {"impl", "review"} => run.via = "process"
         /\ ApplyKind(f) = "process" => cast.analysis = "on"
         /\ f \in run.deferred => ApplyKind(f) = "process"

Running ==
    /\ DOMAIN run = RunFields
    /\ run.pc \in {"analyze", "code", "impl", "review", "finish"}
    /\ run.via \in Channels
    /\ run.pc = "analyze" => run.applied = {} /\ run.deferred = {}
    /\ LedgerInv(run.mem) /\ Closed(run.mem)
    /\ Routing /\ AtWork /\ Spent

IInv ==
    /\ cast \in Casts
    /\ CardsInv
    /\ LedgerInv(file) /\ TopicClosesEntry
    /\ run = Idle \/ Running

-----------------------------------------------------------------------------
(* What the operators on ledgers do to topics and statuses.                 *)

LEMMA CastIsSetting ==
    ASSUME cast \in Casts
    PROVE  Findings \subseteq Names /\ cast.analysis \in {"off", "on"}
BY LedgerAssumption DEF Findings

LEMMA JointIsNoFinding ==
    ASSUME cast \in Casts
    PROVE  /\ "joint" \notin Names /\ "joint" \notin Findings /\ Names \subseteq Identities
           /\ ApplyKind("joint") = "none" /\ "joint" \in Identities
BY CastIsSetting DEF Names, Identities, ApplyKind

LEMMA DetectsFindings == DetectAll \subseteq Findings
BY DEF DetectAll

(* What was detected is working, or its topic is closed and so is its entry.*)
LEMMA DedupeFacts ==
    ASSUME NEW ledger, Shaped(ledger), NEW seen \in SUBSET Names, NEW log
    PROVE  LET m == Dedupe(ledger, seen, log) IN
           /\ Shaped(m)
           /\ \A f \in Names \ seen : StatusOf(m, f) = StatusOf(ledger, f)
           /\ \A f \in seen : \/ IsWorking(m, f) /\ f \notin m.topics
                              \/ f \in m.topics /\ StatusOf(m, f) \in {"none", "resolved"}
           /\ m.topics \subseteq ledger.topics \cup seen
<1> DEFINE fixed == Unresolved(seen, ledger) \cap FixedInLog(log)
           recorded == Unresolved(seen, ledger) \ fixed
           m == Dedupe(ledger, seen, log)
           entryOf(f) == CASE f \in recorded -> Upserted(ledger.entry[f])
                           [] f \in seen \ recorded -> Marked(ledger.entry[f], "resolved")
                           [] OTHER -> ledger.entry[f]
<1>1. /\ DOMAIN m = DOMAIN ledger
      /\ m.topics = ledger.topics \cup fixed
      /\ m.entry = [f \in Names |-> entryOf(f)]
  BY DEF Dedupe, Shaped
<1>2. fixed \subseteq seen /\ recorded \subseteq seen
  BY DEF Unresolved
<1>3. \A f \in seen : f \in recorded <=> f \notin m.topics
  BY <1>1 DEF Unresolved
<1>4. ASSUME NEW f \in Names
      PROVE  m.entry[f] = entryOf(f)
  BY <1>1
<1> HIDE DEF m, fixed, recorded
<1>5. ASSUME NEW f \in recorded
      PROVE  IsWorking(m, f) /\ DOMAIN m.entry[f] = {"status", "count", "age"}
  <2>1. m.entry[f] = Upserted(ledger.entry[f])
    BY <1>2, <1>4
  <2> QED BY <2>1 DEF IsWorking, StatusOf, Upserted, Working
<1>6. ASSUME NEW f \in seen \ recorded
      PROVE  /\ StatusOf(m, f) \in {"none", "resolved"}
             /\ DOMAIN m.entry[f] = {"status", "count", "age"}
  BY <1>4 DEF StatusOf, Marked, Shaped
<1>7. ASSUME NEW f \in Names \ seen
      PROVE  m.entry[f] = ledger.entry[f]
  BY <1>2, <1>4
<1>8. Shaped(m)
  BY <1>1, <1>2, <1>5, <1>6, <1>7 DEF Shaped
<1> QED BY <1>1, <1>2, <1>3, <1>5, <1>6, <1>7, <1>8 DEF StatusOf, m

LEMMA OutcomeValues ==
    ASSUME NEW f, NEW seen, NEW log
    PROVE  Outcome(f, seen, log) \in {"open", "stale", "resolved"}
BY DEF Outcome, ReviewGapOutcome

(* Revalidation closes what is not open any more, and nothing else.         *)
LEMMA RevalidateFacts ==
    ASSUME NEW ledger, Shaped(ledger), cast \in Casts, NEW seen, NEW log
    PROVE  LET m == Revalidate(ledger, seen, log) IN
           /\ Shaped(m)
           /\ \A f \in Names :
                 StatusOf(m, f) =
                     IF f \in Findings /\ IsWorking(ledger, f) /\ Outcome(f, seen, log) # "open"
                     THEN Outcome(f, seen, log) ELSE StatusOf(ledger, f)
           /\ \A f \in m.topics \ ledger.topics :
                 f \in Names /\ StatusOf(m, f) = "resolved"
<1> DEFINE over == {f \in Findings : IsWorking(ledger, f) /\ Outcome(f, seen, log) # "open"}
           m == Revalidate(ledger, seen, log)
<1>1. /\ DOMAIN m = DOMAIN ledger
      /\ m.topics = ledger.topics \cup {f \in over : Outcome(f, seen, log) = "resolved"}
      /\ m.entry = [f \in Names |->
            IF f \in over THEN [ledger.entry[f] EXCEPT !.status = Outcome(f, seen, log)]
            ELSE ledger.entry[f]]
  BY DEF Revalidate, Shaped, IsWorking, StatusOf
<1> HIDE DEF m
<1>2. over \subseteq Names
  BY CastIsSetting
<1>3. ASSUME NEW f \in Names
      PROVE  /\ DOMAIN m.entry[f] = {"status", "count", "age"}
             /\ StatusOf(m, f) = IF f \in over THEN Outcome(f, seen, log) ELSE StatusOf(ledger, f)
  BY <1>1 DEF StatusOf, Shaped
<1>4. Shaped(m)
  BY <1>1, <1>2, <1>3 DEF Shaped
<1> QED BY <1>1, <1>2, <1>3, <1>4 DEF m

(* A ledger after the fold and the revalidation of the night: one lifecycle *)
(* of the session, closed topics, and nothing applied that was not before.  *)
LEMMA FoldFacts ==
    ASSUME cast \in Casts, LedgerInv(file), TopicClosesEntry,
           NEW seen, seen \subseteq Findings, NEW log
    PROVE  LET m == Revalidate(Dedupe(file, seen, log), seen, log) IN
           LedgerInv(m) /\ Closed(m)
<1> DEFINE d == Dedupe(file, seen, log)
           m == Revalidate(d, seen, log)
<1>1. seen \subseteq Names /\ Findings \subseteq Names /\ Shaped(file)
  BY CastIsSetting DEF LedgerInv
<1>2. /\ Shaped(d)
      /\ \A f \in Names \ seen : StatusOf(d, f) = StatusOf(file, f)
      /\ \A f \in seen : \/ IsWorking(d, f) /\ f \notin d.topics
                         \/ f \in d.topics /\ StatusOf(d, f) \in {"none", "resolved"}
      /\ d.topics \subseteq file.topics \cup seen
  BY <1>1, DedupeFacts
<1> HIDE DEF d
<1>3. /\ Shaped(m)
      /\ \A f \in Names :
            StatusOf(m, f) =
                IF f \in Findings /\ IsWorking(d, f) /\ Outcome(f, seen, log) # "open"
                THEN Outcome(f, seen, log) ELSE StatusOf(d, f)
      /\ \A f \in m.topics \ d.topics : f \in Names /\ StatusOf(m, f) = "resolved"
  BY <1>2, RevalidateFacts
<1> HIDE DEF m
<1>4. \A f : Outcome(f, seen, log) \in {"open", "stale", "resolved"}
  BY OutcomeValues
<1>5. Bare(m)
  BY <1>1, <1>2, <1>3 DEF LedgerInv, Bare
<1>6. Apart(m)
  <2>1. \A f \in {"live", "ended"} : IsWorking(m, f) => Outcome(f, seen, log) = "open" /\ f \in Findings
    BY <1>3, <1>4, <1>5 DEF Bare, Names, IsWorking, Working
  <2> QED BY <2>1 DEF Apart, Outcome
<1>7. Paired(m)
  BY <1>1, <1>2, <1>3, <1>4 DEF Paired, LedgerInv, IsWorking, Working
<1>8. Closed(m)
  <2> SUFFICES ASSUME NEW f \in m.topics \ {"job"}, IsWorking(m, f)
               PROVE  FALSE
    BY DEF Closed
  <2>1. f \in d.topics /\ f \in Names
    BY <1>2, <1>3 DEF IsWorking, Working, Shaped
  <2>2. IsWorking(d, f)
    BY <1>3, <1>4, <2>1 DEF IsWorking, Working
  <2>3. f \notin seen
    BY <1>2, <2>1, <2>2 DEF IsWorking, Working
  <2>4. f \in file.topics /\ IsWorking(file, f)
    BY <1>2, <2>1, <2>2, <2>3 DEF IsWorking
  <2>5. ApplyKind(f) = "process"
    BY <2>4 DEF TopicClosesEntry, TwiceRouted, IsWorking, StatusOf
  <2>6. f = "reask"
    BY <2>5 DEF ApplyKind
  <2>7. f \in Findings
    BY <2>1, <2>4 DEF LedgerInv, Bare, IsWorking, Working
  <2>8. Outcome(f, seen, log) = "stale"
    BY <2>3, <2>6 DEF Outcome
  <2> QED BY <1>3, <2>1, <2>2, <2>7, <2>8 DEF IsWorking, Working
<1> QED BY <1>3, <1>5, <1>6, <1>7, <1>8 DEF LedgerInv, m, d

-----------------------------------------------------------------------------
(* The end of a run: prune, record the streak, retire, count the silence.   *)
(* None of them opens or applies an entry, except that the streak recorder  *)
(* opens a cron job; none touches a topic or makes an entry.                *)

Calmed(ledger, m) ==
    /\ Shaped(m) /\ m.topics = ledger.topics
    /\ \A f \in Names :
         \/ StatusOf(m, f) = StatusOf(ledger, f)
         \/ StatusOf(ledger, f) # "none" /\ StatusOf(m, f) \in {"none", "monitor"}
         \/ f = "job" /\ f \in Findings /\ StatusOf(m, f) \in {"monitor", "open"}

LEMMA PruneCalms ==
    ASSUME NEW ledger, Shaped(ledger)
    PROVE  Calmed(ledger, PruneStale(ledger))
<1> DEFINE m == PruneStale(ledger)
<1>1. /\ DOMAIN m = DOMAIN ledger /\ m.topics = ledger.topics
      /\ m.entry = [f \in Names |->
            IF ledger.entry[f].status = "stale" /\ ledger.entry[f].age > Retention
            THEN NoEntry ELSE ledger.entry[f]]
  BY DEF PruneStale, Shaped
<1> HIDE DEF m
<1>2. ASSUME NEW f \in Names
      PROVE  \/ m.entry[f] = ledger.entry[f]
             \/ m.entry[f] = NoEntry /\ ledger.entry[f].status = "stale"
  BY <1>1
<1>3. Shaped(m)
  BY <1>1, <1>2 DEF Shaped, NoEntry
<1>4. Calmed(ledger, m)
  BY <1>1, <1>2, <1>3 DEF Calmed, StatusOf, NoEntry
<1> QED BY <1>4 DEF m

LEMMA StreakCalms ==
    ASSUME NEW ledger, Shaped(ledger)
    PROVE  Calmed(ledger, RecordCronStreaks(ledger))
<1> DEFINE m == RecordCronStreaks(ledger)
           e == ledger.entry["job"]
<1>1. CASE "job" \notin Findings
  BY <1>1 DEF RecordCronStreaks, Calmed, Shaped
<1>2. CASE "job" \in Findings
  <2>1. m.entry = [ledger.entry EXCEPT !["job"] = JobStreak(e)]
    BY <1>2 DEF RecordCronStreaks, Shaped
  <2>2. DOMAIN m = DOMAIN ledger /\ m.topics = ledger.topics
    BY <1>2 DEF RecordCronStreaks, Shaped
  <2>3. \/ JobStreak(e) = e
        \/ /\ JobStreak(e).status \in {"monitor", "open"}
           /\ DOMAIN JobStreak(e) = {"status", "count", "age"}
    BY DEF JobStreak
  <2> HIDE DEF m
  <2>4. /\ m.entry["job"] = JobStreak(e)
        /\ DOMAIN m.entry = Names
        /\ \A f \in Names : f # "job" => m.entry[f] = ledger.entry[f]
    BY <2>1 DEF Shaped, Names
  <2>5. Shaped(m)
    BY <2>2, <2>3, <2>4 DEF Shaped
  <2>6. Calmed(ledger, m)
    BY <1>2, <2>2, <2>3, <2>4, <2>5 DEF Calmed, StatusOf
  <2> QED BY <2>6 DEF m
<1> QED BY <1>1, <1>2

LEMMA RetireCalms ==
    ASSUME NEW ledger, Shaped(ledger)
    PROVE  Calmed(ledger, RetireReportOnly(ledger))
<1> DEFINE m == RetireReportOnly(ledger)
           retired(f) == /\ ApplyKind(f) = "none" /\ ledger.entry[f].status \in Working
                         /\ ledger.entry[f].count >= RetireNights
<1>1. /\ DOMAIN m = DOMAIN ledger /\ m.topics = ledger.topics
      /\ m.entry = [f \in Names |->
            IF retired(f) THEN [ledger.entry[f] EXCEPT !.status = "monitor"] ELSE ledger.entry[f]]
  BY DEF RetireReportOnly, Shaped
<1> HIDE DEF m
<1>2. ASSUME NEW f \in Names
      PROVE  \/ m.entry[f] = ledger.entry[f]
             \/ /\ ledger.entry[f].status \in Working
                /\ m.entry[f] = [ledger.entry[f] EXCEPT !.status = "monitor"]
  BY <1>1
<1>3. Shaped(m)
  BY <1>1, <1>2 DEF Shaped
<1>4. Calmed(ledger, m)
  BY <1>1, <1>2, <1>3 DEF Calmed, StatusOf, Shaped, Working
<1> QED BY <1>4 DEF m

LEMMA FunnelCalms ==
    ASSUME NEW ledger, Shaped(ledger)
    PROVE  Calmed(ledger, [RecordFunnel(ledger) EXCEPT !.ran = TRUE])
<1> DEFINE m == [RecordFunnel(ledger) EXCEPT !.ran = TRUE]
<1>1. DOMAIN m = DOMAIN ledger /\ m.topics = ledger.topics /\ m.entry = ledger.entry
  BY DEF RecordFunnel, Shaped
<1> HIDE DEF m
<1>2. Calmed(ledger, m)
  BY <1>1 DEF Calmed, Shaped, StatusOf
<1> QED BY <1>2 DEF m

LEMMA CalmedChain ==
    ASSUME NEW k, NEW l, NEW m, Calmed(k, l), Calmed(l, m)
    PROVE  Calmed(k, m)
BY DEF Calmed

Saved(ledger) ==
    [RecordFunnel(RetireReportOnly(RecordCronStreaks(PruneStale(ledger)))) EXCEPT !.ran = TRUE]

LEMMA SavedCalms ==
    ASSUME NEW ledger, Shaped(ledger)
    PROVE  Calmed(ledger, Saved(ledger))
<1> DEFINE k == PruneStale(ledger)
           l == RecordCronStreaks(k)
           m == RetireReportOnly(l)
<1>1. Calmed(ledger, k) /\ Shaped(k)
  BY PruneCalms DEF Calmed
<1>2. Calmed(k, l) /\ Shaped(l)
  BY <1>1, StreakCalms DEF Calmed
<1>3. Calmed(l, m) /\ Shaped(m)
  BY <1>2, RetireCalms DEF Calmed
<1>4. Calmed(m, Saved(ledger))
  BY <1>3, FunnelCalms DEF Saved
<1> HIDE DEF k, l, m
<1> QED BY <1>1, <1>2, <1>3, <1>4, CalmedChain

(* What a run routed is marked: a deferral wins over a pair.                *)
LEMMA MarkFacts ==
    ASSUME NEW ledger, Shaped(ledger), cast \in Casts
    PROVE  LET m == MarkRouted(ledger)
               applied == {f \in Findings : \E c \in Channels : <<c, f>> \in run.applied}
           IN  /\ Shaped(m)
               /\ m.topics = ledger.topics \cup {f \in Findings : <<"code", f>> \in run.applied}
               /\ \A f \in Names :
                    StatusOf(m, f) =
                        IF StatusOf(ledger, f) = "none" THEN "none"
                        ELSE IF f \in run.deferred THEN "deferred"
                        ELSE IF f \in applied THEN "applied" ELSE StatusOf(ledger, f)
<1> DEFINE m == MarkRouted(ledger)
           applied == {f \in Findings : \E c \in Channels : <<c, f>> \in run.applied}
<1>1. /\ DOMAIN m = DOMAIN ledger
      /\ m.topics = ledger.topics \cup {f \in Findings : <<"code", f>> \in run.applied}
      /\ m.entry = [f \in Names |->
            IF f \in run.deferred THEN Marked(ledger.entry[f], "deferred")
            ELSE IF f \in applied THEN Marked(ledger.entry[f], "applied") ELSE ledger.entry[f]]
  BY DEF MarkRouted, Shaped
<1> HIDE DEF m, applied
<1>2. ASSUME NEW f \in Names
      PROVE  /\ DOMAIN m.entry[f] = {"status", "count", "age"}
             /\ StatusOf(m, f) =
                    IF StatusOf(ledger, f) = "none" THEN "none"
                    ELSE IF f \in run.deferred THEN "deferred"
                    ELSE IF f \in applied THEN "applied" ELSE StatusOf(ledger, f)
  BY <1>1 DEF StatusOf, Shaped, Marked
<1>3. Shaped(m)
  BY <1>1, <1>2, CastIsSetting DEF Shaped
<1> QED BY <1>1, <1>2, <1>3 DEF m, applied

-----------------------------------------------------------------------------
(* A card that was made is never unmade: an archived one is still a card.   *)
CardsGrow ==
    \A c \in Channels, f \in Identities, side \in Sides :
        cards'[c][f][side] = "none" => cards[c][f][side] = "none"

LEMMA PairsStay ==
    ASSUME CardsGrow, NEW c \in Channels, NEW f \in Identities, HasPair(c, f)
    PROVE  HasPair(c, f)'
BY DEF CardsGrow, HasPair, Sides

LEMMA LedgerStays ==
    ASSUME CardsGrow, NEW ledger, LedgerInv(ledger), cast' = cast, NEW m, m = ledger
    PROVE  /\ Shaped(m) /\ \A f \in Names \ Findings' : StatusOf(m, f) = "none"
           /\ Apart(m)
           /\ \A f \in Names : StatusOf(m, f) = "applied" => \E c \in Channels : HasPair(c, f)'
BY PairsStay DEF LedgerInv, Bare, Paired, Findings, Identities

LEMMA MadeCard ==
    ASSUME CardsInv, run.via \in Channels, NEW f \in Identities, NEW side \in Sides,
           cards' = Made(f, side)
    PROVE  CardsInv' /\ CardsGrow /\ cards'[run.via][f][side] # "none"
<1> DEFINE via == run.via
<1>1. cards' = [cards EXCEPT ![via][f][side] = "live"] /\ via \in Channels
  BY DEF Made
<1> HIDE DEF via
<1>2. /\ cards'[via][f][side] = "live"
      /\ DOMAIN cards' = Channels
      /\ \A c \in Channels : DOMAIN cards'[c] = Identities
      /\ \A c \in Channels, g \in Identities : DOMAIN cards'[c][g] = Sides
      /\ \A c \in Channels, g \in Identities, x \in Sides :
            cards'[c][g][x] = cards[c][g][x] \/ cards'[c][g][x] = "live"
  BY <1>1 DEF CardsInv
<1>3. CardsInv'
  BY <1>2 DEF CardsInv
<1>4. CardsGrow
  BY <1>2 DEF CardsGrow
<1> QED BY <1>2, <1>3, <1>4 DEF via

LEMMA ArchivedCard ==
    ASSUME CardsInv, Archive, cast \in Casts
    PROVE  CardsInv' /\ CardsGrow
<1>1. PICK c \in Channels, f \in Findings \cup {"joint"}, side \in Sides :
        cards[c][f][side] = "live" /\ cards' = [cards EXCEPT ![c][f][side] = "archived"]
  BY DEF Archive, Sides
<1>2. f \in Identities
  BY CastIsSetting DEF Identities
<1>3. /\ DOMAIN cards' = Channels
      /\ \A d \in Channels : DOMAIN cards'[d] = Identities
      /\ \A d \in Channels, g \in Identities : DOMAIN cards'[d][g] = Sides
      /\ \A d \in Channels, g \in Identities, x \in Sides :
            cards'[d][g][x] = cards[d][g][x] \/ cards'[d][g][x] = "archived"
  BY <1>1, <1>2 DEF CardsInv
<1> QED BY <1>3 DEF CardsInv, CardsGrow

-----------------------------------------------------------------------------
(* Steps that leave the ledger of the run and its routing alone.            *)

LEMMA RunningStays ==
    ASSUME Running, CardsGrow, cast \in Casts, UNCHANGED <<cast, run>>
    PROVE  Running'
<1>1. Findings' = Findings /\ Findings \subseteq Names
  BY CastIsSetting DEF Findings
<1>2. LedgerInv(run.mem)' /\ Closed(run.mem)'
  BY LedgerStays, <1>1 DEF Running, LedgerInv, Bare, Apart, Paired, Shaped, Closed, IsWorking, StatusOf
<1>3. Routing'
  BY <1>1 DEF Running, Routing, IsWorking, StatusOf, ApplyKind
<1>4. AtWork'
  <2>1. run.pc \in {"impl", "review"} => run.at \in Identities
    BY CastIsSetting, JointIsNoFinding DEF Running, AtWork
  <2> QED BY <1>1, <2>1 DEF Running, AtWork, IsWorking, StatusOf, ApplyKind, CardsGrow, Sides
<1>5. Spent'
  <2>1. \A c \in Channels, f \in Findings : <<c, f>> \in run.applied => HasPair(c, f)'
    BY <1>1, PairsStay, JointIsNoFinding DEF Running, Spent
  <2> QED BY <1>1, <2>1 DEF Running, Spent, ApplyKind
<1> QED BY <1>2, <1>3, <1>4, <1>5 DEF Running

FileInv == LedgerInv(file) /\ TopicClosesEntry

LEMMA FileStays ==
    ASSUME FileInv, CardsGrow, UNCHANGED <<cast, file>>
    PROVE  FileInv'
<1>1. Findings' = Findings
  BY DEF Findings
<1>2. LedgerInv(file)'
  BY LedgerStays, <1>1 DEF FileInv, LedgerInv, Bare, Apart, Paired, Shaped, IsWorking, StatusOf
<1> QED BY <1>1, <1>2 DEF FileInv, TopicClosesEntry, TwiceRouted, ApplyKind

LEMMA CardsSame == UNCHANGED cards => CardsGrow /\ (CardsInv => CardsInv')
BY DEF CardsGrow, CardsInv

-----------------------------------------------------------------------------
(* The steps.                                                               *)

LEMMA InitInv == Init => IInv
<1> SUFFICES ASSUME Init PROVE IInv
  OBVIOUS
<1>1. CardsInv
  BY DEF Init, NoCards, CardsInv, Sides
<1>2. Shaped(file) /\ \A f \in Names : StatusOf(file, f) = "none"
  BY DEF Init, NewLedger, NoEntry, Shaped, StatusOf
<1>3. LedgerInv(file)
  BY <1>2 DEF LedgerInv, Bare, Apart, Paired, IsWorking, Working, Names
<1>4. TopicClosesEntry
  BY DEF Init, NewLedger, TopicClosesEntry
<1> QED BY <1>1, <1>3, <1>4 DEF IInv, Init

LEMMA BeginStep ==
    ASSUME IInv, NEW mode, Begin(mode)
    PROVE  IInv'
<1>1. FileInv' /\ CardsInv' /\ cast' \in Casts /\ CardsGrow
  BY FileStays, CardsSame DEF Begin, IInv, FileInv
<1> DEFINE seen == DetectAll
           log == GitLogSince
           m == Revalidate(Dedupe(file, seen, log), seen, log)
<1>2. LedgerInv(m) /\ Closed(m)
  BY FoldFacts, DetectsFindings DEF IInv
<1>3. /\ DOMAIN run' = RunFields
      /\ run'.pc = "analyze" /\ run'.via = "code" /\ run'.mem = m
      /\ run'.todo = {} /\ run'.applied = {} /\ run'.deferred = {}
  BY DEF Begin, RunFields
<1> HIDE DEF m
<1>4. UNCHANGED cards /\ Findings' = Findings
  BY DEF Begin, Findings
<1>5. LedgerInv(run.mem)' /\ Closed(run.mem)'
  BY <1>2, <1>3, <1>4 DEF LedgerInv, Shaped, Bare, Apart, Paired, Closed, HasPair, IsWorking, StatusOf
<1>6. Running'
  BY <1>3, <1>5 DEF Running, Routing, AtWork, Spent, Channels
<1> QED BY <1>1, <1>6 DEF IInv, FileInv

LEMMA NightStep ==
    ASSUME IInv, Night
    PROVE  IInv'
<1> DEFINE aged(f) == [file.entry[f] EXCEPT !.age =
                          IF file.entry[f].status = "none" THEN 0
                          ELSE Capped(file.entry[f].age, Retention + 1)]
<1>1. /\ DOMAIN file' = DOMAIN file /\ file'.topics = file.topics
      /\ file'.entry = [f \in Names |-> aged(f)]
  BY DEF Night, IInv, LedgerInv, Shaped
<1>2. \A f \in Names : /\ DOMAIN file'.entry[f] = DOMAIN file.entry[f]
                       /\ file'.entry[f].status = file.entry[f].status
  BY <1>1 DEF IInv, LedgerInv, Shaped
<1>3. UNCHANGED <<cast, cards, run>> /\ Findings' = Findings
  BY DEF Night, Findings
<1>4. LedgerInv(file)'
  <2>1. \A f \in Names : StatusOf(file, f)' = StatusOf(file, f)
    BY <1>2 DEF StatusOf
  <2>2. Shaped(file)'
    BY <1>1, <1>2 DEF IInv, LedgerInv, Shaped
  <2>3. Bare(file)' /\ Paired(file)'
    BY <1>3, <2>1 DEF IInv, LedgerInv, Bare, Paired, HasPair, StatusOf
  <2>4. Apart(file)'
    BY <2>1 DEF IInv, LedgerInv, Apart, IsWorking, StatusOf, Names
  <2> QED BY <2>2, <2>3, <2>4 DEF LedgerInv
<1>5. TopicClosesEntry'
  BY <1>1, <1>2, <1>3 DEF IInv, LedgerInv, Shaped, TopicClosesEntry, TwiceRouted, ApplyKind
<1>6. run' = Idle
  BY DEF Night
<1> QED BY <1>3, <1>4, <1>5, <1>6, CardsSame DEF IInv

LEMMA PeopleStep ==
    ASSUME IInv, People
    PROVE  IInv'
<1>1. UNCHANGED <<cast, run>>
  BY DEF People
<1>2. CASE UNCHANGED <<file, cards>>
  BY <1>1, <1>2, CardsSame, FileStays, RunningStays DEF IInv, FileInv
<1>3. CASE Archive
  BY <1>1, <1>3, ArchivedCard, FileStays, RunningStays DEF IInv, FileInv, Archive
<1>4. CASE Dispose
  <2>1. CardsInv' /\ CardsGrow /\ Findings' = Findings
    BY <1>1, <1>4, CardsSame DEF Dispose, IInv, Findings
  <2>2. PICK g \in Findings, status \in {"deferred", "resolved", "stale"} :
          /\ file.entry[g].status \in Working
          /\ file' = [file EXCEPT !.entry[g].status = status]
    BY <1>4 DEF Dispose
  <2>3. g \in Names
    BY CastIsSetting DEF IInv
  <2>4. Shaped(file)
    BY DEF IInv, LedgerInv
  <2>5. /\ DOMAIN file' = DOMAIN file /\ file'.topics = file.topics
        /\ DOMAIN file'.entry = Names
        /\ \A f \in Names : DOMAIN file'.entry[f] = DOMAIN file.entry[f]
        /\ \A f \in Names :
              file'.entry[f].status = IF f = g THEN status ELSE file.entry[f].status
    BY <2>2, <2>3, <2>4 DEF Shaped
  <2>6. LedgerInv(file)'
    BY <1>4, <2>1, <2>2, <2>3, <2>5
       DEF IInv, LedgerInv, Shaped, Bare, Apart, Paired, HasPair, IsWorking, StatusOf, Names,
           Working, Dispose
  <2>7. TopicClosesEntry'
    <3> SUFFICES ASSUME NEW f \in file.topics \ {"job"}, file'.entry[f].status \in Working
                 PROVE  TwiceRouted(f)'
      BY <2>5 DEF TopicClosesEntry
    <3>1. f \in Names
      BY <2>4 DEF Shaped
    <3>2. file.entry[f].status \in Working
      BY <2>2, <2>5, <3>1
    <3>3. TwiceRouted(f)
      BY <3>2 DEF IInv, TopicClosesEntry
    <3> QED BY <1>1, <2>5, <3>1, <3>3 DEF TwiceRouted, ApplyKind, Working
  <2> QED BY <1>1, <2>1, <2>6, <2>7, RunningStays DEF IInv
<1>5. WorldMoves => UNCHANGED <<file, cards>>
  BY DEF WorldMoves, Move
<1>6. Commit => UNCHANGED <<file, cards>>
  BY DEF Commit
<1> QED BY <1>2, <1>3, <1>4, <1>5, <1>6 DEF People

(* What holds after any step of a run that goes on: the file, and the       *)
(* ledger in memory.                                                        *)
LEMMA MemStays ==
    ASSUME IInv, Running, CardsGrow, UNCHANGED <<cast, file>>,
           DOMAIN run' = RunFields, run'.mem = run.mem
    PROVE  FileInv' /\ LedgerInv(run.mem)' /\ Closed(run.mem)' /\ Findings' = Findings
<1>1. Findings' = Findings
  BY DEF Findings
<1>2. LedgerInv(run.mem)' /\ Closed(run.mem)'
  BY LedgerStays, <1>1 DEF Running, LedgerInv, Bare, Apart, Paired, Shaped, Closed, IsWorking, StatusOf
<1> QED BY <1>1, <1>2, FileStays DEF IInv, FileInv

LEMMA AnalyzeStep ==
    ASSUME IInv, Running, Analyze
    PROVE  IInv'
<1>1. /\ UNCHANGED <<cast, file, cards>> /\ CardsGrow /\ CardsInv'
      /\ DOMAIN run' = RunFields /\ run'.mem = run.mem /\ run'.pc = "code"
      /\ run'.via = run.via /\ run'.applied = {} /\ run'.deferred = {}
  BY CardsSame DEF Analyze, Running, RunFields, IInv
<1>2. FileInv' /\ LedgerInv(run.mem)' /\ Closed(run.mem)' /\ Findings' = Findings
  BY <1>1, MemStays
<1>3. \/ run'.todo = run.todo
      \/ run'.todo = ApplyCandidates
      \/ run'.todo \subseteq Proposable \cup {"joint"} /\ cast.analysis = "on"
  <2>1. \A proposals \in Proposals : proposals \subseteq Proposable \cup {"joint"}
    BY DEF Proposals
  <2>2. \/ run'.todo = run.todo
        \/ run'.todo = ApplyCandidates
        \/ run'.todo \in Proposals /\ cast.analysis = "on"
    BY DEF Analyze, Running, RunFields
  <2> QED BY <2>1, <2>2
<1>4. /\ run'.todo \subseteq {f \in Findings : IsWorking(run.mem, f)} \cup {"joint"}
      /\ cast.analysis = "off" => \A f \in run'.todo : ApplyKind(f) # "process"
  <2>1. ApplyCandidates \cup Proposable \subseteq {f \in Findings : IsWorking(run.mem, f)}
    BY DEF ApplyCandidates, Proposable, WorkingSet, IsWorking, StatusOf
  <2>2. \A f \in ApplyCandidates : ApplyKind(f) # "process"
    BY DEF ApplyCandidates
  <2> QED BY <1>3, <2>1, <2>2 DEF Running, Routing
<1>5. Running'
  BY <1>1, <1>2, <1>4 DEF Running, Routing, AtWork, Spent, Channels, IsWorking, StatusOf, ApplyKind
<1> QED BY <1>1, <1>2, <1>5 DEF IInv, FileInv

LEMMA RouteCodeStep ==
    ASSUME IInv, Running, RouteCode
    PROVE  IInv'
<1>1. UNCHANGED <<cast, file, cards>> /\ CardsGrow /\ CardsInv'
  BY CardsSame DEF RouteCode, IInv
<1>2. PICK f \in run.todo :
        \/ run' = Deferred(f, "code")
        \/ run' = [run EXCEPT !.pc = "impl", !.at = f, !.via = "code"]
  BY DEF RouteCode
<1>3. DOMAIN run' = RunFields /\ run'.mem = run.mem /\ run'.applied = run.applied
  BY <1>2 DEF Running, RunFields, Deferred
<1>4. FileInv' /\ LedgerInv(run.mem)' /\ Closed(run.mem)' /\ Findings' = Findings
  BY <1>1, <1>3, MemStays
<1>5. \A g \in Findings : <<"code", g>> \notin run.applied
  BY <1>2 DEF Running, Spent
<1>6. CASE run' = Deferred(f, "code")
  <2>1. /\ run'.pc = "code" /\ run'.via = run.via
        /\ run'.todo = run.todo \ {f} /\ run'.deferred = run.deferred \cup {f}
    BY <1>6 DEF Running, RunFields, Deferred
  <2>2. Running'
    BY <1>1, <1>3, <1>4, <1>5, <2>1
       DEF Running, Routing, AtWork, Spent, IsWorking, StatusOf, ApplyKind, HasPair
  <2> QED BY <1>1, <1>4, <2>2 DEF IInv, FileInv
<1>7. CASE run' = [run EXCEPT !.pc = "impl", !.at = f, !.via = "code"]
  <2>1. /\ run'.pc = "impl" /\ run'.via = "code" /\ run'.at = f
        /\ run'.todo = run.todo /\ run'.deferred = run.deferred
    BY <1>7 DEF Running, RunFields
  <2>2. Running'
    BY <1>1, <1>3, <1>4, <1>5, <2>1
       DEF Running, Routing, AtWork, Spent, IsWorking, StatusOf, ApplyKind, HasPair, Channels
  <2> QED BY <1>1, <1>4, <2>2 DEF IInv, FileInv
<1> QED BY <1>2, <1>6, <1>7

LEMMA RouteProcessStep ==
    ASSUME IInv, Running, RouteProcess
    PROVE  IInv'
<1>1. UNCHANGED <<cast, file, cards>> /\ CardsGrow /\ CardsInv'
  BY CardsSame DEF RouteProcess, IInv
<1>2. CASE run' = [run EXCEPT !.pc = "finish"]
  <2>1. /\ DOMAIN run' = RunFields /\ run'.mem = run.mem /\ run'.applied = run.applied
        /\ run'.pc = "finish" /\ run'.via = run.via
        /\ run'.todo = run.todo /\ run'.deferred = run.deferred
    BY <1>2 DEF Running, RunFields
  <2>2. FileInv' /\ LedgerInv(run.mem)' /\ Closed(run.mem)' /\ Findings' = Findings
    BY <1>1, <2>1, MemStays
  <2>3. Running'
    BY <1>1, <2>1, <2>2 DEF Running, Routing, AtWork, Spent, IsWorking, StatusOf, ApplyKind, HasPair
  <2> QED BY <1>1, <2>2, <2>3 DEF IInv, FileInv
<1>3. ASSUME NEW f \in ProcessCandidates, run.todo = {},
             run' = Deferred(f, "finish")
             \/ run' = [run EXCEPT !.pc = "impl", !.at = f, !.via = "process"]
      PROVE  IInv'
  <2>1. f \in Findings /\ IsWorking(run.mem, f) /\ ApplyKind(f) = "process"
    BY <1>3 DEF ProcessCandidates, WorkingSet, IsWorking, StatusOf
  <2>2. DOMAIN run' = RunFields /\ run'.mem = run.mem /\ run'.applied = run.applied /\ run'.todo = {}
    BY <1>3 DEF Running, RunFields, Deferred
  <2>3. FileInv' /\ LedgerInv(run.mem)' /\ Closed(run.mem)' /\ Findings' = Findings
    BY <1>1, <2>2, MemStays
  <2>4. CASE run' = Deferred(f, "finish")
    <3>1. run'.pc = "finish" /\ run'.via = run.via /\ run'.deferred = run.deferred \cup {f}
      BY <2>4 DEF Running, RunFields, Deferred
    <3>2. Running'
      BY <1>1, <2>1, <2>2, <2>3, <3>1
         DEF Running, Routing, AtWork, Spent, IsWorking, StatusOf, ApplyKind, HasPair
    <3> QED BY <1>1, <2>3, <3>2 DEF IInv, FileInv
  <2>5. CASE run' = [run EXCEPT !.pc = "impl", !.at = f, !.via = "process"]
    <3>1. run'.pc = "impl" /\ run'.via = "process" /\ run'.at = f /\ run'.deferred = run.deferred
      BY <2>5 DEF Running, RunFields
    <3>2. Running'
      BY <1>1, <2>1, <2>2, <2>3, <3>1
         DEF Running, Routing, AtWork, Spent, IsWorking, StatusOf, ApplyKind, HasPair, Channels
    <3> QED BY <1>1, <2>3, <3>2 DEF IInv, FileInv
  <2> QED BY <1>3, <2>4, <2>5
<1> QED BY <1>2, <1>3 DEF RouteProcess

LEMMA CreateImplStep ==
    ASSUME IInv, Running, CreateImpl
    PROVE  IInv'
<1>1. run.pc = "impl" /\ run.at \in Findings \cup {"joint"} /\ run.at \in Identities /\ run.via \in Channels
  BY CastIsSetting, JointIsNoFinding DEF CreateImpl, Running, AtWork, IInv
<1>2. UNCHANGED <<cast, file>> /\ CardsInv' /\ CardsGrow /\ cards'[run.via][run.at]["impl"] # "none"
  BY <1>1, MadeCard DEF CreateImpl, IInv, Sides
<1>3. /\ DOMAIN run' = RunFields /\ run'.pc = "review"
      /\ run'.mem = run.mem /\ run'.applied = run.applied /\ run'.via = run.via /\ run'.at = run.at
      /\ run'.todo = run.todo /\ run'.deferred = run.deferred
  BY DEF CreateImpl, Running, RunFields
<1>4. FileInv' /\ LedgerInv(run.mem)' /\ Closed(run.mem)' /\ Findings' = Findings
  BY <1>2, <1>3, MemStays
<1>5. \A c \in Channels, f \in Findings : <<c, f>> \in run.applied => HasPair(c, f)'
  BY <1>2, PairsStay, CastIsSetting, JointIsNoFinding DEF Running, Spent, IInv
<1>6. Running'
  BY <1>1, <1>2, <1>3, <1>4, <1>5
     DEF Running, Routing, AtWork, Spent, IsWorking, StatusOf, ApplyKind
<1> QED BY <1>2, <1>4, <1>6 DEF IInv, FileInv

LEMMA CreateReviewStep ==
    ASSUME IInv, Running, CreateReview
    PROVE  IInv'
<1>1. run.pc = "review" /\ run.at \in Findings \cup {"joint"} /\ run.at \in Identities /\ run.via \in Channels
  BY CastIsSetting, JointIsNoFinding DEF CreateReview, Running, AtWork, IInv
<1>2. /\ UNCHANGED <<cast, file>> /\ CardsInv' /\ CardsGrow
      /\ cards'[run.via][run.at]["review"] # "none"
  BY <1>1, MadeCard DEF CreateReview, IInv, Sides
<1>3. cards'[run.via][run.at]["impl"] # "none"
  BY <1>1, <1>2 DEF Running, AtWork, CardsGrow, Sides
<1>4. /\ DOMAIN run' = RunFields /\ run'.pc \in {"code", "finish"}
      /\ run'.mem = run.mem /\ run'.applied = run.applied \cup {<<run.via, run.at>>}
      /\ run'.via = run.via /\ run'.todo = {} /\ run'.deferred = run.deferred
  BY DEF CreateReview, After, Running, RunFields
<1>5. FileInv' /\ LedgerInv(run.mem)' /\ Closed(run.mem)' /\ Findings' = Findings
  BY <1>2, <1>4, MemStays
<1>6. \A c \in Channels, f \in Findings : <<c, f>> \in run'.applied => HasPair(c, f)'
  <2> SUFFICES ASSUME NEW c \in Channels, NEW f \in Findings, <<c, f>> \in run'.applied
               PROVE  HasPair(c, f)'
    OBVIOUS
  <2>1. CASE <<c, f>> \in run.applied
    BY <1>2, <2>1, PairsStay, CastIsSetting, JointIsNoFinding DEF Running, Spent, IInv
  <2>2. CASE c = run.via /\ f = run.at
    BY <1>2, <1>3, <2>2 DEF HasPair
  <2> QED BY <1>4, <2>1, <2>2
<1>7. ASSUME NEW f \in Findings, <<"code", f>> \in run'.applied
      PROVE  /\ ApplyKind(f) = "process" => cast.analysis = "on"
             /\ f \in run.deferred => ApplyKind(f) = "process"
  <2>1. CASE <<"code", f>> \in run.applied
    BY <2>1 DEF Running, Spent
  <2>2. CASE run.via = "code" /\ f = run.at
    BY <1>1, <2>2, CastIsSetting DEF Running, Routing, AtWork, IInv
  <2> QED BY <1>4, <1>7, <2>1, <2>2
<1>8. Running'
  BY <1>1, <1>2, <1>4, <1>5, <1>6, <1>7
     DEF Running, Routing, AtWork, Spent, IsWorking, StatusOf, ApplyKind
<1> QED BY <1>2, <1>5, <1>8 DEF IInv, FileInv

LEMMA CreateFailsStep ==
    ASSUME IInv, Running, CreateFails
    PROVE  IInv'
<1>1. /\ run.pc \in {"impl", "review"} /\ run.at \in Findings \cup {"joint"}
      /\ run.at \in Identities /\ run.via \in Channels
  BY CastIsSetting, JointIsNoFinding DEF CreateFails, Running, AtWork, IInv
<1>2. UNCHANGED <<cast, file>> /\ CardsInv' /\ CardsGrow
  BY <1>1, MadeCard, CardsSame DEF CreateFails, IInv, Sides
<1>3. /\ DOMAIN run' = RunFields /\ run'.pc \in {"code", "finish"}
      /\ run'.mem = run.mem /\ run'.applied = run.applied /\ run'.via = run.via
      /\ run'.todo = run.todo \ {run.at} /\ run'.deferred = run.deferred \cup {run.at}
  BY DEF CreateFails, Missed, Deferred, After, Running, RunFields
<1>4. FileInv' /\ LedgerInv(run.mem)' /\ Closed(run.mem)' /\ Findings' = Findings
  BY <1>2, <1>3, MemStays
<1>5. \A c \in Channels, f \in Findings : <<c, f>> \in run.applied => HasPair(c, f)'
  BY <1>2, PairsStay, CastIsSetting, JointIsNoFinding DEF Running, Spent, IInv
<1>6. Running'
  BY <1>1, <1>2, <1>3, <1>4, <1>5
     DEF Running, Routing, AtWork, Spent, IsWorking, StatusOf, ApplyKind, Channels
<1> QED BY <1>2, <1>4, <1>6 DEF IInv, FileInv

(* The save of a live run: what MarkRouted leaves of the ledger, calmed.    *)
LEMMA SavedLedger ==
    ASSUME IInv, Running, NEW m, m = Saved(MarkRouted(run.mem))
    PROVE  /\ LedgerInv(m)
           /\ \A f \in m.topics \ {"job"} : IsWorking(m, f) =>
                ApplyKind(f) = "process" /\ cast.analysis = "on" /\ StatusOf(m, f) = "deferred"
<1> DEFINE l == run.mem
           k == MarkRouted(l)
           applied == {f \in Findings : \E c \in Channels : <<c, f>> \in run.applied}
<1>1. Shaped(l) /\ Bare(l) /\ Apart(l) /\ Paired(l) /\ Closed(l)
  BY DEF Running, LedgerInv
<1>2. /\ Shaped(k)
      /\ k.topics = l.topics \cup {f \in Findings : <<"code", f>> \in run.applied}
      /\ \A f \in Names :
            StatusOf(k, f) = IF StatusOf(l, f) = "none" THEN "none"
                             ELSE IF f \in run.deferred THEN "deferred"
                             ELSE IF f \in applied THEN "applied" ELSE StatusOf(l, f)
  BY <1>1, MarkFacts DEF IInv
<1>3. Calmed(k, m)
  BY <1>2, SavedCalms
<1> HIDE DEF k
<1>4. \A f \in run.deferred : f \in Names => f \in Findings /\ IsWorking(l, f)
  BY CastIsSetting, JointIsNoFinding DEF Running, Routing, IInv
<1>5. Bare(m)
  BY <1>1, <1>2, <1>3 DEF Bare, Calmed
<1>6. Apart(m)
  BY <1>1, <1>2, <1>3, <1>4 DEF Apart, IsWorking, Working, Calmed, Names
<1>7. Paired(m)
  <2> SUFFICES ASSUME NEW f \in Names, StatusOf(m, f) = "applied"
               PROVE  \E c \in Channels : HasPair(c, f)
    BY DEF Paired
  <2>1. StatusOf(k, f) = "applied"
    BY <1>3 DEF Calmed
  <2>2. CASE f \in applied
    BY <2>2 DEF Running, Spent
  <2>3. CASE f \notin applied
    BY <1>1, <1>2, <2>1, <2>3 DEF Paired
  <2> QED BY <2>2, <2>3
<1>8. ASSUME NEW f \in m.topics \ {"job"}, IsWorking(m, f)
      PROVE  ApplyKind(f) = "process" /\ cast.analysis = "on" /\ StatusOf(m, f) = "deferred"
  <2>1. f \in Names /\ f \in k.topics
    BY <1>3 DEF Calmed, Shaped
  <2>2. StatusOf(m, f) = StatusOf(k, f)
    BY <1>3, <1>8, <2>1 DEF Calmed, IsWorking, Working
  <2>3. f \in run.deferred
    <3> SUFFICES ASSUME f \notin run.deferred
                 PROVE  FALSE
      OBVIOUS
    <3>1. f \notin applied /\ StatusOf(k, f) = StatusOf(l, f)
      BY <1>2, <1>8, <2>1, <2>2 DEF IsWorking, Working
    <3>2. f \in l.topics
      BY <1>2, <2>1, <3>1 DEF Channels
    <3> QED BY <1>1, <1>8, <2>2, <3>1, <3>2 DEF Closed, IsWorking
  <2>4. <<"code", f>> \in run.applied
    BY <1>1, <1>2, <1>4, <2>1, <2>3 DEF Closed
  <2>5. StatusOf(k, f) = "deferred"
    BY <1>2, <1>4, <2>1, <2>3 DEF IsWorking, Working
  <2>6. f \in Findings
    BY <1>4, <2>1, <2>3
  <2> QED BY <2>2, <2>3, <2>4, <2>5, <2>6 DEF Running, Spent
<1> QED BY <1>3, <1>5, <1>6, <1>7, <1>8 DEF LedgerInv, Calmed

LEMMA FinishStep ==
    ASSUME IInv, Running, Finish
    PROVE  IInv'
<1>1. UNCHANGED <<cast, cards>> /\ CardsGrow /\ CardsInv' /\ run' = Idle /\ Findings' = Findings
  BY CardsSame DEF Finish, IInv, Findings
<1>2. CASE UNCHANGED file
  BY <1>1, <1>2, FileStays DEF IInv, FileInv
<1>3. CASE file' = Saved(MarkRouted(run.mem))
  <2>1. /\ LedgerInv(file')
        /\ \A f \in file'.topics \ {"job"} : IsWorking(file', f) =>
             ApplyKind(f) = "process" /\ cast.analysis = "on" /\ StatusOf(file', f) = "deferred"
    BY <1>3, SavedLedger
  <2>2. LedgerInv(file)'
    BY <1>1, <2>1 DEF LedgerInv, Shaped, Bare, Apart, Paired, HasPair, IsWorking, StatusOf
  <2>3. TopicClosesEntry'
    BY <1>1, <2>1 DEF TopicClosesEntry, TwiceRouted, IsWorking, StatusOf, ApplyKind
  <2> QED BY <1>1, <2>2, <2>3 DEF IInv
<1> QED BY <1>2, <1>3 DEF Finish, Saved

LEMMA CrashStep ==
    ASSUME IInv, Crash
    PROVE  IInv'
BY CardsSame, FileStays DEF Crash, IInv, FileInv

LEMMA NextInv ==
    ASSUME IInv, [Next]_vars
    PROVE  IInv'
<1>1. CASE run # Idle
  <2>1. Running
    BY <1>1 DEF IInv
  <2> QED BY <1>1, <2>1, BeginStep, NightStep, PeopleStep, AnalyzeStep, RouteCodeStep,
             RouteProcessStep, CreateImplStep, CreateReviewStep, CreateFailsStep, FinishStep,
             CrashStep, CardsSame, FileStays, RunningStays
          DEF Next, RunStep, vars, IInv, FileInv
<1>2. CASE run = Idle
  <2>1. ~(RunStep \/ CreateFails \/ Crash)
    BY <1>2 DEF Idle, RunStep, Analyze, RouteCode, RouteProcess, CreateImpl, CreateReview,
                Finish, CreateFails, Crash
  <2> QED BY <1>2, <2>1, BeginStep, NightStep, PeopleStep, CardsSame, FileStays
          DEF Next, vars, IInv, FileInv
<1> QED BY <1>1, <1>2

LEMMA Invariance == Spec => []IInv
BY InitInv, NextInv, PTL DEF Spec

-----------------------------------------------------------------------------
(* An entry is saved as applied only when both cards of a pair were made,   *)
(* in this run or in one before it (apply_policy_gate, run).                *)
THEOREM AppliedIsPaired == Spec => []AppliedHasPair
<1>1. IInv => AppliedHasPair
  BY DEF IInv, LedgerInv, Paired, StatusOf, HasPair, AppliedHasPair
<1> QED BY <1>1, Invariance, PTL

(* What was resolved once leaves the working set for good, but for the cron *)
(* job and the process finding that both channels took (dedupe).            *)
THEOREM TopicsStayClosed == Spec => []TopicClosesEntry
<1>1. IInv => TopicClosesEntry
  BY DEF IInv
<1> QED BY <1>1, Invariance, PTL

(* The saved working set never holds a live session and an ended one        *)
(* together: one session is one lifecycle (revalidate_queue).               *)
THEOREM OneLifecycle == Spec => []LifecyclesApart
<1>1. IInv => LifecyclesApart
  BY DEF IInv, LedgerInv, Apart, IsWorking, StatusOf, LifecyclesApart
<1> QED BY <1>1, Invariance, PTL
=============================================================================
