-------------------------- MODULE ShippedFixRetro --------------------------
(***************************************************************************)
(* The retrospective of shipped fixes: each night the merges since the     *)
(* last run are judged against the ledger of findings, and a fix that no   *)
(* finding foresaw is put on the queue of missing detectors.  An operator  *)
(* may run the backfill over the same file at any time; neither takes a    *)
(* lock, and each saves the whole file it loaded.                          *)
(***************************************************************************)
EXTENDS Naturals, FiniteSetsExt

CONSTANTS
    Topics,     \* patterns of findings, and what the texts of fixes mention
    MaxMerges, MaxClock, MaxUnread

VARIABLES
    hour,
    merges,     \* shipped fixes: [at, topic, born of a detector's card]
    ledger,     \* the file of the findings: [last, found, queue]
    backup,     \* findings that survive in the backups of the ledger
    night,      \* the nightly run
    fill,       \* the backfill
    unjudged,   \* history: fixes of nights whose git log could not be read
    known,      \* history: the findings ever saved
    retroFaults

retroVars == <<hour, merges, ledger, backup, night, fill, unjudged, known, retroFaults>>

(* found: when a finding was first seen, 0 for never.  queue: the fixes on  *)
(* the requirement of a topic.                                              *)
Empty == [last |-> 0, found |-> [t \in Topics |-> 0], queue |-> [t \in Topics |-> {}]]
Idle == [pc |-> "idle", now |-> 0, copy |-> Empty, blind |-> {}]

RetroInit ==
    /\ hour = 1 /\ merges = <<>> /\ ledger = Empty /\ backup = Empty.found
    /\ night = Idle /\ fill = Idle
    /\ unjudged = {} /\ known = Empty.found /\ retroFaults = 0

Unread == retroFaults < MaxUnread /\ retroFaults' = retroFaults + 1

Merge ==
    \E t \in Topics, born \in BOOLEAN :
        /\ Cardinality(DOMAIN merges) < MaxMerges
        /\ merges' = [i \in 1..Cardinality(DOMAIN merges) + 1 |->
                         IF i \in DOMAIN merges THEN merges[i]
                         ELSE [at |-> hour, topic |-> t, born |-> born]]
        /\ UNCHANGED <<hour, ledger, backup, night, fill, unjudged, known, retroFaults>>

Time ==
    /\ hour < MaxClock /\ hour' = hour + 1
    /\ UNCHANGED <<merges, ledger, backup, night, fill, unjudged, known, retroFaults>>

-----------------------------------------------------------------------------
(* The classifier. *)

(* Mutant: the second of the last run is taken for done. *)
RegisterAfter(since) == {i \in DOMAIN merges : merges[i].at > since}

Register(since) == {i \in DOMAIN merges : merges[i].at >= since}

(* An unreadable board shows no lineage: a fix is then nobody's.            *)
CardLineage(readable) == IF readable THEN DOMAIN merges ELSE {}

(* The card carries the router's key or cites a finding. *)
DetectorBorn(lineage, i) == i \in lineage /\ merges[i].born

(* The pattern that the subject and the card of a fix mention. *)
PatternIn(i) == merges[i].topic

(* A finding of the pattern that was there before the merge. *)
Covered(found, i) == found[PatternIn(i)] \in 1..merges[i].at

BlindSpot(found, lineage, i) == ~DetectorBorn(lineage, i) /\ ~Covered(found, i)

(* Only findings of the ledger cover: requirements are no findings.         *)
LedgerFindings(file) == file.found

Classified(fixes, found, lineage) == {i \in fixes : BlindSpot(found, lineage, i)}

(* One requirement for a topic, with its fixes. *)
WithRequirements(file, blind) ==
    [file EXCEPT !.queue =
        [t \in Topics |-> @[t] \cup {i \in blind : PatternIn(i) = t}]]

Earliest(seen, older) ==
    [t \in Topics |-> IF older[t] # 0 /\ (seen[t] = 0 \/ older[t] < seen[t])
                      THEN older[t] ELSE seen[t]]

LedgerHistory == Earliest(ledger.found, backup)

-----------------------------------------------------------------------------
(* The nightly run. *)

(* The hour is read when the run begins, before the ledger. *)
BeginNight ==
    /\ night.pc = "idle"
    /\ night' = [pc |-> "log", now |-> hour, copy |-> ledger, blind |-> {}]
    /\ UNCHANGED <<hour, merges, ledger, backup, fill, unjudged, known, retroFaults>>

FirstRun == night.copy.last = 0

(* The first run looks at nothing older than itself. *)
Since == IF FirstRun THEN night.now ELSE night.copy.last

Before(time) == {i \in DOMAIN merges : merges[i].at < time}

Prepass ==
    /\ night.pc = "log"
    /\ \E readable \in BOOLEAN :
           /\ night' = [night EXCEPT !.pc = "save",
                  !.blind = Classified(Register(Since), LedgerFindings(night.copy),
                                     CardLineage(readable))]
           /\ IF readable THEN UNCHANGED retroFaults ELSE Unread
    /\ unjudged' = IF FirstRun THEN unjudged \cup Before(night.now) ELSE unjudged
    /\ UNCHANGED <<hour, merges, ledger, backup, fill, known>>

(* A log that cannot be read costs a section of the report and nothing else.*)
Degraded ==
    /\ night.pc = "log" /\ Unread /\ night' = [night EXCEPT !.pc = "save"]
    /\ unjudged' = unjudged \cup IF FirstRun THEN Before(night.now)
                                ELSE Before(night.now) \ Before(Since)
    /\ UNCHANGED <<hour, merges, ledger, backup, fill, known>>

Pruned(file, stale) ==
    [file EXCEPT !.found = [t \in Topics |-> IF t \in stale THEN 0 ELSE @[t]]]

Detected(file, seen) ==
    [file EXCEPT !.found =
        [t \in Topics |-> IF t \in seen /\ @[t] = 0 THEN night.now ELSE @[t]]]

(* What the night detects is upserted, what is stale for long is pruned     *)
(* behind a backup, and all of it is saved at once.                         *)
SaveNight ==
    /\ night.pc = "save" /\ night' = Idle
    /\ \E seen \in SUBSET Topics, stale \in SUBSET {t \in Topics : night.copy.found[t] # 0} :
           /\ seen \cap stale = {}
           /\ ledger' = WithRequirements(Detected(Pruned([night.copy EXCEPT !.last = night.now], stale),
                                                seen), night.blind)
           /\ backup' = IF stale = {} THEN backup ELSE LedgerHistory
           /\ known' = Earliest(ledger'.found, known)
    /\ UNCHANGED <<hour, merges, fill, unjudged, retroFaults>>

(* A dry run, or one that dies, saves nothing. *)
NightEnds ==
    /\ night.pc # "idle" /\ night' = Idle
    /\ UNCHANGED <<hour, merges, ledger, backup, fill, unjudged, known, retroFaults>>

-----------------------------------------------------------------------------
(* The backfill: all of the history against all ledgers on disk. *)

BeginFill ==
    /\ fill.pc = "idle"
    /\ fill' = [Idle EXCEPT !.pc = "judge", !.copy = ledger]
    /\ UNCHANGED <<hour, merges, ledger, backup, night, unjudged, known, retroFaults>>

(* The history is read after the ledger was loaded.                         *)
SaveFill ==
    /\ fill.pc = "judge" /\ fill' = Idle
    /\ ledger' = WithRequirements(fill.copy, Classified(Register(0), LedgerHistory, CardLineage(TRUE)))
    /\ UNCHANGED <<hour, merges, backup, night, unjudged, known, retroFaults>>

FillEnds ==
    /\ fill.pc # "idle" /\ fill' = Idle
    /\ UNCHANGED <<hour, merges, ledger, backup, night, unjudged, known, retroFaults>>

RetroNext ==
    \/ Merge \/ Time
    \/ BeginNight \/ Prepass \/ Degraded \/ SaveNight \/ NightEnds
    \/ BeginFill \/ SaveFill \/ FillEnds

RetroSpec == RetroInit /\ [][RetroNext]_retroVars

-----------------------------------------------------------------------------
(* No blind spot falls between two nights: whatever runs died, ran dry or   *)
(* saved over one another, a fix before the last run that neither a         *)
(* detector's card nor a finding ever saved foresaw is on the queue, unless *)
(* the log of its night could not be read.                                  *)
BlindSpotQueued ==
    \A i \in Before(ledger.last) \ unjudged :
        BlindSpot(known, CardLineage(TRUE), i) => i \in ledger.queue[PatternIn(i)]
=============================================================================
