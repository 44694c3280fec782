------------------------------ MODULE Watcher ------------------------------
(***************************************************************************)
(* One pass of the decision-latency watcher over one board: the durable    *)
(* cursor and action keys, the events drained from the board's stream, and *)
(* the five heuristics H1..H5 that create fix cards, close superseded      *)
(* reviews, advance the pick gate, guard blocked cards without an event    *)
(* and archive deadlocked parents.  People, workers and the dispatcher     *)
(* move the board between any two steps, a native command may fail before  *)
(* or after its effect, and a pass may die before it saves its state.      *)
(*                                                                         *)
(* An instance shows the cards of one of Casts; a card out of the cast has *)
(* status "none".  Another board of the same pass appears only as the      *)
(* error that ends the pass (PassLost).                                    *)
(***************************************************************************)
EXTENDS Naturals, SequencesExt, FiniteSets

CONSTANTS
    Review,     \* a review card
    Gated,      \* a child of it (a deploy card)
    Fixes,      \* fix cards, numbered by the episode they answer when created
    Parked,     \* cards queued behind the pick gate
    Worker,     \* a card that only runs and completes
    Trap,       \* a card created blocked, without a blocked event
    Parent,     \* an implementation card with a review child
    Child,      \* that review child
    Casts,      \* sets of cards an instance shows at once
    Priority,   \* [Parked -> Nat], injective: priority, then creation time
    MaxEvents,  \* [Casts -> Nat]: how long people and workers append events
    MaxFaults,  \* failed commands, failed drains and lost passes
    MaxMisses   \* marks set on the pick queue, blocks that grow too old

Cards == {Review, Gated, Worker, Trap, Parent, Child} \cup Fixes \cup Parked

ASSUME WatcherAssumption ==
    /\ Casts \subseteq SUBSET (Cards \ Fixes)
    /\ IsFiniteSet(Fixes) /\ Fixes # {} /\ IsFiniteSet(Parked)
    /\ Fixes \cap ({Review, Gated, Worker, Trap, Parent, Child} \cup Parked) = {}
    /\ Review \notin {Gated, Worker, Trap, Parent, Child} \cup Parked
    /\ Priority \in [Parked -> Nat]
    /\ \A p, q \in Parked : Priority[p] = Priority[q] => p = q
    /\ MaxEvents \in [Casts -> Nat] /\ MaxFaults \in Nat /\ MaxMisses \in Nat

VARIABLES
    (* the board *)
    status,     \* of every card
    log,        \* the events of the board: [kind, task, cause]
    answers,    \* the episode a fix card was created for (0 before)
    merged,     \* fix cards whose commit is in the canonical branch
    unsafe,     \* parked cards on hold or behind an unfinished parent
    capability, \* a capability blocker is parked on the board
    repo,       \* a repository resolves for the review's workspace
    mature,     \* events up to this id are older than deadlock_min_age_seconds
    expired,    \* events up to this id are older than max_block_age_seconds
    (* the pass *)
    mode,       \* "dry", "replay" or "live"
    file,       \* watcher-state.json: [keys, live, dry]
    mem,        \* the copy this pass works on
    pc, work,   \* the phase and what is left of it
    upto,       \* last event id drained
    seen,       \* event id being handled
    plan,       \* the native command about to run, or <<>>
    (* history and bounds *)
    picks,      \* how often the gate moved for each completion it moved for
    lost,       \* passes lost before they saved
    faults, misses

native == <<status, log, answers>>
world == <<merged, unsafe, capability, repo, mature, expired>>
pass == <<mode, file, mem, pc, work, upto, seen, plan>>
counts == <<picks, lost, faults, misses>>
watcherVars == <<native, world, pass, counts>>

NoState == [keys |-> {}, live |-> 0, dry |-> 0]
Terminal == {"done", "archived"}

(* Cards that are blocked when the instance starts. *)
Seeded == {Review, Trap} \cup Parked

FirstStatus(c) ==
    CASE c \in {Gated, Child} -> "todo"
      [] c \in Seeded -> "blocked"
      [] OTHER -> "running"

Event(kind, c, cause) == [kind |-> kind, task |-> c, cause |-> cause]

CauseOf(c) ==
    CASE c = Review -> "defect"
      [] c \in Parked -> "pick"
      [] c = Parent -> "required"
      [] OTHER -> "input"

(* A review has a defect and a queue card is parked, in no fixed order.     *)
WatcherInit ==
    /\ \E cast \in Casts :
           /\ repo \in IF Review \in cast THEN BOOLEAN ELSE {TRUE}
           /\ status = [c \in Cards |-> IF c \in cast THEN FirstStatus(c) ELSE "none"]
           /\ log = SetToSeq({Event(IF x = Trap THEN "created" ELSE "blocked", x, CauseOf(x)) :
                                 x \in cast \cap Seeded})
    /\ answers = [f \in Fixes |-> 0]
    /\ merged = {} /\ unsafe = {} /\ capability = FALSE
    /\ mature = 0 /\ expired = 0
    /\ mode \in {"dry", "replay", "live"}
    /\ file = NoState /\ mem = NoState
    /\ pc = "idle" /\ work = {} /\ upto = 0 /\ seen = 0 /\ plan = <<>>
    /\ picks = <<>> /\ lost = 0 /\ faults = 0 /\ misses = 0

-----------------------------------------------------------------------------
(* The native board (outside the repository): what its commands do.        *)

(* The blocked events of a card, and the one that opened its episode. *)
Blocks(c) == {i \in DOMAIN log : log[i].kind = "blocked" /\ log[i].task = c}
Episode(c) == IF Blocks(c) = {} THEN 0 ELSE CHOOSE i \in Blocks(c) : \A j \in Blocks(c) : j <= i
Cause(c) == IF Blocks(c) = {} THEN "none" ELSE log[Episode(c)].cause

Move(c, s, kind, cause) ==
    /\ status' = [status EXCEPT ![c] = s]
    /\ log' = Append(log, Event(kind, c, cause))
    /\ UNCHANGED answers

Room == Len(log) < MaxEvents[{c \in Cards \ Fixes : status[c] # "none"}]

Block(c) ==
    /\ status[c] = "running" /\ Room
    /\ c = Review => Cardinality(Blocks(Review)) < Cardinality(Fixes)
    /\ Move(c, "blocked", "blocked", CauseOf(c))

Unblock(c) ==
    /\ status[c] = "blocked" /\ Room
    /\ Move(c, "ready", "unblocked", "none")

Complete(c) ==
    /\ status[c] = "running" /\ Room
    /\ Move(c, "done", "completed", "none")

Released(c) ==
    \/ status[c] = "todo" /\ status[IF c = Gated THEN Review ELSE Parent] \in Terminal
    \/ status[c] = "blocked" /\ Blocks(c) = {}

(* The dispatcher starts a ready card, and readies a child whose parent is  *)
(* finished or a blocked card without a blocked event.                      *)
Dispatch(c) ==
    /\ \/ status[c] = "ready" /\ status' = [status EXCEPT ![c] = "running"]
       \/ Released(c) /\ status' = [status EXCEPT ![c] = "ready"]
    /\ UNCHANGED <<log, answers>>

BoardMoves ==
    /\ \E c \in Cards : Block(c) \/ Unblock(c) \/ Complete(c) \/ Dispatch(c)
    /\ UNCHANGED <<world, pass, counts>>

WorldMoves ==
    /\ \/ /\ \E f \in Fixes : status[f] = "done" /\ merged' = merged \cup {f}
          /\ UNCHANGED <<unsafe, capability, repo, mature, expired, misses>>
       \/ /\ \E p \in Parked : status[p] = "blocked" /\ p \notin unsafe /\ unsafe' = unsafe \cup {p}
          /\ misses < MaxMisses /\ misses' = misses + 1
          /\ UNCHANGED <<merged, capability, repo, mature, expired>>
       \/ /\ \E p \in unsafe : unsafe' = unsafe \ {p}
          /\ UNCHANGED <<merged, capability, repo, mature, expired, misses>>
       \/ /\ \E p \in Parked : status[p] # "none"
          /\ ~capability /\ capability' = TRUE
          /\ misses < MaxMisses /\ misses' = misses + 1
          /\ UNCHANGED <<merged, unsafe, repo, mature, expired>>
       \/ /\ capability /\ capability' = FALSE
          /\ UNCHANGED <<merged, unsafe, repo, mature, expired, misses>>
       \/ /\ status[Review] # "none" /\ expired < Len(log) /\ expired' = Len(log)
          /\ misses < MaxMisses /\ misses' = misses + 1
          /\ UNCHANGED <<merged, unsafe, capability, repo, mature>>
    /\ UNCHANGED <<native, pass, picks, lost, faults>>

(* Time passes the debounce, and a workspace or a default one appears. *)
Matures ==
    /\ status[Parent] # "none" /\ mature < Len(log) /\ mature' = Len(log)
    /\ UNCHANGED <<native, merged, unsafe, capability, repo, expired, pass, counts>>

RepoAppears ==
    /\ ~repo /\ repo' = TRUE
    /\ UNCHANGED <<native, merged, unsafe, capability, mature, expired, pass, counts>>

-----------------------------------------------------------------------------
(* The durable state and the action keys. *)

Would == mode # "live"

(* Mutant: one namespace for both modes. *)
StoredPlain(key) == <<FALSE, key>>

Stored(key) == <<Would, key>>

Handled(key) == Stored(key) \in mem.keys \/ <<FALSE, key>> \in mem.keys

Keyed(key) == [mem EXCEPT !.keys = @ \cup {Stored(key)}]

Idle == pc = "idle" /\ plan = <<>>

(* The operator looks at dry runs or replays, and goes live once. *)
GoLive ==
    /\ Idle /\ Would /\ mode' = "live"
    /\ UNCHANGED <<native, world, file, mem, pc, work, upto, seen, plan, counts>>

Since == CASE mode = "replay" -> 0 [] mode = "dry" -> file.dry [] OTHER -> file.live

(* Load the state and drain the events after the cursor: a drain that fails *)
(* after some complete frames keeps them.                                   *)
Drain ==
    /\ Idle
    /\ mem' = file /\ seen' = Since + 1 /\ pc' = "events"
    /\ \/ upto' = Len(log) /\ UNCHANGED faults
       \/ upto' \in Since + 1 .. Len(log) - 1 /\ faults < MaxFaults /\ faults' = faults + 1
    /\ UNCHANGED <<native, world, mode, file, work, plan, picks, lost, misses>>

(* A drain that fails before its first frame skips the board's scans. *)
DrainFails ==
    /\ Idle /\ faults < MaxFaults /\ faults' = faults + 1
    /\ mem' = file /\ pc' = IF mode = "replay" THEN "save" ELSE "supersedes"
    /\ UNCHANGED <<native, world, mode, file, work, upto, seen, plan, picks, lost, misses>>

(* A crash, or the read error of some board: nothing of the pass is saved.  *)
PassLost ==
    /\ pc # "idle" /\ faults < MaxFaults
    /\ faults' = faults + 1 /\ lost' = lost + 1
    /\ mem' = NoState /\ pc' = "idle" /\ work' = {} /\ plan' = <<>> /\ upto' = 0 /\ seen' = 0
    /\ UNCHANGED <<native, world, mode, file, picks, misses>>

(* What the drained events say of a card, in their order; a live pass reads *)
(* the board, but H2 always goes by the events of this drain.               *)
Viewed(c) == {i \in Since + 1 .. seen : log[i].task = c}
View(c) ==
    IF Viewed(c) = {} THEN "unknown"
    ELSE LET last == log[CHOOSE i \in Viewed(c) : \A j \in Viewed(c) : j <= i]
         IN CASE last.kind = "completed" -> "done"
              [] last.kind = "unblocked" -> "ready"
              [] OTHER -> "blocked"

Now(c) == IF mode = "replay" THEN View(c) ELSE status[c]

(* A dry run records the key; a live run goes on to the native command. *)
Propose(key) ==
    IF Would THEN mem' = Keyed(key) /\ plan' = <<>> ELSE plan' = key /\ UNCHANGED mem

Leave == UNCHANGED <<mem, plan>>

-----------------------------------------------------------------------------
(* H1: a fix card for each episode in which a review is blocked on a defect.*)

Open(f) == status[f] \notin Terminal \cup {"none"}

FixKey(e) == <<"fix", Review, e>>

(* Mutant: an open fix card of the review is not looked for. *)
DefectUnchecked(e) ==
    IF Now(Review) # "blocked" \/ (mode # "replay" /\ e <= expired)
          \/ Handled(FixKey(e)) \/ ~repo
    THEN Leave ELSE Propose(FixKey(e))

Defect(e) ==
    IF Now(Review) # "blocked" \/ (mode # "replay" /\ e <= expired) \/ Handled(FixKey(e))
    THEN Leave
    ELSE IF \E f \in Fixes : Open(f)
    THEN mem' = Keyed(FixKey(e)) /\ UNCHANGED plan
    ELSE IF repo THEN Propose(FixKey(e)) ELSE Leave

(* H2: the review is closed when a done fix card of it is merged. *)
SupersedeKey == <<"supersede", Review, 0>>

Verified(f) == repo /\ f \in merged

Supersede(f) ==
    IF Handled(SupersedeKey) \/ ~Verified(f) THEN Leave
    ELSE Propose(SupersedeKey)

PromoteKey(c) == <<"promote", c, 0>>
Promote(c) == IF Handled(PromoteKey(c)) THEN Leave ELSE Propose(PromoteKey(c))

(* The children to promote once the review is closed. *)
Waiting == {c \in {Gated} : status[c] \in {"todo", "blocked"}}

(* H3: a completion moves the pick gate on by one card. *)
PickKey(p) == <<"pick", p, 0>>

Eligible == {p \in Parked : /\ Now(p) = "blocked" /\ ~Handled(PickKey(p))
                            /\ Cause(p) = "pick" /\ p \notin unsafe}

First(queue) == CHOOSE p \in queue : \A q \in queue : Priority[q] <= Priority[p]

Pick == IF capability \/ Eligible = {} THEN Leave ELSE Propose(PickKey(First(Eligible)))

(* H4: a blocked card without a blocked event gets one. *)
GuardKey(c) == <<"guard", c, 0>>
Guard(c) == IF Handled(GuardKey(c)) THEN Leave ELSE Propose(GuardKey(c))

(* H5: a parent that waits for a review which waits for it is archived. *)
Stuck == status[Child] = "todo"

Deadlocked ==
    /\ status[Parent] = "blocked" /\ Cause(Parent) = "required"
    /\ Episode(Parent) <= mature /\ Stuck

ArchiveKey(e) == <<"deadlock", Parent, e>>

Archive(e) ==
    IF Handled(ArchiveKey(e)) \/ status[Parent] # "blocked" \/ ~Stuck
    THEN Leave ELSE Propose(ArchiveKey(e))

-----------------------------------------------------------------------------
(* The native commands. *)

Accepts(key) ==
    LET c == key[2] IN
    CASE key[1] = "supersede" -> status[c] \in {"ready", "running", "blocked"}
      [] key[1] = "promote" -> status[c] \in {"todo", "blocked"}
      [] key[1] = "pick" -> status[c] = "blocked"
      [] key[1] \in {"guard", "reguard"} -> status[c] \in {"ready", "running"}
      [] OTHER -> TRUE

(* One card per idempotency key, whose number the card keeps. *)
CreateFix(e) ==
    IF \E f \in Fixes : answers[f] = e THEN UNCHANGED native
    ELSE LET f == CHOOSE g \in Fixes : status[g] = "none"
         IN /\ status' = [status EXCEPT ![f] = "ready"]
            /\ answers' = [answers EXCEPT ![f] = e]
            /\ UNCHANGED log

Effect(key) ==
    LET c == key[2] IN
    CASE key[1] = "fix" -> CreateFix(key[3])
      [] key[1] = "supersede" -> Move(c, "done", "completed", "superseded")
      [] key[1] = "promote" -> status' = [status EXCEPT ![c] = "ready"] /\ UNCHANGED <<log, answers>>
      [] key[1] = "pick" -> Move(c, "ready", "unblocked", "none")
      [] key[1] \in {"guard", "reguard"} -> Move(c, "blocked", "blocked", "guard")
      [] key[1] = "deadlock" -> status' = [status EXCEPT ![c] = "archived"] /\ UNCHANGED <<log, answers>>

KeyOf(command) == IF command[1] = "reguard" THEN GuardKey(command[2]) ELSE command

(* The completion a pick is for is the event before the next one.           *)
Moved(i) == IF i \in DOMAIN picks THEN picks[i] ELSE 0

Counted(key) ==
    picks' = IF key[1] = "pick"
             THEN [i \in DOMAIN picks \cup {seen - 1} |->
                      IF i = seen - 1 THEN Moved(i) + 1 ELSE picks[i]]
             ELSE picks

(* Mutant: a failed command consumes its key. *)
MemAfterAnyway == Keyed(KeyOf(plan))

MemAfterFailure == mem

(* A closed review promotes its waiting child next. *)
AfterSuccess ==
    IF plan = SupersedeKey /\ Waiting # {} /\ ~Handled(PromoteKey(Gated))
    THEN PromoteKey(Gated) ELSE <<>>

Perform ==
    /\ plan # <<>> /\ plan[1] # "unguard" /\ Accepts(plan)
    /\ Effect(plan) /\ Counted(plan)
    /\ mem' = Keyed(KeyOf(plan)) /\ plan' = AfterSuccess
    /\ UNCHANGED <<world, mode, file, pc, work, upto, seen, lost, faults, misses>>

(* The guard is tried a second time after an unblock. *)
AfterFailure == IF plan[1] = "guard" THEN <<"unguard", plan[2], 0>> ELSE <<>>

Refused ==
    /\ plan # <<>> /\ plan[1] # "unguard" /\ ~Accepts(plan)
    /\ mem' = MemAfterFailure /\ plan' = AfterFailure
    /\ UNCHANGED <<native, world, mode, file, pc, work, upto, seen, counts>>

(* A failure, or a time limit that comes after the effect. *)
Fails ==
    /\ plan # <<>> /\ plan[1] # "unguard" /\ Accepts(plan) /\ faults < MaxFaults
    /\ faults' = faults + 1
    /\ \/ Effect(plan) /\ Counted(plan)
       \/ UNCHANGED <<native, picks>>
    /\ mem' = MemAfterFailure /\ plan' = AfterFailure
    /\ UNCHANGED <<world, mode, file, pc, work, upto, seen, lost, misses>>

(* The exit code of the unblock between the two is ignored. *)
Unguard ==
    /\ plan # <<>> /\ plan[1] = "unguard"
    /\ plan' = <<"reguard", plan[2], 0>>
    /\ \/ /\ status[plan[2]] = "blocked" /\ Move(plan[2], "ready", "unblocked", "none")
          /\ UNCHANGED faults
       \/ status[plan[2]] # "blocked" /\ UNCHANGED <<native, faults>>
       \/ faults < MaxFaults /\ faults' = faults + 1 /\ UNCHANGED native
    /\ UNCHANGED <<world, mode, file, mem, pc, work, upto, seen, picks, lost, misses>>

-----------------------------------------------------------------------------
(* The pass. *)

Stays == UNCHANGED <<native, world, mode, file, upto, counts>>

(* A completed fix card, whose review was blocked at that point of the drain.*)
FixDone(event) ==
    event.kind = "completed" /\ event.task \in Fixes /\ View(Review) = "blocked"

React ==
    /\ pc = "events" /\ plan = <<>> /\ seen <= upto
    /\ LET event == log[seen] IN
       /\ IF event.kind = "completed" THEN pc' = "pick" /\ UNCHANGED seen
          ELSE seen' = seen + 1 /\ UNCHANGED pc
       /\ IF event.kind = "blocked" /\ event.cause = "defect" THEN Defect(seen)
          ELSE IF FixDone(event) THEN Supersede(event.task)
          ELSE IF event.kind = "created" /\ mode = "replay" THEN Guard(event.task)
          ELSE Leave
    /\ UNCHANGED work /\ Stays

PickStep ==
    /\ pc = "pick" /\ plan = <<>>
    /\ Pick /\ pc' = "events" /\ seen' = seen + 1
    /\ UNCHANGED work /\ Stays

(* What each scan finds on the board when it starts. *)
MissingEvents == {c \in Cards : status[c] = "blocked" /\ Blocks(c) = {}}

DefectBlocks == {e \in Blocks(Review) : log[e].cause = "defect" /\ e > expired}

Deadlocks == IF Deadlocked THEN {Episode(Parent)} ELSE {}

DoneFixes == IF status[Review] = "blocked" THEN {f \in Fixes : status[f] = "done"} ELSE {}

Superseded == \E i \in DOMAIN log : log[i].cause = "superseded"

Pending == IF Superseded THEN Waiting ELSE {}

Found(phase) ==
    CASE phase = "traps" -> MissingEvents
      [] phase = "defects" -> DefectBlocks
      [] phase = "deadlocks" -> Deadlocks
      [] phase = "supersedes" -> DoneFixes
      [] phase = "promotions" -> Pending
      [] OTHER -> {}

NextPhase ==
    CASE pc = "events" -> IF mode = "replay" THEN "save" ELSE "traps"
      [] pc = "traps" -> "defects"
      [] pc = "defects" -> "deadlocks"
      [] pc = "deadlocks" -> "supersedes"
      [] pc = "supersedes" -> "promotions"
      [] pc = "promotions" -> "save"

(* Mutants: the cursor is left where it was; it goes one too far. *)
AdvancedNever == mem

(* The cursor moves when the board is through. *)
Advanced ==
    IF upto = Since THEN mem
    ELSE IF Would THEN [mem EXCEPT !.dry = upto] ELSE [mem EXCEPT !.live = upto]

EndPhase ==
    /\ plan = <<>> /\ work = {}
    /\ \/ pc = "events" /\ seen > upto
       \/ pc \in {"traps", "defects", "deadlocks", "supersedes", "promotions"}
    /\ pc' = NextPhase /\ work' = Found(NextPhase)
    /\ mem' = IF pc = (IF mode = "replay" THEN "events" ELSE "deadlocks") THEN Advanced ELSE mem
    /\ UNCHANGED <<plan, seen>> /\ Stays

Scan(x) ==
    /\ plan = <<>> /\ x \in work /\ work' = work \ {x}
    /\ CASE pc = "traps" -> Guard(x)
         [] pc = "defects" -> Defect(x)
         [] pc = "deadlocks" -> Archive(x)
         [] pc = "supersedes" -> Supersede(x)
         [] pc = "promotions" -> Promote(x)
    /\ UNCHANGED <<pc, seen>> /\ Stays

Save ==
    /\ pc = "save"
    /\ file' = mem /\ mem' = NoState /\ pc' = "idle" /\ upto' = 0 /\ seen' = 0
    /\ UNCHANGED <<native, world, mode, work, plan, counts>>

-----------------------------------------------------------------------------
PassStep ==
    \/ Drain \/ React \/ PickStep \/ EndPhase \/ Save
    \/ Perform \/ Refused \/ Unguard
    \/ \E x \in work : Scan(x)

WatcherNext ==
    \/ BoardMoves \/ WorldMoves \/ Matures \/ RepoAppears
    \/ GoLive \/ PassStep \/ DrainFails \/ PassLost \/ Fails

WatcherSpec == WatcherInit /\ [][WatcherNext]_watcherVars

(* Cron starts every pass and a pass ends; the operator goes live; clocks   *)
(* run, and a repository is configured in the end.                          *)
WatcherFairSpec ==
    /\ WatcherSpec
    /\ WF_watcherVars(PassStep)
    /\ SF_watcherVars(GoLive)
    /\ WF_watcherVars(Matures) /\ WF_watcherVars(RepoAppears)

-----------------------------------------------------------------------------
(* Whatever is lost, repeated or re-blocked, a review has at most one open  *)
(* fix card and an episode at most one card: the open-card check and the    *)
(* idempotency key of the native create together.                           *)
OneOpenFix ==
    /\ Cardinality({f \in Fixes : Open(f)}) <= 1
    /\ \A f, g \in Fixes : answers[f] = answers[g] /\ answers[f] # 0 => f = g

(* The gate moves for completions only, by one card for each, whatever      *)
(* commands fail and whatever drains are cut short: only a lost pass, whose *)
(* cursor and keys are gone, may move it once more for the same completion. *)
GateMovesPerCompletion ==
    \A i \in DOMAIN picks : log[i].kind = "completed" /\ picks[i] <= 1 + lost

(* A dry run or a replay takes nothing from the live run: neither the board *)
(* nor the live cursor nor a live key.                                      *)
DryRunTakesNothing ==
    [][Would /\ (PassStep \/ Fails \/ PassLost) =>
           /\ UNCHANGED native
           /\ file'.live = file.live
           /\ {k \in file'.keys : ~k[1]} = {k \in file.keys : ~k[1]}]_watcherVars

(* A review that stays blocked on a fresh defect gets a fix card. *)
DefectGetsFix ==
    []<>(\/ status[Review] # "blocked" \/ Episode(Review) <= expired
         \/ \E f \in Fixes : status[f] # "none")

(* A card that is blocked without an event does not stay so. *)
TrapGuarded == []<>~(status[Trap] = "blocked" /\ Blocks(Trap) = {})

(* A parent and its review child do not wait for each other for ever, in    *)
(* any episode.                                                             *)
DeadlockBroken == []<>~(Deadlocked)

-----------------------------------------------------------------------------
(* What the documentation says and the code does not do. *)

(* "The original review closes as superseded only after the fix is verified *)
(* merged": the fix of the episode it is blocked in.                        *)
SupersedesItsEpisode ==
    [][status[Review] = "blocked" /\ status'[Review] = "done" =>
           \E f \in merged : answers[f] = Episode(Review)]_watcherVars
=============================================================================
