----------------------------- MODULE StormHalt -----------------------------
(***************************************************************************)
(* The crash-storm breaker of the daemon over one board: _check_storms,    *)
(* its detector over a snapshot and the block-only applier.  A storm is a  *)
(* group of crashed runs of one (board, profile) lane with one signature;  *)
(* that it was halted the daemon remembers in memory, until a tick finds   *)
(* no such storm.  The dispatcher, the window and people move between any  *)
(* two steps, and a snapshot, a listing or a block may fail.               *)
(***************************************************************************)
EXTENDS Naturals, FiniteSets

CONSTANTS
    Storms,         \* (profile, signature) groups of the board
    Cards, Lanes,
    NoLane,         \* the lane of a group whose runs carry no profile
    NoStorm,
    LaneOf,         \* [Storms -> Lanes \cup {NoLane}]
    MinCount,       \* STORM_MIN_COUNT
    MaxRecent,      \* bound on crashed runs in the window
    MaxMisses,      \* bound on snapshots and native commands that fail
    MaxRestarts,
    MaxMoves        \* bound on unblocks and reassignments

ASSUME StormAssumption ==
    /\ LaneOf \in [Storms -> Lanes \cup {NoLane}]
    /\ NoLane \notin Lanes /\ NoStorm \notin Storms
    /\ MinCount \in Nat \ {0} /\ MaxRecent \in Nat /\ MinCount <= MaxRecent
    /\ MaxMisses \in Nat /\ MaxRestarts \in Nat /\ MaxMoves \in Nat

VARIABLES
    card,       \* "ready", "running" or "blocked"
    lane,       \* assignee of a card
    recent,     \* crashed runs of the group inside the window
    keys,       \* _storm_episode_keys
    stage,      \* "wait", "halt" (the loop over findings), "block"
    found,      \* findings of this tick not yet handled
    storm,      \* the finding being halted
    targets,    \* ready card ids of its listing, not yet blocked
    hit,        \* cards blocked by this halt
    halts,      \* history: halts of the group since a tick last came while it was
                \* below the threshold
    forgets,    \* history: how often the key of such a halt was lost since then
    misses, restarts, moves

lanes == <<card, lane, recent>>
tick == <<stage, found, storm, targets, hit>>
episodes == <<halts, forgets>>
bounds == <<misses, restarts, moves>>
stormVars == <<lanes, keys, tick, episodes, bounds>>

StormInit ==
    /\ card = [c \in Cards |-> "ready"] /\ lane \in [Cards -> Lanes]
    /\ recent = [s \in Storms |-> 0]
    /\ keys = {}
    /\ stage = "wait" /\ found = {} /\ storm = NoStorm /\ targets = {} /\ hit = {}
    /\ halts = [s \in Storms |-> 0] /\ forgets = [s \in Storms |-> 0]
    /\ misses = 0 /\ restarts = 0 /\ moves = 0

Miss == misses < MaxMisses /\ misses' = misses + 1 /\ UNCHANGED <<restarts, moves>>

-----------------------------------------------------------------------------
(* The board. *)

Claim(c) ==
    /\ card[c] = "ready"
    /\ card' = [card EXCEPT ![c] = "running"]
    /\ UNCHANGED <<lane, recent, keys, tick, episodes, bounds>>

(* A run crashes: the card is ready again and its group grows.  The groups  *)
(* without a profile take runs of no known lane.                            *)
RunCrashes(c, s) ==
    /\ card[c] = "running" /\ LaneOf[s] \in {lane[c], NoLane}
    /\ recent[s] < MaxRecent
    /\ card' = [card EXCEPT ![c] = "ready"]
    /\ recent' = [recent EXCEPT ![s] = @ + 1]
    /\ UNCHANGED <<lane, keys, tick, episodes, bounds>>

(* A run leaves the window. *)
Expire(s) ==
    /\ recent[s] > 0
    /\ recent' = [recent EXCEPT ![s] = @ - 1]
    /\ UNCHANGED <<card, lane, keys, tick, episodes, bounds>>

(* An operator unblocks a card; he, or the recovery handoff, reassigns one. *)
Moved(c) ==
    /\ moves < MaxMoves /\ moves' = moves + 1
    /\ \/ card[c] = "blocked" /\ card' = [card EXCEPT ![c] = "ready"] /\ UNCHANGED lane
       \/ lane' \in {[lane EXCEPT ![c] = l] : l \in Lanes \ {lane[c]}} /\ UNCHANGED card
    /\ UNCHANGED <<recent, keys, tick, episodes, misses, restarts>>

-----------------------------------------------------------------------------
(* The tick. *)

Storming == {s \in Storms : recent[s] >= MinCount}

(* A key whose group is not among the findings ended its episode. *)
KeysKept(findings) == keys \cap findings

(* Mutant: the keys are not consulted. *)
FreshAll(findings) == findings

Fresh(findings) == findings \ keys

(* The keys in groups were lost. *)
Forgotten(groups) == [s \in Storms |-> IF s \in groups THEN forgets[s] + 1 ELSE forgets[s]]

(* For the groups below the threshold the episode is over. *)
CalmAsZero(count) == [s \in Storms |-> IF s \in Storming THEN count[s] ELSE 0]

(* An unreadable board is skipped: a tick without findings. *)
Check ==
    /\ stage = "wait" /\ stage' = "halt"
    /\ \E findings \in {Storming, {}} :
           /\ IF findings = Storming THEN UNCHANGED bounds ELSE Miss
           /\ keys' = KeysKept(findings)
           /\ found' = Fresh(findings)
           /\ forgets' = CalmAsZero(Forgotten((keys \cap Storming) \ findings))
    /\ halts' = CalmAsZero(halts)
    /\ UNCHANGED <<lanes, storm, targets, hit>>

(* The listing is scoped to the assignee. *)
ReadyInLane(s) == {c \in Cards : card[c] = "ready" /\ lane[c] = LaneOf[s]}

ListReady(s) ==
    /\ stage = "halt" /\ s \in found /\ LaneOf[s] # NoLane
    /\ found' = found \ {s} /\ storm' = s
    /\ targets' = ReadyInLane(s) /\ hit' = {}
    /\ stage' = "block"
    /\ UNCHANGED <<lanes, keys, episodes, bounds>>

(* No profile, a failed or an unreadable listing: storm_halt_error, and the *)
(* next finding.                                                            *)
ListFails(s) ==
    /\ stage = "halt" /\ s \in found
    /\ IF LaneOf[s] = NoLane THEN UNCHANGED bounds ELSE Miss
    /\ found' = found \ {s}
    /\ UNCHANGED <<lanes, keys, stage, storm, targets, hit, episodes>>

(* The block takes the card where it is by now. *)
Block(c) ==
    /\ stage = "block" /\ c \in targets
    /\ targets' = targets \ {c} /\ hit' = hit \cup {c}
    /\ card' = [card EXCEPT ![c] = "blocked"]
    /\ halts' = IF hit = {} THEN [halts EXCEPT ![storm] = @ + 1] ELSE halts
    /\ UNCHANGED <<lane, recent, keys, stage, found, storm, forgets, bounds>>

(* A nonzero exit, or the time limit, which may come after the effect. *)
BlockFails(c) ==
    /\ stage = "block" /\ c \in targets /\ Miss
    /\ targets' = targets \ {c}
    /\ card' \in {card, [card EXCEPT ![c] = "blocked"]}
    /\ UNCHANGED <<lane, recent, keys, stage, found, storm, hit, episodes>>

(* Mutant: a halt that blocked nothing consumes the episode too. *)
KeysAfterAlways == keys \cup {storm}

KeysAfter == IF hit = {} THEN keys ELSE keys \cup {storm}

FinishHalt ==
    /\ stage = "block" /\ targets = {}
    /\ keys' = KeysAfter
    /\ stage' = "halt" /\ storm' = NoStorm /\ hit' = {}
    /\ UNCHANGED <<lanes, found, targets, episodes, bounds>>

FinishTick ==
    /\ stage = "halt" /\ found = {}
    /\ stage' = "wait"
    /\ UNCHANGED <<lanes, keys, found, storm, targets, hit, episodes, bounds>>

(* The daemon dies or is stopped, and starts again without its memory. *)
Restart ==
    /\ restarts < MaxRestarts
    /\ restarts' = restarts + 1
    /\ keys' = {}
    /\ stage' = "wait" /\ found' = {} /\ storm' = NoStorm /\ targets' = {} /\ hit' = {}
    /\ forgets' = Forgotten(keys \cup {s \in Storms : s = storm /\ hit # {}})
    /\ UNCHANGED <<lanes, halts, misses, moves>>

-----------------------------------------------------------------------------
LaneStep ==
    \/ \E c \in Cards : Claim(c) \/ Moved(c)
    \/ \E c \in Cards, s \in Storms : RunCrashes(c, s)
    \/ \E s \in Storms : Expire(s)

StormStep ==
    \/ Check \/ FinishHalt \/ FinishTick
    \/ \E s \in Storms : ListReady(s) \/ ListFails(s)
    \/ \E c \in Cards : Block(c) \/ BlockFails(c)

StormNext == LaneStep \/ StormStep \/ Restart

StormSpec == StormInit /\ [][StormNext]_stormVars

(* The loop takes its steps whenever it can. *)
StormFairSpec == StormSpec /\ WF_stormVars(StormStep)

-----------------------------------------------------------------------------
(* A storm that goes on is halted once, and once more only for each time    *)
(* the daemon lost the key of its halt: to a tick whose snapshot could not  *)
(* be read, or to its own end.  Cards an operator unblocks meanwhile,       *)
(* blocks that fail and listings that fail change nothing in this.          *)
HaltsAccounted == \A s \in Storms : halts[s] <= 1 + forgets[s]

(* A lane with work for a storm that goes on is halted: there is no lasting *)
(* state in which the storm has a lane with ready cards and the daemon has  *)
(* never blocked one of them in this episode.                               *)
StormIsHalted ==
    \A s \in Storms :
        LaneOf[s] # NoLane =>
            ~<>[](s \in Storming /\ ReadyInLane(s) # {} /\ halts[s] = 0)

-----------------------------------------------------------------------------
(* What the documentation says and the code does not do. *)

(* "One storm cannot re-halt on every tick": while a storm goes on it is    *)
(* halted once.                                                             *)
OncePerEpisode == \A s \in Storms : halts[s] <= 1
=============================================================================
