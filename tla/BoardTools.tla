----------------------------- MODULE BoardTools -----------------------------
(* Three tools that cron runs over one board, each with a state file of its *)
(* own: the digest of silent death blocks (stale_block_watch.py), the       *)
(* watcher of cards that wait for a human (needs_input_watcher.py) and the  *)
(* guard of open cards that declare the same file (same_file_guard.py).     *)
(* They share nothing but the board: the guard blocks cards and comments on *)
(* them, and the digests read what the newest event of a card is.  A run    *)
(* saves its file before its text is delivered and may die anywhere.        *)
EXTENDS Integers, FiniteSets, FiniteSetsExt

CONSTANTS
    Boards,     \* the settings explored
    MaxFaults   \* lost runs and failed native commands

(* tools: those that run; paths: what each card declares, the cards being   *)
(* numbered by their age; gate: the cards that only quote the gate command; *)
(* links: parent and child; mode: whether the guard blocks, only reports or *)
(* runs dry; events: a bound on the events that are not the guard's.        *)
Tools == {"death", "input", "guard"}
Modes == {"block", "report", "dry"}

ASSUME BoardAssumption ==
    /\ \A b \in Boards : b.tools \subseteq Tools /\ b.mode \in Modes
    /\ \A b \in Boards : b.events \in Nat /\ DOMAIN b.paths \subseteq Nat
    /\ MaxFaults \in Nat

VARIABLES
    setting,
    board,      \* the cards
    clock,      \* id of the newest event
    moves,      \* events that are not the guard's
    state,      \* the state file of each tool
    tick,       \* the run of each tool
    told,       \* what each tool has delivered or done
    again,      \* ... and what it did again
    lost,       \* keys of runs that died
    faults

toolVars == <<setting, board, clock, moves, state, tick, told, again, lost, faults>>

Cards == DOMAIN board
Asleep == [pc |-> "idle"]

(* block is the newest blocked or unblocked event, "none" the latter.       *)
NewCard == [status |-> "open", last |-> "created", at |-> 0,
            block |-> "none", since |-> 0, old |-> FALSE]

ToolsInit ==
    /\ setting \in Boards
    /\ board = [c \in DOMAIN setting.paths |-> NewCard]
    /\ clock = 0 /\ moves = 0 /\ faults = 0
    /\ state = [t \in Tools |-> {}] /\ tick = [t \in Tools |-> Asleep]
    /\ told = {} /\ again = {} /\ lost = {}

-----------------------------------------------------------------------------
(* The board.                                                               *)

Blocked(c, kind) ==
    [board EXCEPT ![c] = [@ EXCEPT !.status = "blocked", !.last = "blocked", !.at = clock + 1,
                                   !.block = kind, !.since = clock + 1, !.old = FALSE]]

Commented(c) == [board EXCEPT ![c] = [@ EXCEPT !.last = "commented", !.at = clock + 1]]

(* A worker asks for input or for a review, or blocks for another reason;   *)
(* the dispatcher gives a card up, which writes no blocked event; a person  *)
(* unblocks, comments or ends a card.                                       *)
BoardMoves ==
    \E c \in Cards :
        \/ board[c].status = "open" /\ \E kind \in {"needs_input", "review"} : board' = Blocked(c, kind)
        \/ board[c].status = "open"
           /\ board' = [board EXCEPT ![c] = [@ EXCEPT !.status = "blocked", !.last = "gave_up",
                                                      !.at = clock + 1]]
        \/ board[c].status = "blocked"
           /\ board' = [board EXCEPT ![c] = [@ EXCEPT !.status = "open", !.last = "unblocked",
                                                      !.at = clock + 1, !.block = "none"]]
        \/ board[c].status = "blocked" /\ board' = Commented(c)
        \/ board[c].status = "open" /\ board' = [board EXCEPT ![c].status = "ended"]

Event ==
    /\ moves < setting.events /\ moves' = moves + 1 /\ clock' = clock + 1
    /\ BoardMoves
    /\ UNCHANGED <<setting, state, tick, told, again, lost, faults>>

(* A block gets older than min_block_seconds.                               *)
Ages ==
    /\ \E c \in Cards : board[c].block # "none" /\ ~board[c].old
                        /\ board' = [board EXCEPT ![c].old = TRUE]
    /\ UNCHANGED <<setting, clock, moves, state, tick, told, again, lost, faults>>

-----------------------------------------------------------------------------
(* The two digests.                                                         *)

IsSilentDeathBlock(c) == board[c].status = "blocked" /\ board[c].last = "gave_up"

(* Review gates are the reviewer's and never reach the operator.            *)
NeedsInput(c) ==
    board[c].status = "blocked" /\ board[c].block = "needs_input" /\ board[c].old

(* board:task:event, the event being the newest one.                        *)
DeathKey(c) == <<c, board[c].at>>

(* board:task:event, the event being the one that opened the episode.       *)
InputKey(c) == <<c, board[c].since>>

Keys(t) ==
    IF t = "death" THEN {DeathKey(c) : c \in {c \in Cards : IsSilentDeathBlock(c)}}
    ELSE {InputKey(c) : c \in {c \in Cards : NeedsInput(c)}}

Fault == faults < MaxFaults /\ faults' = faults + 1

Discovered(t, found) ==
    /\ t \in setting.tools /\ tick[t].pc = "idle"
    /\ tick' = [tick EXCEPT ![t] = [pc |-> "save", found |-> found, fresh |-> found \ state[t]]]
    /\ UNCHANGED <<setting, board, clock, moves, state, told, again, lost>>

(* A card that cannot be shown waits for the next tick.                     *)
DiscoverSilentDeathBlocks ==
    \E found \in SUBSET Keys("death") :
        /\ IF found = Keys("death") THEN UNCHANGED faults ELSE Fault
        /\ Discovered("death", found)

(* One query per board; one that fails ends the run.                        *)
DiscoverNeedsInput == Discovered("input", Keys("input")) /\ UNCHANGED faults

(* Mutant: the file holds what was found last.                              *)
Found(known, found) == found

(* The keys are never pruned.                                               *)
Known(known, found) == known \cup found

SaveState(t) ==
    /\ tick[t].pc = "save"
    /\ state' = [state EXCEPT ![t] = Known(@, tick[t].found)]
    /\ tick' = [tick EXCEPT ![t].pc = "deliver"]
    /\ UNCHANGED <<setting, board, clock, moves, told, again, lost, faults>>

Tell(t, keys) ==
    /\ told' = told \cup {<<t, k>> : k \in keys}
    /\ again' = again \cup {<<t, k>> : k \in {k \in keys : <<t, k>> \in told}}

Delivered(t) ==
    /\ tick[t].pc = "deliver"
    /\ Tell(t, tick[t].fresh)
    /\ tick' = [tick EXCEPT ![t] = Asleep]
    /\ UNCHANGED <<setting, board, clock, moves, state, lost, faults>>

DigestDeaths == Delivered("death")

(* A model is asked to summarize every fresh episode; where it gives no     *)
(* valid answer in time the episode is told by a fixed line.                *)
SummarizeInputs == Delivered("input")

-----------------------------------------------------------------------------
(* The same-file guard.                                                     *)

(* Open implementation cards; age and reviewers are left out.               *)
Open == {c \in Cards : board[c].status = "open"}

Declared(c) == setting.paths[c]

(* What the traversal of the links reaches from card a: it knows the links  *)
(* of the two cards and of the candidates it comes by.                      *)
Reached(a, b, shown) ==
    LET Read(S) == {a, b} \cup (S \cap shown)
        Neighbours(S) == {y \in Cards : \E x \in S :
                              {x, y} \in setting.links /\ {x, y} \cap Read(S) # {}}
        reach[n \in Nat] == IF n = 0 THEN {a} ELSE reach[n - 1] \cup Neighbours(reach[n - 1])
    IN  reach[Cardinality(Cards)]

DependencyLinked(a, b, shown) == b \in Reached(a, b, shown)

(* Pairs holder and follower, the older card being the holder.              *)
Overlaps(shown) ==
    {p \in shown \X shown :
        /\ p[1] < p[2] /\ Declared(p[1]) \cap Declared(p[2]) # {}
        /\ ~DependencyLinked(p[1], p[2], shown)}

(* A card that declares nothing, not even the gate, is nagged about.        *)
Nags(shown) == {<<c, 0>> : c \in {c \in shown : Declared(c) = {} /\ c \notin setting.gate}}

(* The listing and the bodies; a card that cannot be shown is left out.     *)
GuardScan ==
    /\ "guard" \in setting.tools /\ tick["guard"].pc = "idle"
    /\ \E shown \in SUBSET Open :
         /\ IF shown = Open THEN UNCHANGED faults ELSE Fault
         /\ tick' = [tick EXCEPT !["guard"] =
                [pc |-> "pairs", mem |-> state["guard"], at |-> <<0, 0>>,
                 todo |-> Overlaps(shown) \ state["guard"],
                 lines |-> Nags(shown) \ state["guard"]]]
    /\ UNCHANGED <<setting, board, clock, moves, state, told, again, lost>>

(* Holder by holder, and each follower of a holder by age.                  *)
NextPair ==
    CHOOSE p \in tick["guard"].todo : \A q \in tick["guard"].todo :
        p[1] < q[1] \/ (p[1] = q[1] /\ p[2] <= q[2])

PairDone(p) == [tick EXCEPT !["guard"].todo = @ \ {p}, !["guard"].pc = "pairs"]

(* Without auto_block, or dry, an overlap is a line of the digest.          *)
ReportPair ==
    /\ tick["guard"].pc = "pairs" /\ tick["guard"].todo # {} /\ setting.mode # "block"
    /\ tick' = [PairDone(NextPair) EXCEPT !["guard"].lines = @ \cup {NextPair}]
    /\ UNCHANGED <<setting, board, clock, moves, state, told, again, lost, faults>>

(* The block of a follower that is no longer open is refused.               *)
BlockPair ==
    /\ tick["guard"].pc = "pairs" /\ tick["guard"].todo # {} /\ setting.mode = "block"
    /\ IF board[NextPair[2]].status = "open"
       THEN /\ board' = Blocked(NextPair[2], "untyped") /\ clock' = clock + 1
            /\ Tell("guard", {NextPair})
            /\ tick' = [tick EXCEPT !["guard"].pc = "follower", !["guard"].at = NextPair]
       ELSE /\ tick' = PairDone(NextPair) /\ UNCHANGED <<board, clock, told, again>>
    /\ UNCHANGED <<setting, moves, state, lost, faults>>

(* Mutant: a block that failed is on record.                                *)
BlockFailsRecorded ==
    /\ tick["guard"].pc = "pairs" /\ tick["guard"].todo # {} /\ setting.mode = "block"
    /\ Fault /\ tick' = [PairDone(NextPair) EXCEPT !["guard"].mem = @ \cup {NextPair}]
    /\ UNCHANGED <<setting, board, clock, moves, state, told, again, lost>>

(* A block that fails leaves the pair to the next tick.                     *)
BlockFails ==
    /\ tick["guard"].pc = "pairs" /\ tick["guard"].todo # {} /\ setting.mode = "block"
    /\ Fault /\ tick' = PairDone(NextPair)
    /\ UNCHANGED <<setting, board, clock, moves, state, told, again, lost>>

(* The comments on both cards, whose failures are only lines.               *)
CommentPair ==
    LET p == tick["guard"].at
        side == tick["guard"].pc
    IN  /\ side \in {"follower", "holder"}
        /\ \/ /\ board' = Commented(IF side = "follower" THEN p[2] ELSE p[1])
              /\ clock' = clock + 1 /\ UNCHANGED faults
           \/ Fault /\ UNCHANGED <<board, clock>>
        /\ tick' = IF side = "follower" THEN [tick EXCEPT !["guard"].pc = "holder"]
                   ELSE [PairDone(p) EXCEPT !["guard"].mem = @ \cup {p}]
        /\ UNCHANGED <<setting, moves, state, told, again, lost>>

(* One save at the end of the tick; a dry run saves nothing.                *)
GuardSave ==
    /\ tick["guard"].pc = "pairs" /\ tick["guard"].todo = {}
    /\ state' = [state EXCEPT !["guard"] =
                    IF setting.mode = "dry" THEN @
                    ELSE Known(tick["guard"].mem, tick["guard"].lines)]
    /\ tick' = [tick EXCEPT !["guard"].pc = "print"]
    /\ UNCHANGED <<setting, board, clock, moves, told, again, lost, faults>>

(* The lines of nags and reports; those of a dry run come every tick.       *)
GuardPrint ==
    /\ tick["guard"].pc = "print"
    /\ IF setting.mode = "dry" THEN told' = told \cup {<<"guard", k>> : k \in tick["guard"].lines}
                                    /\ UNCHANGED again
       ELSE Tell("guard", tick["guard"].lines)
    /\ tick' = [tick EXCEPT !["guard"] = Asleep]
    /\ UNCHANGED <<setting, board, clock, moves, state, lost, faults>>

-----------------------------------------------------------------------------
(* What a run that dies has done or saved and not told.                     *)
Unsaved(t) ==
    IF t = "guard"
    THEN tick[t].lines \cup (IF tick[t].pc \in {"follower", "holder"} THEN {tick[t].at} ELSE {})
         \cup IF tick[t].pc = "print" THEN {} ELSE tick[t].mem \ state[t]
    ELSE IF tick[t].pc = "deliver" THEN tick[t].fresh ELSE {}

(* The process dies, a native command hangs or the prompt of the summaries  *)
(* cannot be read.                                                          *)
RunDies(t) ==
    /\ tick[t].pc # "idle" /\ Fault
    /\ lost' = lost \cup {<<t, k>> : k \in Unsaved(t)}
    /\ tick' = [tick EXCEPT ![t] = Asleep]
    /\ UNCHANGED <<setting, board, clock, moves, state, told, again>>

DeathStep == DiscoverSilentDeathBlocks \/ SaveState("death") \/ DigestDeaths
InputStep == DiscoverNeedsInput \/ SaveState("input") \/ SummarizeInputs
GuardStep ==
    GuardScan \/ ReportPair \/ BlockPair \/ BlockFails \/ CommentPair \/ GuardSave \/ GuardPrint

ToolsNext ==
    \/ Event \/ Ages
    \/ DeathStep \/ InputStep \/ GuardStep
    \/ \E t \in Tools : RunDies(t)

(* Cron starts every tool again and again, and time goes by.                *)
ToolsFairness ==
    /\ WF_toolVars(DeathStep) /\ WF_toolVars(InputStep)
    /\ WF_toolVars(GuardStep) /\ WF_toolVars(Ages)

ToolsSpec == ToolsInit /\ [][ToolsNext]_toolVars /\ ToolsFairness

-----------------------------------------------------------------------------
(* Nothing is told twice: neither digest repeats an episode, through cards  *)
(* that cannot be shown in between, comments and lost runs, and the guard   *)
(* blocks, reports or nags again only what a lost run had not saved.        *)
ToldOnce == \A x \in again : x[1] = "guard" /\ x \in lost

(* What lasts is told: once the board has come to rest, every death block,  *)
(* every wait for input and every overlap of two open cards on it has been  *)
(* told by some tick or was in the hands of one that died.                  *)
EpisodesTold ==
    <>[](/\ \A t \in {"death", "input"} \cap setting.tools :
               \A k \in Keys(t) : <<t, k>> \in told \cup lost
         /\ "guard" \in setting.tools =>
               \A p \in Overlaps(Open) : <<"guard", p>> \in told \cup lost)
=============================================================================
