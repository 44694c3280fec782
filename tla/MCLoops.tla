------------------------------ MODULE MCLoops ------------------------------
(* Instances for TLC of the two loops that share nothing with one another:  *)
(* the watcher (Watcher) and the review-gap tick (ReviewGap).  A behaviour  *)
(* belongs to one of them; the variables of the other stay as they are.     *)
EXTENDS MCWatcher, MCReviewGap

VARIABLE part

loopsVars == <<part, watcherVars, gapVars>>

LoopsInit ==
    /\ part \in {"watcher", "gap"}
    /\ WatcherInit /\ GapInit
    /\ part = "watcher" => setup = Own
    /\ part = "gap" => {c \in Cards : status[c] # "none"} = {trp} /\ mode = "live"

OfWatcher == part = "watcher" /\ UNCHANGED <<part, gapVars>>
OfGap == part = "gap" /\ UNCHANGED <<part, watcherVars>>

(* A loop that waits for a card beyond the bound stays there.               *)
Bounded == Full /\ OfGap /\ UNCHANGED gapVars

LoopsNext == (WatcherNext /\ OfWatcher) \/ (GapNext /\ OfGap) \/ Bounded

LoopsFairness ==
    /\ WF_loopsVars(PassStep /\ OfWatcher) /\ SF_loopsVars(GoLive /\ OfWatcher)
    /\ WF_loopsVars(Matures /\ OfWatcher) /\ WF_loopsVars(RepoAppears /\ OfWatcher)
    /\ WF_loopsVars(TickStep /\ OfGap)

LoopsSpec == LoopsInit /\ [][LoopsNext]_loopsVars /\ LoopsFairness

(* Watcher: a card that is blocked without an event does not stay so.       *)
TrapsGuarded == part = "watcher" => TrapGuarded
=============================================================================
