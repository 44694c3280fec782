----------------------------- MODULE ReviewGap -----------------------------
(***************************************************************************)
(* The review-gap loop, followed along one task of one board: the tick     *)
(* that closes review gaps of finished work (triggers a and b), completes  *)
(* a parent that waits for its review (c) and cards merges that were       *)
(* reverted (d).  Workers, reviewers and operators move the task, its      *)
(* cards and the canonical branch between any two steps of a tick.         *)
(*                                                                         *)
(* Everything else of a tick (other tasks, other boards, malformed native  *)
(* output) appears as the error that ends it before the one save (Dies).   *)
(***************************************************************************)
EXTENDS Naturals, SequencesExt, FiniteSetsExt

CONSTANTS
    MinAge,     \* min_age_seconds, in ticks of the clock (Time)
    Window,     \* stalled_alert_hours
    Recency,    \* recency_hours
    Setups,     \* [auto: auto_create, repo: a repo root resolves, away: task of
                \* another board, bare: some other task has no repo root,
                \* others: kinds of cards that people make about the task]
    MaxCommits, MaxCards, \* about the task, and
    MaxLosses   \* native calls that fail or hang and ticks that die, in a setup

ASSUME ReviewGapAssumption ==
    /\ MinAge \in Nat /\ Window \in Nat /\ Recency \in Nat
    /\ Setups \subseteq [auto : BOOLEAN, repo : BOOLEAN, away : BOOLEAN, bare : BOOLEAN,
                        others : SUBSET {"own", "titled"}]
    /\ \A s \in Setups : MaxCommits[s] \in Nat /\ MaxCards[s] \in Nat /\ MaxLosses[s] \in Nat

VARIABLES
    (* the board and the repository *)
    setup,      \* one of Setups
    taskStatus, \* "running", "blocked", "done", "archived"
    reason,     \* of its newest blocked event: "none", "required", "other"
    blockAge, doneAge, \* since then, and since the completion
    branch,     \* the work is on wt/<task>
    history,    \* canonical branch, about the task: "merge", "revert", "silent"
    cards,      \* about the task: [kind, status, said]
    orphan,     \* a native command that runs on after its tick died
    (* the tick *)
    saved,      \* the entry of the task in the dedupe state file
    spoiled,    \* the file holds an entry that _load_state refuses
    state,      \* the copy a tick works on
    phase,
    listed,     \* status and age when the board was listed
    cache,      \* the cards when the list of trigger d was fetched
    todo,       \* reverts trigger d still has to look at, newest first
    decision,   \* what the read phase planned
    losses

board == <<setup, taskStatus, reason, blockAge, doneAge, branch, history, cards>>
tick == <<saved, spoiled, state, phase, listed, cache, todo, decision, losses, orphan>>
gapVars == <<board, tick>>

Entry(action, ref) == [action |-> action, ref |-> ref, age |-> 0]
NoEntry == [action |-> "none", ref |-> 0, age |-> 0]
NoCache == [cards |-> <<>>, owned |-> FALSE]
Unlisted == [status |-> "none", age |-> 0]

(* "review" and "reapply" as this loop makes them, "late" a review whose     *)
(* create outlived its tick; "own" a review child that a person or a worker  *)
(* made, "titled" one with the title of a review and another assignee.       *)
Card(kind) == [kind |-> kind, status |-> "open", said |-> "nothing"]

GapInit ==
    /\ setup \in Setups
    /\ taskStatus = "running" /\ reason = "none" /\ blockAge = 0 /\ doneAge = 0
    /\ branch = FALSE /\ history = <<>> /\ cards = <<>>
    /\ saved = NoEntry /\ state = NoEntry /\ phase = "idle" /\ listed = Unlisted
    /\ cache = NoCache /\ todo = <<>> /\ decision = "none" /\ losses = 0
    /\ orphan = "none" /\ spoiled = FALSE

-----------------------------------------------------------------------------
(* Workers, reviewers and operators (outside the repository).  Blocks and   *)
(* ages of a task of another board are left out: only triggers a to c of    *)
(* that board look at them.                                                 *)

Merged == history # <<>>
OnMain == history # <<>> /\ history[Len(history)] # "revert"

Work ==
    /\ \/ taskStatus = "running" /\ branch' = TRUE /\ UNCHANGED <<taskStatus, reason, blockAge, doneAge>>
       \/ /\ taskStatus = "running" /\ ~setup.away /\ taskStatus' = "blocked" /\ blockAge' = 0
          /\ reason' \in {"required", "other"} /\ UNCHANGED <<branch, doneAge>>
       \/ taskStatus = "blocked" /\ taskStatus' = "running" /\ UNCHANGED <<branch, reason, blockAge, doneAge>>
       \/ taskStatus = "running" /\ taskStatus' = "done" /\ doneAge' = 0 /\ UNCHANGED <<branch, reason, blockAge>>
       \/ taskStatus = "done" /\ taskStatus' = "archived" /\ UNCHANGED <<branch, reason, blockAge, doneAge>>
    /\ UNCHANGED <<setup, history, cards>>

AddReview ==
    /\ Len(cards) < MaxCards[setup] /\ taskStatus # "archived"
    /\ \E kind \in setup.others : cards' = Append(cards, Card(kind))
    /\ UNCHANGED <<setup, taskStatus, reason, blockAge, doneAge, branch, history>>

Commit(what) ==
    /\ Len(history) < MaxCommits[setup]
    /\ history' = Append(history, what)

(* A reviewer ends a card: with a merge, without one, or by rejecting the   *)
(* work; a re-apply card also with the statement that there is nothing to   *)
(* merge, which its contract allows only when the content is there.  An     *)
(* operator ends or archives a card whatever its parent does.               *)
EndCard ==
    \E k \in DOMAIN cards, said \in {"nothing", "gone", "rejected", "verified"} :
        /\ cards[k].status = "open"
        /\ said = "verified" => cards[k].kind = "reapply" /\ OnMain
        /\ said = "rejected" => cards[k].kind # "reapply" /\ ~Merged
        /\ \/ UNCHANGED history
           \/ branch /\ ~OnMain /\ said = "nothing" /\ Commit("merge")
        /\ cards' = [cards EXCEPT ![k].status = IF said = "gone" THEN "archived" ELSE "done",
                                  ![k].said = said]
        /\ UNCHANGED <<setup, taskStatus, reason, blockAge, doneAge, branch>>

(* An operator reverts, or brings reverted content back without the marker. *)
Operate ==
    /\ \/ OnMain /\ Commit("revert")
       \/ Merged /\ ~OnMain /\ Commit("silent")
    /\ UNCHANGED <<setup, taskStatus, reason, blockAge, doneAge, branch, cards>>

World == (Work \/ AddReview \/ EndCard \/ Operate) /\ UNCHANGED tick

Older(age, limit) == Min({age + 1, limit})

(* Time passes between ticks: a tick reads the clock once. *)
Time ==
    /\ phase = "idle" /\ ~setup.away
    /\ blockAge' = IF taskStatus = "blocked" THEN Older(blockAge, MinAge) ELSE blockAge
    /\ doneAge' = IF taskStatus = "done" THEN Older(doneAge, Recency + 1) ELSE doneAge
    /\ saved' = IF saved.action = "review-ok" THEN [saved EXCEPT !.age = Older(@, Window)] ELSE saved
    /\ UNCHANGED <<setup, taskStatus, reason, branch, history, cards>>
    /\ UNCHANGED <<spoiled, state, phase, listed, cache, todo, decision, losses, orphan>>

-----------------------------------------------------------------------------
(* Triggers a and b: finished work without a review, or with a stalled one. *)

Old(age) == MinAge <= age /\ age <= Recency

(* Only a confirmation expires. *)
Expired(entry) == entry.action = "review-ok" /\ entry.age >= Window

DoneCandidate(list, entry) ==
    /\ list.status = "done" /\ ~setup.away
    /\ Old(list.age)
    /\ (entry.action = "none" \/ Expired(entry))

BlockedCandidate(list, entry) ==
    list.status = "blocked" /\ ~setup.away /\ entry.action = "none"

(* A pass without a candidate reads nothing. *)
AfterDone(list, entry) == IF BlockedCandidate(list, entry) THEN "blocked" ELSE "log"
AfterList(list, entry) == IF DoneCandidate(list, entry) THEN "done" ELSE AfterDone(list, entry)

(* A review child is one that a reviewer got or worked on, whatever its title. *)
Reviews == {k \in DOMAIN cards : cards[k].kind # "titled"}
PendingReviews == {k \in Reviews : cards[k].status = "open"}
Rejected == \E k \in Reviews : cards[k].said = "rejected"
Stale == listed.age >= Window

(* A workspace path or the default of the board, with a main branch. *)
RepoRoot == setup.repo

(* A branch that was never made or is gone has nothing left to merge. *)
BranchIsMerged == branch => Merged

(* The commit a reviewer left unmerged: no branch, no commit to look for.   *)
ImplUnmerged == RepoRoot /\ branch /\ ~Merged

(* The list of the board is searched by title, whoever the card belongs to. *)
OpenRevalidation ==
    \E k \in DOMAIN cards :
        cards[k].kind \in {"review", "late", "titled"} /\ cards[k].status = "open"

(* Mutants: a pending review does not count; a gap is only alerted.         *)
DonePlanPending ==
    IF Reviews = {} \/ Stale THEN "create" ELSE "review-ok"

DonePlanOnce == IF Reviews # {} THEN "review-ok" ELSE "gap-alert"

(* The decision for a candidate, from what is read now. *)
DonePlan ==
    IF Reviews # {}
    THEN CASE PendingReviews # {} ->
                  IF RepoRoot /\ Stale /\ ~BranchIsMerged THEN "stall-alert" ELSE "review-ok"
           [] PendingReviews = {} /\ ~Rejected /\ ImplUnmerged /\ Stale ->
                  IF ~setup.auto THEN "stall-alert"
                  ELSE IF OpenRevalidation THEN "review-ok" ELSE "create"
           [] OTHER -> "review-ok"
    ELSE IF ~setup.auto THEN "gap-alert"
    ELSE IF RepoRoot THEN "create" ELSE "error:no-repo-root"

(* The lists of done and of blocked tasks, read once for the tick. *)
BoardLists == [status |-> taskStatus, age |-> doneAge]

(* A tick whose state file is refused ends before it looks at any board. *)
Loads == ~spoiled

Start ==
    /\ phase = "idle"
    /\ IF Loads
       THEN state' = saved /\ listed' = BoardLists /\ phase' = AfterList(listed', state')
       ELSE UNCHANGED <<state, listed, phase>>
    /\ UNCHANGED <<saved, spoiled, cache, todo, decision, losses, orphan>>

PlanDone ==
    /\ phase = "done" /\ phase' = "actDone" /\ decision' = DonePlan
    /\ UNCHANGED <<saved, spoiled, state, listed, cache, todo, losses, orphan>>

NewCard(kind) == Len(cards) < MaxCards[setup] /\ cards' = Append(cards, Card(kind))

OtherBoard == UNCHANGED <<setup, taskStatus, reason, blockAge, doneAge, branch, history>>

(* A created card is recorded under its id. *)
ActDone ==
    /\ phase = "actDone" /\ decision' = "none" /\ phase' = AfterDone(listed, state')
    /\ IF decision = "create"
       THEN NewCard("review") /\ OtherBoard /\ state' = Entry("created", Len(cards'))
       ELSE UNCHANGED board /\ state' = Entry(decision, 0)
    /\ UNCHANGED <<saved, spoiled, listed, cache, todo, losses, orphan>>

-----------------------------------------------------------------------------
(* Trigger c: a parent blocked for its review, with shipped unmerged work.  *)

(* The newest block asks for a review; any other is a question or a fault. *)
BlockedEpisode == reason = "required"

(* Only a branch that exists and is not merged is work to complete. *)
ShippedEvidence == RepoRoot /\ branch /\ ~Merged

(* Mutant: only a review child that is still open counts. *)
HandoffPending ==
    BlockedEpisode /\ blockAge >= MinAge /\ ShippedEvidence /\ PendingReviews # {}

(* Any review child is accepted as the gate, open or not. *)
Handoff == BlockedEpisode /\ blockAge >= MinAge /\ ShippedEvidence /\ Reviews # {}

PlanBlocked ==
    /\ phase = "blocked"
    /\ IF Handoff THEN decision' = "complete" /\ phase' = "actBlocked" ELSE decision' = "none" /\ phase' = "log"
    /\ UNCHANGED <<saved, spoiled, state, listed, cache, todo, losses, orphan>>

(* The native complete promotes the review child and refuses a finished     *)
(* parent; it does not ask whether the parent is still blocked.             *)
CompleteParent ==
    /\ taskStatus \notin {"done", "archived"} /\ taskStatus' = "done" /\ doneAge' = 0
    /\ UNCHANGED <<setup, reason, blockAge, branch, history, cards>>

ActBlocked ==
    /\ phase = "actBlocked" /\ CompleteParent
    /\ phase' = "log" /\ decision' = "none" /\ state' = Entry("completed", 0)
    /\ UNCHANGED <<saved, spoiled, listed, cache, todo, losses, orphan>>

-----------------------------------------------------------------------------
(* Trigger d: merges that were reverted and not merged again.               *)

Reverts == {i \in DOMAIN history : history[i] = "revert"}
NewestFirst == Reverse(SetToSortSeq(Reverts, <))

(* The history is read, and the full list of the owning board, which the    *)
(* whole pass uses.                                                         *)
TaskList == [cards |-> cards, owned |-> taskStatus # "archived"]

Log ==
    /\ phase = "log" /\ phase' = "reverts"
    /\ todo' = (IF RepoRoot THEN NewestFirst ELSE <<>>)
    /\ cache' = TaskList
    /\ UNCHANGED <<saved, spoiled, state, listed, decision, losses, orphan>>

Remerged(r) == \E j \in DOMAIN history : j > r /\ history[j] = "merge"

Queued ==
    \E k \in DOMAIN cache.cards :
        cache.cards[k].kind = "reapply" /\ cache.cards[k].status = "open"

(* A card the list does not show counts as archived. *)
CardOpen(k) == k \in DOMAIN cache.cards /\ cache.cards[k].status = "open"

SaysHealed(k) ==
    /\ k \in DOMAIN cache.cards
    /\ cache.cards[k].status = "done" /\ cache.cards[k].said = "verified"

(* Mutant: a carded revert is never looked at again. *)
MayCardOnce(r) ==
    \/ state.action = "none"
    \/ state.action = "healed" /\ state.ref # r

(* What the entry of the task allows. *)
MayCard(r) ==
    \/ state.action = "none"
    \/ state.action = "drift" /\ ~CardOpen(state.ref)
    \/ state.action = "healed" /\ state.ref # r

Keep == UNCHANGED <<state, board>>

(* The task is on no board: said once. *)
Unroutable ==
    /\ state' = IF state.action = "none" THEN Entry("unroutable", 0) ELSE state
    /\ UNCHANGED board

Heal(r) == state' = Entry("healed", r) /\ UNCHANGED board

ReapplyCard == NewCard("reapply") /\ OtherBoard

Reapply == ReapplyCard /\ state' = Entry("drift", Len(cards'))

Silent(r) == Remerged(r) \/ (cache.owned /\ (Queued \/ ~MayCard(r)))
HealedBy(r) == state.action = "drift" /\ SaysHealed(state.ref)
Recards(r) == ~Silent(r) /\ cache.owned /\ ~HealedBy(r)

ActRevert ==
    /\ phase = "reverts" /\ todo # <<>> /\ todo' = Tail(todo)
    /\ LET r == Head(todo) IN
       \/ Silent(r) /\ Keep
       \/ ~Silent(r) /\ ~cache.owned /\ Unroutable
       \/ ~Silent(r) /\ cache.owned /\ HealedBy(r) /\ Heal(r)
       \/ Recards(r) /\ Reapply
    /\ UNCHANGED <<saved, spoiled, phase, listed, cache, decision, losses, orphan>>

Rest == /\ state' = NoEntry /\ listed' = Unlisted /\ decision' = "none"
        /\ cache' = NoCache /\ todo' = <<>>

(* "error" before the colon is not one of _STATE_ACTIONS. *)
Unloadable(entry) == entry.action = "error:no-repo-root"

(* The entries of all tasks are saved together. *)
SaveState ==
    /\ phase = "reverts" /\ todo = <<>> /\ phase' = "idle"
    /\ saved' = state /\ Rest
    /\ \E other \in {FALSE, setup.bare} : spoiled' = (Unloadable(state) \/ other)
    /\ UNCHANGED <<board, losses, orphan>>

-----------------------------------------------------------------------------
(* Failures. *)

Fault == losses < MaxLosses[setup] /\ losses' = losses + 1

PhaseAfter ==
    CASE phase \in {"done", "actDone"} -> AfterDone(listed, state)
      [] phase \in {"blocked", "actBlocked"} -> "log"
      [] OTHER -> "reverts"

(* The command that a step would carry out next, and what it does.          *)
Command ==
    CASE phase = "actDone" /\ decision = "create" -> "create"
      [] phase = "actBlocked" -> "complete"
      [] phase = "reverts" /\ todo # <<>> /\ Recards(Head(todo)) -> "reapply"
      [] OTHER -> "none"

Outcome(command, kind) ==
    \/ command = "create" /\ NewCard(kind) /\ OtherBoard
    \/ command = "reapply" /\ ReapplyCard
    \/ command = "complete" /\ CompleteParent

(* A native call that hangs, or a budget that is used up, ends the phase; a *)
(* command that is stopped then may have done its work all the same.        *)
Hangs ==
    /\ phase # "idle" /\ Fault /\ phase' = PhaseAfter /\ decision' = "none" /\ todo' = <<>>
    /\ UNCHANGED board \/ Outcome(Command, "review")
    /\ UNCHANGED <<saved, spoiled, state, listed, cache, orphan>>

(* A create or a complete is refused, another board fails, or the process   *)
(* ends, with its command or without: nothing of the tick is saved.         *)
Dies ==
    /\ phase # "idle" /\ phase' = "idle" /\ Rest
    /\ IF phase = "actBlocked" /\ taskStatus \in {"done", "archived"}
       THEN UNCHANGED <<losses, orphan>>
       ELSE Fault /\ (orphan' = Command \/ UNCHANGED orphan)
    /\ UNCHANGED <<board, saved, spoiled>>

(* The command that was left behind ends, with its effect or refused. *)
Lands ==
    /\ orphan # "none" /\ orphan' = "none"
    /\ Outcome(orphan, "late") \/ UNCHANGED board
    /\ UNCHANGED <<saved, spoiled, state, phase, listed, cache, todo, decision, losses>>

Act == ActDone \/ ActBlocked \/ ActRevert

TickStep == \/ (Start \/ PlanDone \/ PlanBlocked \/ Log) /\ UNCHANGED board
            \/ Act \/ SaveState
            \/ phase = "actBlocked" /\ taskStatus \in {"done", "archived"} /\ Dies

GapNext == World \/ Time \/ TickStep \/ Hangs \/ Dies \/ Lands

GapSpec == GapInit /\ [][GapNext]_gapVars

(* Cron starts every tick, and a tick comes to its end. *)
GapFairSpec == GapSpec /\ WF_gapVars(TickStep)

-----------------------------------------------------------------------------
(* Whatever is lost or hangs, the loop has at most one open card that asks  *)
(* for a review of the task, besides one whose create outlived its tick.    *)
OneReview ==
    Cardinality({k \in DOMAIN cards : cards[k].kind = "review" /\ cards[k].status = "open"}) <= 1

(* The bound on what is about the task is reached. *)
Full == Len(cards) = MaxCards[setup]

(* Finished work of the repository does not stay without a review while it  *)
(* is young enough to be looked at, whatever is on record about it, unless  *)
(* that is a revert of the same task or the state file is spoiled.          *)
Unreviewed ==
    /\ taskStatus = "done" /\ setup.repo /\ setup.auto /\ ~setup.away
    /\ Old(doneAge) /\ Reviews = {}

GapClosed ==
    []<>(Unreviewed => saved.action \in {"drift", "healed", "unroutable"} \/ Full \/ spoiled)

(* A parent that waits for the review of work it shipped is completed, or   *)
(* leaves that state, unless an entry about the task is on record.          *)
AwaitsReview ==
    /\ taskStatus = "blocked" /\ reason = "required" /\ blockAge >= MinAge
    /\ setup.repo /\ branch /\ ~Merged /\ Reviews # {}

HandoffCompleted == []<>(AwaitsReview => saved # NoEntry \/ spoiled)

(* The newest commit about the task took its content away. *)
Drifted == history # <<>> /\ ~OnMain

Answered ==
    (\E k \in DOMAIN cards : cards[k].kind = "reapply" /\ cards[k].status = "open") \/ Full

(* The first revert of a task that has no entry yet is carded, and carded   *)
(* again when its card ends without bringing the content back, unless the   *)
(* state file is spoiled.                                                   *)
DriftCarded ==
    []<>(Cardinality(Reverts) = 1 /\ Drifted /\ setup.repo /\ taskStatus # "archived"
             /\ saved.action \in {"none", "drift"} => Answered \/ spoiled)

-----------------------------------------------------------------------------
(* What the documentation says and the code does not do. *)

(* "Unhealed work never goes quiet": a reverted merge is carded, whatever   *)
(* was done about the task before.                                          *)
DriftNeverQuiet ==
    []<>(Drifted /\ setup.repo /\ taskStatus # "archived" => Answered)

(* "Every tick it finds done worktree tasks": cron's ticks go on looking at *)
(* the boards, whatever entry an earlier tick saved.                        *)
EveryTickLooks == []<>(phase # "idle")
=============================================================================
