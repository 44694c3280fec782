--------------------------- MODULE Watcher_proofs ---------------------------
(***************************************************************************)
(* Proofs about Watcher: any cards, casts and bounds, any mode, and passes  *)
(* that are lost or whose commands fail before or after their effect.      *)
(***************************************************************************)
EXTENDS Watcher, FiniteSetTheorems, SequenceTheorems, TLAPS

ReviewBlocks == Blocks(Review)

(* The log is a sequence, whatever is in it.                                *)
IsLog(s) ==
    /\ Len(s) \in Nat /\ DOMAIN s = 1 .. Len(s)
    /\ s = [i \in 1 .. Len(s) |-> s[i]]

Board ==
    /\ DOMAIN status = Cards /\ DOMAIN answers = Fixes
    /\ IsLog(log)

(* Only the trap is created without an event of its own, and only a review  *)
(* is blocked on a defect.                                                  *)
Events ==
    \A i \in DOMAIN log :
        /\ log[i].kind = "created" => log[i].task = Trap
        /\ log[i].kind = "blocked" /\ log[i].cause = "defect" => log[i].task = Review

(* The review was blocked with an event before anything else happened to    *)
(* it, and is not blocked on more episodes than there are fix cards.        *)
Told == status[Review] # "none" => ReviewBlocks # {}

Enough == Cardinality(ReviewBlocks) <= Cardinality(Fixes)

(* A fix card that exists answers an episode of the review, and no other    *)
(* answers the same one.                                                    *)
Answering ==
    /\ \A f \in Fixes :
         /\ answers[f] \in ReviewBlocks \cup {0}
         /\ status[f] = "none" <=> answers[f] = 0
    /\ \A f, g \in Fixes : answers[f] = answers[g] /\ answers[f] # 0 => f = g

OneOpen == \A f, g \in Fixes : Open(f) /\ Open(g) => f = g

NoneOpen == \A f \in Fixes : ~Open(f)

-----------------------------------------------------------------------------
StateFields == {"keys", "live", "dry"}

Kinds == {"fix", "supersede", "promote", "pick", "guard", "unguard", "reguard", "deadlock"}

Files ==
    /\ DOMAIN file = StateFields /\ file.live \in Nat /\ file.dry \in Nat
    /\ DOMAIN mem = StateFields /\ mem.live \in Nat /\ mem.dry \in Nat

(* What is left of a scan is of the board it scans.                         *)
Work ==
    /\ mode \in {"dry", "replay", "live"}
    /\ upto \in Nat /\ upto <= Len(log) /\ seen \in Nat
    /\ pc \in {"events", "pick"} => seen > 0
    /\ work # {} => pc \in {"traps", "defects", "deadlocks", "supersedes", "promotions"}
    /\ pc = "traps" => Review \notin work
    /\ pc = "defects" => work \subseteq ReviewBlocks
    /\ pc = "promotions" => work \subseteq {Gated}

(* A create is planned while no fix card is open, for an episode of the     *)
(* review; the guard is never for the review; and only a live pass plans.   *)
Good(key) ==
    /\ key[1] \in Kinds
    /\ key[1] = "fix" => key[3] \in ReviewBlocks /\ NoneOpen
    /\ key[1] \in {"guard", "unguard", "reguard"} => key[2] # Review
    /\ key[1] \in {"supersede", "promote", "deadlock"} => key[2] \notin Fixes
    /\ key[1] = "deadlock" => key[2] # Review

Planned == plan # <<>> => mode = "live" /\ Good(plan)

LiveKeys(state) == {k \in state.keys : ~k[1]}

(* What a dry run or a replay has in memory differs from the file in its    *)
(* own keys and its own cursor only.                                        *)
Apart ==
    Would /\ pc # "idle" => mem.live = file.live /\ LiveKeys(mem) = LiveKeys(file)

(* What the history says of the gate: it moved for completions, in live     *)
(* passes only.                                                             *)
History ==
    /\ lost \in Nat
    /\ mode # "live" => DOMAIN picks = {}
    /\ \A i \in DOMAIN picks : /\ i \in DOMAIN log /\ log[i].kind = "completed"
                               /\ picks[i] \in Nat /\ picks[i] <= 1 + lost

InLog(state) == state.live <= Len(log) /\ state.dry <= Len(log)

Bounds == InLog(file) /\ InLog(mem)

Picking == plan # <<>> /\ plan[1] = "pick"

(* Where a pass is in the log, and which completion a pick is for.          *)
Cursors ==
    /\ pc = "events" => seen <= upto + 1
    /\ pc = "pick" => seen <= upto /\ log[seen].kind = "completed"
    /\ Picking => /\ pc = "events"
                  /\ seen - 1 \in DOMAIN log /\ log[seen - 1].kind = "completed"
    /\ mode = "live" /\ pc \in {"events", "pick", "traps", "defects", "deadlocks"} =>
         mem.live = file.live

(* The events this pass, or else the next one, still has to handle.         *)
Ahead(i) ==
    \/ pc \in {"events", "pick"} /\ (i >= seen \/ (Picking /\ i = seen - 1))
    \/ pc \in {"traps", "defects", "deadlocks"} /\ i > upto
    \/ pc \in {"supersedes", "promotions", "save"} /\ i > mem.live
    \/ pc = "idle" /\ i > file.live

(* The gate moved for one of them in lost passes only, once in each.        *)
Fresh == mode = "live" => \A i \in DOMAIN picks : Ahead(i) => picks[i] <= lost

GateInv == History /\ Bounds /\ Cursors /\ Fresh

FixInv == Board /\ Events /\ Told /\ Enough /\ Answering /\ OneOpen /\ Files /\ Work /\ Planned

IInv == FixInv /\ Apart /\ GateInv

-----------------------------------------------------------------------------
(* The log only grows, and with it the episodes of the review.              *)

Grown ==
    /\ IsLog(log)' /\ Len(log) <= Len(log')
    /\ \A i \in DOMAIN log : i \in DOMAIN log' /\ log'[i] = log[i]
    /\ ReviewBlocks \subseteq ReviewBlocks'

LEMMA AppendFacts ==
    ASSUME NEW s, IsLog(s), NEW e
    PROVE  LET t == Append(s, e) IN
           /\ IsLog(t) /\ Len(t) = Len(s) + 1
           /\ \A i \in 1 .. Len(s) : t[i] = s[i]
           /\ t[Len(s) + 1] = e
<1> DEFINE S == {s[i] : i \in 1 .. Len(s)} \cup {e}
           t == Append(s, e)
<1>1. s \in Seq(S)
  BY DEF IsLog
<1>2. e \in S
  OBVIOUS
<1> HIDE DEF S
<1>3. t \in Seq(S) /\ Len(t) = Len(s) + 1
  BY <1>1, <1>2
<1>4. \A i \in 1 .. Len(s) : t[i] = s[i]
  BY <1>1, <1>2
<1>5. t[Len(s) + 1] = e
  BY <1>1, <1>2
<1>6. IsLog(t)
  <2>1. Len(t) \in Nat /\ t \in [1 .. Len(t) -> S]
    BY <1>3, LenProperties
  <2> QED BY <2>1 DEF IsLog
<1> HIDE DEF t
<1>7. IsLog(t) /\ Len(t) = Len(s) + 1 /\ (\A i \in 1 .. Len(s) : t[i] = s[i]) /\ t[Len(s) + 1] = e
  BY <1>3, <1>4, <1>5, <1>6
<1> QED BY <1>7 DEF t

LEMMA LogStays == IsLog(log) /\ UNCHANGED log => Grown
BY DEF Grown, ReviewBlocks, Blocks, IsLog

LEMMA LogAppends ==
    ASSUME IsLog(log), NEW kind, NEW c, NEW cause, log' = Append(log, Event(kind, c, cause))
    PROVE  /\ Grown /\ DOMAIN log' = DOMAIN log \cup {Len(log) + 1}
           /\ log'[Len(log) + 1] = Event(kind, c, cause)
           /\ ReviewBlocks' = IF kind = "blocked" /\ c = Review
                              THEN ReviewBlocks \cup {Len(log) + 1} ELSE ReviewBlocks
<1> DEFINE n == Len(log) + 1
<1>1. /\ IsLog(log)' /\ Len(log') = n
      /\ \A i \in 1 .. Len(log) : log'[i] = log[i]
      /\ log'[n] = Event(kind, c, cause)
  <2>1. /\ IsLog(log') /\ Len(log') = n
        /\ \A i \in 1 .. Len(log) : log'[i] = log[i]
        /\ log'[n] = Event(kind, c, cause)
    BY AppendFacts
  <2> QED BY <2>1 DEF IsLog
<1>2. DOMAIN log = 1 .. Len(log) /\ DOMAIN log' = 1 .. n /\ Len(log) \in Nat
  BY <1>1 DEF IsLog
<1>3. DOMAIN log' = DOMAIN log \cup {n}
  BY <1>2
<1>4. log'[n].kind = kind /\ log'[n].task = c
  BY <1>1 DEF Event
<1>5. ReviewBlocks' = IF kind = "blocked" /\ c = Review
                      THEN ReviewBlocks \cup {n} ELSE ReviewBlocks
  BY <1>1, <1>2, <1>3, <1>4 DEF ReviewBlocks, Blocks
<1> QED BY <1>1, <1>2, <1>3, <1>5 DEF Grown

LEMMA EpisodesFinite ==
    ASSUME IsLog(log)
    PROVE  /\ IsFiniteSet(ReviewBlocks) /\ Cardinality(ReviewBlocks) \in Nat
           /\ ReviewBlocks \subseteq DOMAIN log /\ 0 \notin ReviewBlocks
           /\ Len(log) + 1 \notin ReviewBlocks
<1>1. ReviewBlocks \subseteq 1 .. Len(log) /\ Len(log) \in Nat
  BY DEF IsLog, ReviewBlocks, Blocks
<1>2. IsFiniteSet(1 .. Len(log))
  BY <1>1, FS_Interval
<1>3. IsFiniteSet(ReviewBlocks)
  BY <1>1, <1>2, FS_Subset
<1> QED BY <1>1, <1>3, FS_CardinalityType DEF IsLog

-----------------------------------------------------------------------------
(* A card changes its status.                                               *)

BoardInv == Board /\ Events /\ Told /\ Enough /\ Answering /\ OneOpen

(* The change of a status that keeps fix cards and the review in order.     *)
Orderly(c, s) ==
    /\ status' = [status EXCEPT ![c] = s] /\ UNCHANGED answers
    /\ c \in Fixes => Open(c) /\ s # "none"
    /\ c = Review => status[c] # "none"

LEMMA OrderlyStatus ==
    ASSUME BoardInv, Grown, NEW c, NEW s, Orderly(c, s)
    PROVE  Answering' /\ OneOpen' /\ Told' /\ (NoneOpen => NoneOpen')
<1>1. DOMAIN status = Cards /\ Fixes \subseteq Cards /\ Review \in Cards
  BY DEF BoardInv, Board, Cards
<1>2. \A f \in Fixes : /\ status'[f] = "none" <=> status[f] = "none"
                       /\ Open(f)' => Open(f)
  BY <1>1 DEF Orderly, Open
<1>3. Answering'
  BY <1>2 DEF BoardInv, Answering, Orderly, Grown
<1>4. OneOpen' /\ (NoneOpen => NoneOpen')
  BY <1>2 DEF BoardInv, OneOpen, NoneOpen
<1>5. Told'
  BY <1>1 DEF BoardInv, Told, Orderly, Grown
<1> QED BY <1>3, <1>4, <1>5

LEMMA StatusStep ==
    ASSUME BoardInv, NEW c, NEW s, Orderly(c, s), UNCHANGED log
    PROVE  BoardInv' /\ Grown /\ (NoneOpen => NoneOpen')
<1>1. Grown
  BY LogStays DEF BoardInv, Board
<1>2. Board' /\ Events' /\ Enough'
  BY DEF BoardInv, Board, Orderly, Events, Enough, ReviewBlocks, Blocks, IsLog
<1> QED BY <1>1, <1>2, OrderlyStatus DEF BoardInv

LEMMA MoveStep ==
    ASSUME BoardInv, NEW c, NEW s, NEW kind, NEW cause, Orderly(c, s), Move(c, s, kind, cause),
           kind # "created",
           kind = "blocked" /\ cause = "defect" => c = Review,
           kind = "blocked" /\ c = Review => Cardinality(ReviewBlocks) < Cardinality(Fixes)
    PROVE  BoardInv' /\ Grown /\ (NoneOpen => NoneOpen')
<1>1. IsLog(log) /\ log' = Append(log, Event(kind, c, cause))
  BY DEF BoardInv, Board, Move
<1>2. /\ Grown /\ DOMAIN log' = DOMAIN log \cup {Len(log) + 1}
      /\ log'[Len(log) + 1] = Event(kind, c, cause)
      /\ ReviewBlocks' = IF kind = "blocked" /\ c = Review
                         THEN ReviewBlocks \cup {Len(log) + 1} ELSE ReviewBlocks
  BY <1>1, LogAppends
<1>3. Board'
  BY <1>2 DEF BoardInv, Board, Orderly, Grown
<1>4. Events'
  BY <1>2 DEF BoardInv, Events, Grown, Event
<1>5. Enough'
  <2>1. CASE kind = "blocked" /\ c = Review
    <3>1. Cardinality(ReviewBlocks') = Cardinality(ReviewBlocks) + 1
      BY <1>1, <1>2, <2>1, EpisodesFinite, FS_AddElement
    <3>2. Cardinality(Fixes) \in Nat /\ Cardinality(ReviewBlocks) \in Nat
      BY <1>1, EpisodesFinite, FS_CardinalityType, WatcherAssumption
    <3> QED BY <2>1, <3>1, <3>2 DEF Enough
  <2>2. CASE ~(kind = "blocked" /\ c = Review)
    BY <1>2, <2>2 DEF BoardInv, Enough
  <2> QED BY <2>1, <2>2
<1> QED BY <1>2, <1>3, <1>4, <1>5, OrderlyStatus DEF BoardInv

(* There is a fix card left for an episode nobody answered yet: the fix     *)
(* cards answer distinct episodes, and there are no more than cards.        *)
LEMMA FixLeft ==
    ASSUME BoardInv, NEW e \in ReviewBlocks, \A f \in Fixes : answers[f] # e
    PROVE  \E f \in Fixes : status[f] = "none"
<1> SUFFICES ASSUME \A f \in Fixes : status[f] # "none"
             PROVE  FALSE
  OBVIOUS
<1> DEFINE T == ReviewBlocks \ {e}
           answer == [f \in Fixes |-> answers[f]]
<1>1. IsFiniteSet(ReviewBlocks) /\ Cardinality(ReviewBlocks) \in Nat
  BY EpisodesFinite DEF BoardInv, Board
<1>2. IsFiniteSet(T) /\ Cardinality(T) = Cardinality(ReviewBlocks) - 1
  BY <1>1, FS_RemoveElement
<1>3. IsFiniteSet(Fixes) /\ Cardinality(Fixes) \in Nat
  BY WatcherAssumption, FS_CardinalityType
<1>4. Cardinality(T) < Cardinality(Fixes)
  BY <1>1, <1>2, <1>3 DEF BoardInv, Enough
<1>5. answer \in [Fixes -> T]
  BY DEF BoardInv, Answering
<1>6. \E f, g \in Fixes : f # g /\ answer[f] = answer[g]
  <2> HIDE DEF T, answer
  <2> QED BY <1>2, <1>3, <1>4, <1>5, FS_PigeonHole
<1> QED BY <1>6 DEF BoardInv, Answering

LEMMA CreateStep ==
    ASSUME BoardInv, NEW e \in ReviewBlocks, NoneOpen, CreateFix(e)
    PROVE  BoardInv' /\ Grown
<1>1. CASE \E f \in Fixes : answers[f] = e
  <2>1. UNCHANGED native
    BY <1>1 DEF CreateFix
  <2> QED BY <2>1, LogStays
          DEF native, BoardInv, Board, Events, Told, Enough, Answering, OneOpen, Open,
              ReviewBlocks, Blocks, IsLog
<1>2. CASE \A f \in Fixes : answers[f] # e
  <2> DEFINE f == CHOOSE g \in Fixes : status[g] = "none"
  <2>1. f \in Fixes /\ status[f] = "none"
    BY <1>2, FixLeft
  <2>2. /\ status' = [status EXCEPT ![f] = "ready"]
        /\ answers' = [answers EXCEPT ![f] = e]
        /\ UNCHANGED log
    BY <1>2 DEF CreateFix
  <2> HIDE DEF f
  <2>3. Grown /\ ReviewBlocks' = ReviewBlocks /\ Board' /\ Events' /\ Enough'
    BY <2>2, LogStays DEF BoardInv, Board, Events, Enough, ReviewBlocks, Blocks, IsLog
  <2>4. DOMAIN status = Cards /\ DOMAIN answers = Fixes /\ Fixes \subseteq Cards
    BY DEF BoardInv, Board, Cards
  <2>5. e # 0
    BY EpisodesFinite DEF BoardInv, Board
  <2>6. Answering'
    BY <1>2, <2>1, <2>2, <2>3, <2>4, <2>5 DEF BoardInv, Answering
  <2>7. OneOpen'
    <3>1. \A g \in Fixes : g # f => ~Open(g)'
      BY <2>2, <2>4 DEF NoneOpen, Open
    <3> QED BY <3>1 DEF OneOpen
  <2>8. Told'
    BY <2>1, <2>2, <2>3, WatcherAssumption DEF BoardInv, Told
  <2> QED BY <2>3, <2>6, <2>7, <2>8 DEF BoardInv
<1> QED BY <1>1, <1>2

-----------------------------------------------------------------------------
(* The steps of people, workers, dispatcher and clocks.                     *)

LEMMA PassKept ==
    ASSUME FixInv, BoardInv', Grown, NoneOpen => NoneOpen', UNCHANGED pass
    PROVE  FixInv'
<1>1. Files'
  BY DEF FixInv, Files, pass
<1>2. Work'
  <2>1. Len(log) <= Len(log') /\ Len(log) \in Nat /\ Len(log') \in Nat /\ ReviewBlocks \subseteq ReviewBlocks'
    BY DEF Grown, FixInv, Board, IsLog
  <2> QED BY <2>1 DEF FixInv, Work, pass
<1>3. Planned'
  BY DEF FixInv, Planned, Good, pass, Grown
<1> QED BY <1>1, <1>2, <1>3 DEF FixInv, BoardInv

LEMMA CardMoves ==
    ASSUME FixInv, NEW c \in Cards, Block(c) \/ Unblock(c) \/ Complete(c) \/ Dispatch(c)
    PROVE  BoardInv' /\ Grown /\ (NoneOpen => NoneOpen')
<1>1. BoardInv
  BY DEF FixInv, BoardInv
<1>2. CASE Block(c)
  <2>1. Orderly(c, "blocked")
    BY <1>2 DEF Block, Move, Orderly, Open, Terminal
  <2>2. CauseOf(c) = "defect" => c = Review
    BY DEF CauseOf
  <2> QED BY <1>1, <1>2, <2>1, <2>2, MoveStep DEF Block, ReviewBlocks
<1>3. CASE Unblock(c)
  <2>1. Orderly(c, "ready")
    BY <1>3 DEF Unblock, Move, Orderly, Open, Terminal
  <2> QED BY <1>1, <1>3, <2>1, MoveStep DEF Unblock
<1>4. CASE Complete(c)
  <2>1. Orderly(c, "done")
    BY <1>4 DEF Complete, Move, Orderly, Open, Terminal
  <2> QED BY <1>1, <1>4, <2>1, MoveStep DEF Complete
<1>5. CASE Dispatch(c)
  <2>1. UNCHANGED log
    BY <1>5 DEF Dispatch
  <2>2. Orderly(c, "running") \/ Orderly(c, "ready")
    BY <1>5 DEF Dispatch, Released, Orderly, Open, Terminal
  <2> QED BY <1>1, <2>1, <2>2, StatusStep
<1> QED BY <1>2, <1>3, <1>4, <1>5

LEMMA EnvironmentStep ==
    ASSUME FixInv, BoardMoves \/ WorldMoves \/ Matures \/ RepoAppears \/ UNCHANGED watcherVars
    PROVE  FixInv'
<1>1. CASE BoardMoves
  <2>1. UNCHANGED pass
    BY <1>1 DEF BoardMoves
  <2> QED BY <1>1, <2>1, CardMoves, PassKept DEF BoardMoves
<1>2. CASE WorldMoves \/ Matures \/ RepoAppears \/ UNCHANGED watcherVars
  <2>1. UNCHANGED <<native, pass>>
    BY <1>2 DEF WorldMoves, Matures, RepoAppears, watcherVars
  <2>2. BoardInv' /\ Grown /\ (NoneOpen => NoneOpen')
    BY <2>1, LogStays
       DEF native, FixInv, BoardInv, Board, Events, Told, Enough, Answering, OneOpen, NoneOpen,
           Open, ReviewBlocks, Blocks, IsLog
  <2> QED BY <2>1, <2>2, PassKept
<1> QED BY <1>1, <1>2

-----------------------------------------------------------------------------
(* The native commands of a live pass.                                      *)

LEMMA EffectStep ==
    ASSUME FixInv, plan # <<>>, plan[1] # "unguard", Accepts(plan), Effect(plan)
    PROVE  BoardInv' /\ Grown
<1> DEFINE c == plan[2]
<1>1. BoardInv /\ plan[1] \in Kinds
  BY DEF FixInv, BoardInv, Planned, Good
<1>2. CASE plan[1] = "fix"
  <2>1. CreateFix(plan[3]) /\ plan[3] \in ReviewBlocks /\ NoneOpen
    BY <1>2 DEF Effect, FixInv, Planned, Good
  <2> QED BY <1>1, <2>1, CreateStep
<1>3. CASE plan[1] = "supersede"
  <2>1. Move(c, "done", "completed", "superseded") /\ c \notin Fixes /\ status[c] # "none"
    BY <1>3 DEF Effect, Accepts, FixInv, Planned, Good
  <2>2. Orderly(c, "done")
    BY <2>1 DEF Move, Orderly
  <2> QED BY <1>1, <2>1, <2>2, MoveStep
<1>4. CASE plan[1] = "promote"
  <2>1. /\ status' = [status EXCEPT ![c] = "ready"] /\ UNCHANGED <<log, answers>>
        /\ c \notin Fixes /\ status[c] # "none"
    BY <1>4 DEF Effect, Accepts, FixInv, Planned, Good
  <2>2. Orderly(c, "ready")
    BY <2>1 DEF Orderly
  <2> QED BY <1>1, <2>1, <2>2, StatusStep
<1>5. CASE plan[1] = "pick"
  <2>1. Move(c, "ready", "unblocked", "none") /\ status[c] = "blocked"
    BY <1>5 DEF Effect, Accepts
  <2>2. Orderly(c, "ready")
    BY <2>1 DEF Move, Orderly, Open, Terminal
  <2> QED BY <1>1, <2>1, <2>2, MoveStep
<1>6. CASE plan[1] \in {"guard", "reguard"}
  <2>1. /\ Move(c, "blocked", "blocked", "guard") /\ status[c] \in {"ready", "running"}
        /\ c # Review
    BY <1>6 DEF Effect, Accepts, FixInv, Planned, Good
  <2>2. Orderly(c, "blocked")
    BY <2>1 DEF Move, Orderly, Open, Terminal
  <2> QED BY <1>1, <2>1, <2>2, MoveStep
<1>7. CASE plan[1] = "deadlock"
  <2>1. /\ status' = [status EXCEPT ![c] = "archived"] /\ UNCHANGED <<log, answers>>
        /\ c \notin Fixes /\ c # Review
    BY <1>7 DEF Effect, FixInv, Planned, Good
  <2>2. Orderly(c, "archived")
    BY <2>1 DEF Orderly
  <2> QED BY <1>1, <2>1, <2>2, StatusStep
<1> QED BY <1>1, <1>2, <1>3, <1>4, <1>5, <1>6, <1>7 DEF Kinds

(* After a command the plan is empty, the promotion of the child or another *)
(* try of the same guard: never a create.                                   *)
Follows ==
    plan' # <<>> =>
        \/ plan'[1] = "promote" /\ plan'[2] = Gated
        \/ plan'[1] \in {"unguard", "reguard"} /\ plan'[2] = plan[2]
           /\ plan[1] \in {"guard", "unguard"}

LEMMA CommandKeeps ==
    ASSUME FixInv, plan # <<>>, BoardInv', Grown, Follows,
           UNCHANGED <<mode, file, pc, work, upto, seen>>,
           mem' = mem \/ \E k : mem' = [mem EXCEPT !.keys = @ \cup {k}]
    PROVE  FixInv'
<1>1. Files'
  BY DEF FixInv, Files, StateFields
<1>2. Work'
  <2>1. Len(log) <= Len(log') /\ Len(log) \in Nat /\ Len(log') \in Nat /\ ReviewBlocks \subseteq ReviewBlocks'
    BY DEF Grown, FixInv, Board, IsLog
  <2> QED BY <2>1 DEF FixInv, Work
<1>3. Planned'
  BY WatcherAssumption DEF FixInv, Planned, Good, Follows, Kinds
<1> QED BY <1>1, <1>2, <1>3 DEF FixInv, BoardInv

LEMMA CommandStep ==
    ASSUME FixInv, Perform \/ Refused \/ Fails \/ Unguard
    PROVE  FixInv'
<1>1. BoardInv
  BY DEF FixInv, BoardInv
<1>2. UNCHANGED native => BoardInv' /\ Grown
  BY <1>1, LogStays
     DEF native, BoardInv, Board, Events, Told, Enough, Answering, OneOpen, Open, ReviewBlocks,
         Blocks, IsLog
<1>3. CASE Perform
  <2>1. BoardInv' /\ Grown
    BY <1>3, EffectStep DEF Perform
  <2>2. Follows
    BY <1>3 DEF Perform, AfterSuccess, PromoteKey, Follows
  <2>3. /\ plan # <<>> /\ UNCHANGED <<mode, file, pc, work, upto, seen>>
        /\ \E k : mem' = [mem EXCEPT !.keys = @ \cup {k}]
    BY <1>3 DEF Perform, Keyed
  <2> QED BY <2>1, <2>2, <2>3, CommandKeeps
<1>4. CASE Refused
  <2>1. Follows
    BY <1>4 DEF Refused, AfterFailure, Follows
  <2> QED BY <1>2, <1>4, <2>1, CommandKeeps DEF Refused, MemAfterFailure
<1>5. CASE Fails
  <2>1. BoardInv' /\ Grown
    BY <1>2, <1>5, EffectStep DEF Fails
  <2>2. Follows
    BY <1>5 DEF Fails, AfterFailure, Follows
  <2> QED BY <1>5, <2>1, <2>2, CommandKeeps DEF Fails, MemAfterFailure
<1>6. CASE Unguard
  <2>1. BoardInv' /\ Grown
    <3>1. CASE status[plan[2]] = "blocked" /\ Move(plan[2], "ready", "unblocked", "none")
      <4>1. Orderly(plan[2], "ready")
        BY <3>1 DEF Move, Orderly, Open, Terminal
      <4> QED BY <1>1, <3>1, <4>1, MoveStep
    <3>2. CASE UNCHANGED native
      BY <1>2, <3>2
    <3> QED BY <1>6, <3>1, <3>2 DEF Unguard
  <2>2. Follows
    BY <1>6 DEF Unguard, Follows
  <2> QED BY <1>6, <2>1, <2>2, CommandKeeps DEF Unguard
<1> QED BY <1>3, <1>4, <1>5, <1>6

-----------------------------------------------------------------------------
(* What a heuristic decides: nothing, a key to remember, or, in a live pass,*)
(* a command.                                                               *)

Decided ==
    /\ plan' = <<>> \/ (mode = "live" /\ Good(plan'))
    /\ mem' = mem \/ \E k : mem' = Keyed(k)

LEMMA ProposeDecides ==
    ASSUME NEW key, Good(key), mode \in {"dry", "replay", "live"}, Propose(key)
    PROVE  Decided
<1>1. CASE Would
  BY <1>1 DEF Propose, Decided
<1>2. CASE ~Would
  BY <1>2 DEF Propose, Decided, Would
<1> QED BY <1>1, <1>2

LEMMA LeaveDecides ==
    ASSUME plan = <<>>, Leave
    PROVE  Decided
BY DEF Leave, Decided

LEMMA DefectDecides ==
    ASSUME FixInv, plan = <<>>, NEW e \in ReviewBlocks, Defect(e)
    PROVE  Decided
<1>1. CASE Leave
  BY <1>1, LeaveDecides
<1>2. CASE mem' = Keyed(FixKey(e)) /\ UNCHANGED plan
  BY <1>2 DEF Decided
<1>3. CASE ~(\E f \in Fixes : Open(f)) /\ Propose(FixKey(e))
  <2>1. Good(FixKey(e))
    BY <1>3 DEF Good, FixKey, Kinds, NoneOpen
  <2> QED BY <1>3, <2>1, ProposeDecides DEF FixInv, Work
<1> QED BY <1>1, <1>2, <1>3 DEF Defect

LEMMA OthersDecide ==
    ASSUME FixInv, plan = <<>>, NEW x,
           \/ Supersede(x) \/ Promote(Gated) \/ Pick \/ Archive(x)
           \/ Guard(x) /\ x # Review
    PROVE  Decided
<1>1. mode \in {"dry", "replay", "live"}
  BY DEF FixInv, Work
<1>2. CASE Supersede(x)
  <2>1. Good(SupersedeKey)
    BY WatcherAssumption DEF Good, SupersedeKey, Kinds
  <2> QED BY <1>1, <1>2, <2>1, ProposeDecides, LeaveDecides DEF Supersede
<1>3. CASE Promote(Gated)
  <2>1. Good(PromoteKey(Gated))
    BY WatcherAssumption DEF Good, PromoteKey, Kinds
  <2> QED BY <1>1, <1>3, <2>1, ProposeDecides, LeaveDecides DEF Promote
<1>4. CASE Pick
  <2>1. \A p : Good(PickKey(p))
    BY DEF Good, PickKey, Kinds
  <2> QED BY <1>1, <1>4, <2>1, ProposeDecides, LeaveDecides DEF Pick
<1>5. CASE Archive(x)
  <2>1. Good(ArchiveKey(x))
    BY WatcherAssumption DEF Good, ArchiveKey, Kinds
  <2> QED BY <1>1, <1>5, <2>1, ProposeDecides, LeaveDecides DEF Archive
<1>6. CASE Guard(x) /\ x # Review
  <2>1. Good(GuardKey(x))
    BY <1>6 DEF Good, GuardKey, Kinds
  <2> QED BY <1>1, <1>6, <2>1, ProposeDecides, LeaveDecides DEF Guard
<1> QED BY <1>2, <1>3, <1>4, <1>5, <1>6

(* A step of the pass that touches neither the board nor the file.          *)
LEMMA DecisionKeeps ==
    ASSUME FixInv, Decided, UNCHANGED <<native, mode, file>>, Work'
    PROVE  FixInv'
<1>1. BoardInv'
  BY DEF native, FixInv, BoardInv, Board, Events, Told, Enough, Answering, OneOpen, Open,
         ReviewBlocks, Blocks, IsLog
<1>2. Files'
  BY DEF Decided, Keyed, FixInv, Files, StateFields
<1>3. Planned'
  <2>1. ReviewBlocks' = ReviewBlocks /\ NoneOpen' = NoneOpen
    BY DEF native, ReviewBlocks, Blocks, NoneOpen, Open
  <2> QED BY <2>1 DEF Decided, Planned, Good
<1> QED BY <1>1, <1>2, <1>3 DEF FixInv, BoardInv

LEMMA SinceIsNat == Files => Since \in Nat
BY DEF Files, Since

LEMMA ReactStep ==
    ASSUME FixInv, React
    PROVE  FixInv' /\ Decided
<1> DEFINE event == log[seen]
<1>1. pc = "events" /\ plan = <<>> /\ seen <= upto
  BY DEF React
<1>2. seen \in DOMAIN log /\ seen > 0 /\ seen \in Nat /\ upto \in Nat
  BY <1>1 DEF FixInv, Work, Board, IsLog
<1>3. Decided
  <2>1. CASE event.kind = "blocked" /\ event.cause = "defect" /\ Defect(seen)
    <3>1. seen \in ReviewBlocks
      BY <1>2, <2>1 DEF ReviewBlocks, Blocks, FixInv, Events
    <3> QED BY <1>1, <2>1, <3>1, DefectDecides
  <2>2. CASE Supersede(event.task)
    BY <1>1, <2>2, OthersDecide
  <2>3. CASE event.kind = "created" /\ Guard(event.task)
    <3>1. event.task # Review
      BY <1>2, <2>3, WatcherAssumption DEF FixInv, Events
    <3> QED BY <1>1, <2>3, <3>1, OthersDecide
  <2>4. CASE Leave
    BY <1>1, <2>4, LeaveDecides
  <2> QED BY <2>1, <2>2, <2>3, <2>4 DEF React
<1>4. UNCHANGED <<native, mode, file, upto, work>>
  BY DEF React, Stays, native
<1>5. Work'
  <2>1. \/ pc' = "pick" /\ seen' = seen
        \/ pc' = "events" /\ seen' = seen + 1
    BY <1>1 DEF React
  <2>2. ReviewBlocks' = ReviewBlocks /\ log' = log
    BY <1>4 DEF native, ReviewBlocks, Blocks
  <2> QED BY <1>1, <1>2, <1>4, <2>1, <2>2 DEF FixInv, Work
<1> QED BY <1>3, <1>4, <1>5, DecisionKeeps

LEMMA PickKeeps ==
    ASSUME FixInv, PickStep
    PROVE  FixInv' /\ Decided
<1>1. Decided
  BY OthersDecide DEF PickStep
<1>2. UNCHANGED <<native, mode, file, upto, work>> /\ pc = "pick" /\ pc' = "events" /\ seen' = seen + 1
  BY DEF PickStep, Stays, native
<1>3. Work'
  <2>1. log' = log
    BY <1>2 DEF native
  <2> QED BY <1>2, <2>1 DEF FixInv, Work
<1> QED BY <1>1, <1>2, <1>3, DecisionKeeps

(* What a scan takes up when it starts.                                     *)
LEMMA FoundWork ==
    ASSUME FixInv, NEW phase
    PROVE  /\ Found(phase) # {} =>
                phase \in {"traps", "defects", "deadlocks", "supersedes", "promotions"}
           /\ phase = "traps" => Review \notin Found(phase)
           /\ phase = "defects" => Found(phase) \subseteq ReviewBlocks
           /\ phase = "promotions" => Found(phase) \subseteq {Gated}
<1>1. CASE phase = "traps"
  BY <1>1 DEF Found, MissingEvents, FixInv, Told, ReviewBlocks
<1>2. CASE phase = "defects"
  BY <1>2 DEF Found, DefectBlocks, ReviewBlocks
<1>3. CASE phase = "promotions"
  BY <1>3 DEF Found, Pending, Waiting
<1>4. CASE phase \notin {"traps", "defects", "promotions"}
  BY <1>4 DEF Found
<1> QED BY <1>1, <1>2, <1>3, <1>4

LEMMA EndPhaseKeeps ==
    ASSUME FixInv, EndPhase
    PROVE  FixInv'
<1>1. /\ UNCHANGED <<native, mode, file, upto, plan, seen>> /\ plan = <<>>
      /\ pc' = NextPhase /\ work' = Found(NextPhase)
  BY DEF EndPhase, Stays, native
<1>2. NextPhase \notin {"events", "pick"}
  BY DEF EndPhase, NextPhase
<1>3. Work'
  <2>1. log' = log /\ ReviewBlocks' = ReviewBlocks
    BY <1>1 DEF native, ReviewBlocks, Blocks
  <2> QED BY <1>1, <1>2, <2>1, FoundWork DEF FixInv, Work
<1>4. mem' = mem \/ mem' = [mem EXCEPT !.dry = upto] \/ mem' = [mem EXCEPT !.live = upto]
  BY DEF EndPhase, Advanced
<1>5. Files'
  BY <1>1, <1>4 DEF FixInv, Files, Work, StateFields
<1>6. BoardInv'
  BY <1>1 DEF native, FixInv, BoardInv, Board, Events, Told, Enough, Answering, OneOpen, Open,
         ReviewBlocks, Blocks, IsLog
<1> QED BY <1>1, <1>3, <1>5, <1>6 DEF FixInv, BoardInv, Planned

LEMMA ScanKeeps ==
    ASSUME FixInv, NEW x \in work, Scan(x)
    PROVE  FixInv' /\ Decided
<1>1. plan = <<>> /\ UNCHANGED <<native, mode, file, upto, pc, seen>> /\ work' = work \ {x}
  BY DEF Scan, Stays, native
<1>2. pc \in {"traps", "defects", "deadlocks", "supersedes", "promotions"}
  BY DEF FixInv, Work
<1>3. Decided
  <2>1. CASE pc = "traps"
    BY <1>1, <2>1, OthersDecide DEF Scan, FixInv, Work
  <2>2. CASE pc = "defects"
    BY <1>1, <2>2, DefectDecides DEF Scan, FixInv, Work
  <2>3. CASE pc = "deadlocks"
    BY <1>1, <2>3, OthersDecide DEF Scan
  <2>4. CASE pc = "supersedes"
    BY <1>1, <2>4, OthersDecide DEF Scan
  <2>5. CASE pc = "promotions"
    <3>1. x = Gated
      BY <2>5 DEF FixInv, Work
    <3> QED BY <1>1, <2>5, <3>1, OthersDecide DEF Scan
  <2> QED BY <1>2, <2>1, <2>2, <2>3, <2>4, <2>5
<1>4. Work'
  <2>1. log' = log /\ ReviewBlocks' = ReviewBlocks
    BY <1>1 DEF native, ReviewBlocks, Blocks
  <2> QED BY <1>1, <1>2, <2>1 DEF FixInv, Work
<1> QED BY <1>1, <1>3, <1>4, DecisionKeeps

LEMMA BoundaryKeeps ==
    ASSUME FixInv, GoLive \/ Drain \/ DrainFails \/ PassLost \/ Save
    PROVE  FixInv'
<1>1. UNCHANGED native /\ plan' \in {plan, <<>>}
  BY DEF GoLive, Drain, DrainFails, PassLost, Save, native
<1>2. Files'
  BY DEF FixInv, Files, GoLive, Drain, DrainFails, PassLost, Save, NoState, StateFields
<1>3. log' = log /\ ReviewBlocks' = ReviewBlocks /\ NoneOpen' = NoneOpen /\ Len(log) \in Nat
  BY <1>1 DEF native, ReviewBlocks, Blocks, NoneOpen, Open, FixInv, Board, IsLog
<1>4. Work'
  <2>1. CASE Drain
    <3>1. Since \in Nat
      BY SinceIsNat DEF FixInv
    <3>2. upto' \in Nat /\ upto' <= Len(log)
      BY <1>3, <2>1, <3>1 DEF Drain
    <3> QED BY <1>3, <2>1, <3>1, <3>2 DEF Drain, Idle, FixInv, Work
  <2>2. CASE GoLive \/ DrainFails \/ PassLost \/ Save
    BY <1>3, <2>2 DEF GoLive, DrainFails, PassLost, Save, Idle, FixInv, Work
  <2> QED BY <2>1, <2>2
<1>5. Planned'
  <2>1. GoLive => plan = <<>>
    BY DEF GoLive, Idle
  <2>2. UNCHANGED mode \/ plan' = <<>>
    BY <2>1 DEF GoLive, Drain, DrainFails, PassLost, Save
  <2> QED BY <1>1, <1>3, <2>2 DEF FixInv, Planned, Good
<1>6. BoardInv'
  BY <1>1 DEF native, FixInv, BoardInv, Board, Events, Told, Enough, Answering, OneOpen, Open,
         ReviewBlocks, Blocks, IsLog
<1> QED BY <1>2, <1>4, <1>5, <1>6 DEF FixInv, BoardInv

LEMMA NextFixInv ==
    ASSUME FixInv, [WatcherNext]_watcherVars
    PROVE  FixInv'
BY EnvironmentStep, CommandStep, ReactStep, PickKeeps, EndPhaseKeeps, ScanKeeps, BoundaryKeeps
   DEF WatcherNext, PassStep

-----------------------------------------------------------------------------
(* The start: the cards of a cast, each blocked one with its one event.     *)

LEMMA InitLog ==
    ASSUME WatcherInit
    PROVE  /\ IsLog(log)
           /\ \A i \in DOMAIN log : \E x \in Seeded :
                log[i] = Event(IF x = Trap THEN "created" ELSE "blocked", x, CauseOf(x))
           /\ \A i, j \in DOMAIN log : log[i] = log[j] => i = j
           /\ status[Review] # "none" => ReviewBlocks # {}
           /\ DOMAIN status = Cards /\ \A f \in Fixes : status[f] = "none"
<1> DEFINE first(x) == Event(IF x = Trap THEN "created" ELSE "blocked", x, CauseOf(x))
<1>1. PICK cast \in Casts :
        /\ status = [c \in Cards |-> IF c \in cast THEN FirstStatus(c) ELSE "none"]
        /\ log = SetToSeq({first(x) : x \in cast \cap Seeded})
  BY DEF WatcherInit
<1> DEFINE X == cast \cap Seeded
           S == {first(x) : x \in X}
           n == Cardinality(S)
           name == [x \in X |-> first(x)]
<1>2. IsFiniteSet(X)
  <2>1. IsFiniteSet(Parked \cup {Review, Trap})
    <3>1. IsFiniteSet({Review}) /\ IsFiniteSet({Trap})
      BY FS_Singleton
    <3>2. IsFiniteSet({Review} \cup {Trap})
      BY <3>1, FS_Union
    <3>3. IsFiniteSet(Parked \cup ({Review} \cup {Trap}))
      BY <3>2, FS_Union, WatcherAssumption
    <3>4. Parked \cup ({Review} \cup {Trap}) = Parked \cup {Review, Trap}
      OBVIOUS
    <3> QED BY <3>3, <3>4
  <2>2. X \in SUBSET (Parked \cup {Review, Trap})
    BY DEF Seeded
  <2> HIDE DEF X
  <2> QED BY <2>1, <2>2, FS_Subset
<1>3. IsFiniteSet(S) /\ n \in Nat
  <2>1. name \in Surjection(X, S)
    BY DEF Surjection
  <2> HIDE DEF X, S, name
  <2> QED BY <1>2, <2>1, FS_Surjection, FS_CardinalityType DEF n
<1>4. log \in Bijection(1 .. n, S)
  <2>1. \E f \in [1 .. n -> S] : IsInjective(f)
    <3> HIDE DEF S
    <3>1. ExistsBijection(1 .. n, S)
      BY <1>3, FS_CardinalityType
    <3> QED BY <3>1 DEF ExistsBijection, Bijection, Injection, IsInjective
  <2>2. log \in [1 .. n -> S] /\ IsInjective(log)
    <3>1. log = SetToSeq(S)
      BY <1>1
    <3> HIDE DEF S
    <3> QED BY <2>1, <3>1 DEF SetToSeq
  <2>3. log \in Injection(1 .. n, S)
    BY <2>2 DEF Injection
  <2>4. IsFiniteSet(1 .. n) /\ Cardinality(1 .. n) = n
    <3>1. 1 \in Int /\ n \in Int
      BY <1>3
    <3> HIDE DEF n, S
    <3> QED BY <1>3, <3>1, FS_Interval
  <2>5. log \in Surjection(1 .. n, S)
    <3> HIDE DEF S
    <3> QED BY <1>3, <2>3, <2>4, FS_Injection
  <2> QED BY <2>3, <2>5 DEF Bijection
<1>5. /\ log \in [1 .. n -> S] /\ IsInjective(log)
      /\ \A y \in S : \E i \in 1 .. n : log[i] = y
  BY <1>4 DEF Bijection, Injection, Surjection
<1> HIDE DEF n
<1>6. log \in Seq(S) /\ Len(log) = n
  <2> HIDE DEF S
  <2>1. log \in Seq(S)
    BY <1>3, <1>5
  <2> QED BY <1>3, <1>5, <2>1, LenProperties
<1>7. IsLog(log) /\ DOMAIN log = 1 .. n
  <2> HIDE DEF S
  <2> QED BY <1>3, <1>5, <1>6 DEF IsLog
<1>8. \A i \in DOMAIN log : \E x \in Seeded :
        log[i] = Event(IF x = Trap THEN "created" ELSE "blocked", x, CauseOf(x))
  BY <1>5, <1>7
<1>9. \A i, j \in DOMAIN log : log[i] = log[j] => i = j
  <2> HIDE DEF S
  <2> QED BY <1>5 DEF IsInjective
<1>10. status[Review] # "none" => ReviewBlocks # {}
  <2>1. Review \in Cards /\ Review \in Seeded /\ Review # Trap
    BY WatcherAssumption DEF Cards, Seeded
  <2>2. status[Review] # "none" => first(Review) \in S
    BY <1>1, <2>1
  <2>3. first(Review).kind = "blocked" /\ first(Review).task = Review
    BY <2>1 DEF Event
  <2>4. ASSUME first(Review) \in S
        PROVE  ReviewBlocks # {}
    <3>1. PICK i \in 1 .. n : log[i] = first(Review)
      BY <1>5, <2>4
    <3> QED BY <1>7, <2>3, <3>1 DEF ReviewBlocks, Blocks
  <2> QED BY <2>2, <2>4
<1>11. DOMAIN status = Cards /\ \A f \in Fixes : status[f] = "none"
  <2>1. cast \subseteq Cards \ Fixes /\ Fixes \subseteq Cards
    BY WatcherAssumption DEF Cards
  <2> QED BY <1>1, <2>1
<1> QED BY <1>7, <1>8, <1>9, <1>10, <1>11

LEMMA InitFixInv ==
    ASSUME WatcherInit
    PROVE  FixInv
<1>1. Board /\ Told
  BY InitLog DEF WatcherInit, Board, Told
<1>2. Events
  <2>1. \A x \in Seeded : CauseOf(x) = "defect" => x = Review
    BY DEF CauseOf
  <2> QED BY <2>1, InitLog DEF Events, Event
<1>3. Enough
  <2>1. \A i, j \in ReviewBlocks : i = j
    <3>1. \A i \in ReviewBlocks : log[i] = Event("blocked", Review, CauseOf(Review))
      BY InitLog, WatcherAssumption DEF ReviewBlocks, Blocks, Event
    <3> QED BY <3>1, InitLog DEF ReviewBlocks, Blocks
  <2>2. Cardinality(ReviewBlocks) <= 1
    <3>1. CASE ReviewBlocks = {}
      BY <3>1, FS_EmptySet
    <3>2. ASSUME NEW i, ReviewBlocks = {i}
          PROVE  Cardinality(ReviewBlocks) <= 1
      <4>1. Cardinality({i}) = 1
        BY FS_Singleton
      <4> QED BY <3>2, <4>1
    <3> QED BY <2>1, <3>1, <3>2
  <2>3. Cardinality(Fixes) \in Nat /\ Cardinality(Fixes) # 0
    BY WatcherAssumption, FS_CardinalityType, FS_EmptySet
  <2>4. Cardinality(ReviewBlocks) \in Nat
    BY InitLog, EpisodesFinite
  <2> QED BY <2>2, <2>3, <2>4 DEF Enough
<1>4. Answering /\ OneOpen
  <2>1. \A f \in Fixes : status[f] = "none" /\ answers[f] = 0
    BY InitLog DEF WatcherInit
  <2> QED BY <2>1 DEF Answering, OneOpen, Open
<1>5. Files
  BY DEF WatcherInit, Files, NoState, StateFields
<1>6. Work
  BY InitLog DEF WatcherInit, Work, IsLog
<1>7. Planned
  BY DEF WatcherInit, Planned
<1> QED BY <1>1, <1>2, <1>3, <1>4, <1>5, <1>6, <1>7 DEF FixInv

-----------------------------------------------------------------------------
(* A dry run or a replay.                                                   *)

(* It marks the keys it remembers as its own.                               *)
LEMMA OwnKeys ==
    ASSUME Files, Would, NEW k
    PROVE  Keyed(k).live = mem.live /\ LiveKeys(Keyed(k)) = LiveKeys(mem)
<1>1. Keyed(k).live = mem.live /\ Keyed(k).keys = mem.keys \cup {Stored(k)}
  BY DEF Keyed, Files, StateFields
<1>2. Stored(k)[1]
  BY DEF Stored
<1> QED BY <1>1, <1>2 DEF LiveKeys

LEMMA DecidesApart ==
    ASSUME FixInv, Apart, Decided, UNCHANGED <<mode, file>>, pc # "idle"
    PROVE  Apart'
<1>1. CASE mem' = mem
  BY <1>1 DEF Apart, Would, LiveKeys
<1>2. ASSUME NEW k, mem' = Keyed(k)
      PROVE  Apart'
  <2> SUFFICES ASSUME Would'
               PROVE  mem'.live = file.live /\ LiveKeys(mem') = LiveKeys(file)
    BY DEF Apart, LiveKeys
  <2>1. Would
    BY DEF Would
  <2> QED BY <1>2, <2>1, OwnKeys DEF FixInv, Apart
<1> QED BY <1>1, <1>2 DEF Decided

LEMMA EndPhaseApart ==
    ASSUME FixInv, Apart, EndPhase
    PROVE  Apart'
<1>1. UNCHANGED <<mode, file>> /\ pc # "idle"
  BY DEF EndPhase, Stays
<1> SUFFICES ASSUME Would'
             PROVE  mem'.live = file.live /\ LiveKeys(mem') = LiveKeys(file)
  BY <1>1 DEF Apart, LiveKeys
<1>2. Would
  BY <1>1 DEF Would
<1>3. mem' = mem \/ mem' = [mem EXCEPT !.dry = upto]
  BY <1>2 DEF EndPhase, Advanced
<1>4. mem'.live = mem.live /\ mem'.keys = mem.keys
  BY <1>3 DEF FixInv, Files, StateFields
<1> QED BY <1>1, <1>2, <1>4 DEF Apart, LiveKeys

(* It plans no native command.                                              *)
LEMMA NothingPlanned == FixInv /\ Would => plan = <<>>
BY DEF FixInv, Planned, Would

LEMMA NextApart ==
    ASSUME IInv, [WatcherNext]_watcherVars
    PROVE  Apart'
<1>1. FixInv /\ Apart
  BY DEF IInv
<1>2. CASE BoardMoves \/ WorldMoves \/ Matures \/ RepoAppears \/ UNCHANGED watcherVars
  <2>1. UNCHANGED pass
    BY <1>2 DEF BoardMoves, WorldMoves, Matures, RepoAppears, watcherVars
  <2> QED BY <1>1, <2>1 DEF pass, Apart, Would, LiveKeys
<1>3. CASE GoLive
  BY <1>3 DEF GoLive, Idle, Apart, Would
<1>4. CASE Drain \/ DrainFails
  BY <1>4 DEF Drain, DrainFails, Apart, LiveKeys
<1>5. CASE PassLost \/ Save
  BY <1>5 DEF PassLost, Save, Apart
<1>6. CASE Perform \/ Refused \/ Fails \/ Unguard
  <2>1. ~Would /\ UNCHANGED mode
    BY <1>1, <1>6, NothingPlanned DEF Perform, Refused, Fails, Unguard
  <2> QED BY <2>1 DEF Apart, Would
<1>7. CASE React \/ PickStep
  <2>1. UNCHANGED <<mode, file>> /\ pc # "idle"
    BY <1>7 DEF React, PickStep, Stays
  <2> QED BY <1>1, <1>7, <2>1, ReactStep, PickKeeps, DecidesApart
<1>8. CASE EndPhase
  BY <1>1, <1>8, EndPhaseApart
<1>9. ASSUME NEW x \in work, Scan(x)
      PROVE  Apart'
  <2>1. UNCHANGED <<mode, file>> /\ pc # "idle"
    BY <1>1, <1>9 DEF Scan, Stays, FixInv, Work
  <2> QED BY <1>1, <1>9, <2>1, ScanKeeps, DecidesApart
<1> QED BY <1>2, <1>3, <1>4, <1>5, <1>6, <1>7, <1>8, <1>9 DEF WatcherNext, PassStep

-----------------------------------------------------------------------------
(* The pick gate.                                                           *)

LEMMA GrownLength == FixInv /\ Grown => Len(log) \in Nat /\ Len(log') \in Nat /\ Len(log) <= Len(log')
BY DEF FixInv, Board, IsLog, Grown

LEMMA LogIndices == FixInv => DOMAIN log = 1 .. Len(log) /\ Len(log) \in Nat
BY DEF FixInv, Board, IsLog

(* Every step, whatever it is, lets the log grow and keeps the cursors in   *)
(* it.                                                                      *)
LEMMA NextGrown ==
    ASSUME FixInv, [WatcherNext]_watcherVars
    PROVE  Grown
<1>1. CASE UNCHANGED native
  BY <1>1, LogStays DEF native, FixInv, Board
<1>2. CASE BoardMoves
  BY <1>2, CardMoves DEF BoardMoves
<1>3. CASE Perform \/ Fails
  BY <1>1, <1>3, EffectStep DEF Perform, Fails
<1>4. CASE Unguard
  BY <1>1, <1>4, LogAppends DEF Unguard, Move, FixInv, Board
<1>5. BoardMoves \/ Perform \/ Fails \/ Unguard \/ UNCHANGED native
  BY DEF WatcherNext, PassStep, WorldMoves, Matures, RepoAppears, GoLive, Drain, React, PickStep,
         EndPhase, Save, Refused, Scan, DrainFails, PassLost, Stays, watcherVars, native
<1> QED BY <1>1, <1>2, <1>3, <1>4, <1>5

LEMMA NextBounds ==
    ASSUME FixInv, Bounds, Grown, [WatcherNext]_watcherVars
    PROVE  Bounds'
<1>1. Len(log) \in Nat /\ Len(log') \in Nat /\ Len(log) <= Len(log')
  BY GrownLength
<1>2. Files /\ upto \in Nat /\ upto <= Len(log)
  BY DEF FixInv, Work
<1>3. /\ file' \in {file, mem}
      /\ \/ mem' \in {mem, file, NoState}
         \/ \E k : mem' = Keyed(k)
         \/ mem' = [mem EXCEPT !.dry = upto] \/ mem' = [mem EXCEPT !.live = upto]
  <2>1. CASE React \/ PickStep \/ \E x \in work : Scan(x)
    BY <2>1, ReactStep, PickKeeps, ScanKeeps DEF Decided, React, PickStep, Scan, Stays
  <2>2. CASE EndPhase
    BY <2>2 DEF EndPhase, Advanced, Stays
  <2>3. CASE Perform \/ Refused \/ Fails \/ Unguard
    BY <2>3 DEF Perform, Refused, Fails, Unguard, MemAfterFailure
  <2>4. CASE BoardMoves \/ WorldMoves \/ Matures \/ RepoAppears \/ GoLive \/ Drain \/ DrainFails
                \/ PassLost \/ Save \/ UNCHANGED watcherVars
    BY <2>4 DEF BoardMoves, WorldMoves, Matures, RepoAppears, GoLive, Drain, DrainFails, PassLost,
                Save, watcherVars, pass
  <2> QED BY <2>1, <2>2, <2>3, <2>4 DEF WatcherNext, PassStep
<1>4. InLog(file)' 
  BY <1>1, <1>2, <1>3 DEF Bounds, InLog, Files
<1>5. InLog(mem)'
  BY <1>1, <1>2, <1>3 DEF Bounds, InLog, Files, StateFields, NoState, Keyed
<1> QED BY <1>4, <1>5 DEF Bounds

LEMMA SteadyGate ==
    ASSUME FixInv, GateInv, Grown, Bounds', UNCHANGED <<picks, lost, mode>>, Cursors',
           mode = "live" => \A i \in DOMAIN log : Ahead(i)' => Ahead(i)
    PROVE  GateInv'
<1>1. History'
  BY DEF GateInv, History, Grown
<1>2. Fresh'
  BY DEF GateInv, History, Fresh
<1> QED BY <1>1, <1>2 DEF GateInv

LEMMA EnvironmentGate ==
    ASSUME FixInv, GateInv, Grown, Bounds',
           BoardMoves \/ WorldMoves \/ Matures \/ RepoAppears \/ UNCHANGED watcherVars
    PROVE  GateInv'
<1>1. UNCHANGED <<pass, picks, lost>>
  BY DEF BoardMoves, WorldMoves, Matures, RepoAppears, watcherVars, counts
<1>3. Cursors'
  <2>1. pc = "pick" => seen \in DOMAIN log
    BY LogIndices DEF FixInv, Work, GateInv, Cursors
  <2> QED BY <1>1, <2>1 DEF pass, GateInv, Cursors, Picking, Grown
<1>4. \A i : Ahead(i)' => Ahead(i)
  BY <1>1 DEF pass, Ahead, Picking
<1> QED BY <1>1, <1>3, <1>4, SteadyGate DEF pass

(* A command that fails, or that is not a pick, leaves the gate where it is;*)
(* none of them plans a pick.                                               *)
LEMMA CommandGate ==
    ASSUME FixInv, GateInv, Grown, Bounds', Perform \/ Refused \/ Fails \/ Unguard
    PROVE  GateInv'
<1>1. /\ plan # <<>> /\ mode = "live"
      /\ UNCHANGED <<mode, file, pc, work, upto, seen, lost>>
  <2>1. plan # <<>>
    BY DEF Perform, Refused, Fails, Unguard
  <2>2. UNCHANGED <<mode, file, pc, work, upto, seen, lost>>
    BY DEF Perform, Refused, Fails, Unguard, counts
  <2> QED BY <2>1, <2>2 DEF FixInv, Planned
<1>3. ~Picking'
  <2>1. CASE Perform
    BY <2>1 DEF Perform, AfterSuccess, PromoteKey, Picking
  <2>2. CASE Refused \/ Fails
    BY <2>2 DEF Refused, Fails, AfterFailure, Picking
  <2>3. CASE Unguard
    BY <2>3 DEF Unguard, Picking
  <2> QED BY <2>1, <2>2, <2>3
<1>4. mem'.live = mem.live
  BY DEF Perform, Refused, Fails, Unguard, MemAfterFailure, Keyed, FixInv, Files, StateFields
<1>5. Cursors'
  <2>1. pc = "pick" => seen \in DOMAIN log
    BY LogIndices DEF FixInv, Work, GateInv, Cursors
  <2> QED BY <1>1, <1>3, <1>4, <2>1, GrownLength DEF GateInv, Cursors, Grown, FixInv, Files
<1>6. \A i : Ahead(i)' => Ahead(i) /\ (Picking => i # seen - 1)
  BY <1>1, <1>3, <1>4 DEF Ahead, GateInv, Cursors, FixInv, Work
<1>7. CASE UNCHANGED picks
  BY <1>1, <1>5, <1>6, <1>7, SteadyGate
<1>8. CASE Picking /\ Counted(plan)
  <2> DEFINE e == seen - 1
  <2>1. e \in DOMAIN log /\ log[e].kind = "completed" /\ pc = "events"
    BY <1>8 DEF GateInv, Cursors
  <2>2. picks' = [i \in DOMAIN picks \cup {e} |-> IF i = e THEN Moved(i) + 1 ELSE picks[i]]
    BY <1>8 DEF Counted, Picking
  <2>3. Moved(e) \in Nat /\ Moved(e) <= lost
    <3>1. Ahead(e)
      BY <1>8, <2>1 DEF Ahead
    <3> QED BY <1>1, <3>1 DEF Moved, GateInv, History, Fresh
  <2>4. History'
    <3>1. e \in DOMAIN log' /\ log'[e].kind = "completed"
      BY <2>1 DEF Grown
    <3> QED BY <1>1, <2>2, <2>3, <3>1 DEF GateInv, History, Grown
  <2>5. Fresh'
    BY <1>1, <1>6, <1>8, <2>2 DEF GateInv, Fresh
  <2> QED BY <1>5, <2>4, <2>5 DEF GateInv
<1>9. UNCHANGED picks \/ (Picking /\ Counted(plan))
  BY <1>1 DEF Perform, Refused, Fails, Unguard, Counted, Picking, counts
<1> QED BY <1>7, <1>8, <1>9

LEMMA ReactGate ==
    ASSUME FixInv, GateInv, Grown, Bounds', React
    PROVE  GateInv'
<1>1. UNCHANGED <<native, mode, file, upto, picks, lost>> /\ pc = "events" /\ plan = <<>> /\ seen <= upto
  BY DEF React, Stays, counts
<1>3. ~Picking'
  BY <1>1 DEF React, Defect, Supersede, Guard, Propose, Leave, FixKey, SupersedeKey, GuardKey, Picking
<1>4. mem'.live = mem.live
  BY DEF React, Defect, Supersede, Guard, Propose, Leave, Keyed, FixInv, Files, StateFields
<1>5. \/ pc' = "pick" /\ seen' = seen /\ log[seen].kind = "completed"
      \/ pc' = "events" /\ seen' = seen + 1
  BY <1>1 DEF React
<1>6. seen \in Nat /\ upto \in Nat
  BY DEF FixInv, Work
<1>7. Cursors'
  BY <1>1, <1>3, <1>4, <1>5, <1>6 DEF native, GateInv, Cursors
<1>8. \A i \in DOMAIN log : Ahead(i)' => Ahead(i)
  BY <1>1, <1>3, <1>5, <1>6, LogIndices DEF Ahead
<1> QED BY <1>1, <1>7, <1>8, SteadyGate

LEMMA PickGate ==
    ASSUME FixInv, GateInv, Grown, Bounds', PickStep
    PROVE  GateInv'
<1>1. /\ UNCHANGED <<native, mode, file, upto, picks, lost>>
      /\ pc = "pick" /\ pc' = "events" /\ seen' = seen + 1
  BY DEF PickStep, Stays, counts
<1>3. mem'.live = mem.live
  BY DEF PickStep, Pick, Propose, Leave, Keyed, FixInv, Files, StateFields
<1>4. seen \in Nat /\ upto \in Nat /\ seen \in DOMAIN log
  BY <1>1, LogIndices DEF FixInv, Work, GateInv, Cursors
<1>5. Cursors'
  BY <1>1, <1>3, <1>4 DEF native, GateInv, Cursors
<1>6. \A i \in DOMAIN log : Ahead(i)' => Ahead(i)
  BY <1>1, <1>4, LogIndices DEF Ahead
<1> QED BY <1>1, <1>5, <1>6, SteadyGate

LEMMA EndPhaseGate ==
    ASSUME FixInv, GateInv, Grown, Bounds', EndPhase
    PROVE  GateInv'
<1>1. /\ UNCHANGED <<native, mode, file, upto, seen, plan, picks, lost>> /\ plan = <<>>
      /\ pc' = NextPhase
      /\ pc = "events" => seen > upto
      /\ pc \in {"events", "traps", "defects", "deadlocks", "supersedes", "promotions"}
      /\ mem' = IF pc = (IF mode = "replay" THEN "events" ELSE "deadlocks") THEN Advanced ELSE mem
  BY DEF EndPhase, Stays, counts
<1>3. upto \in Nat /\ seen \in Nat /\ upto <= Len(log)
  BY DEF FixInv, Work
<1>4. mode = "live" =>
        mem'.live = IF pc = "deadlocks" THEN upto ELSE mem.live
  BY <1>1 DEF Advanced, Since, Would, GateInv, Cursors, FixInv, Files, StateFields
<1>5. Cursors'
  BY <1>1, <1>4 DEF native, NextPhase, GateInv, Cursors, Picking
<1>6. mode = "live" => \A i \in DOMAIN log : Ahead(i)' => Ahead(i)
  BY <1>1, <1>3, <1>4, LogIndices DEF NextPhase, Ahead, Picking, GateInv, Cursors
<1> QED BY <1>1, <1>5, <1>6, SteadyGate

LEMMA ScanGate ==
    ASSUME FixInv, GateInv, Grown, Bounds', NEW x \in work, Scan(x)
    PROVE  GateInv'
<1>1. UNCHANGED <<native, mode, file, upto, seen, pc, picks, lost>>
  BY DEF Scan, Stays, counts
<1>3. pc \in {"traps", "defects", "deadlocks", "supersedes", "promotions"} /\ plan = <<>>
  BY DEF FixInv, Work, Scan
<1>4. ~Picking'
  <2>1. CASE pc = "traps"
    BY <1>3, <2>1 DEF Scan, Guard, Propose, Leave, GuardKey, Picking
  <2>2. CASE pc = "defects"
    BY <1>3, <2>2 DEF Scan, Defect, Propose, Leave, FixKey, Picking
  <2>3. CASE pc = "deadlocks"
    BY <1>3, <2>3 DEF Scan, Archive, Propose, Leave, ArchiveKey, Picking
  <2>4. CASE pc = "supersedes"
    BY <1>3, <2>4 DEF Scan, Supersede, Propose, Leave, SupersedeKey, Picking
  <2>5. CASE pc = "promotions"
    BY <1>3, <2>5 DEF Scan, Promote, Propose, Leave, PromoteKey, Picking
  <2> QED BY <1>3, <2>1, <2>2, <2>3, <2>4, <2>5
<1>5. mem'.live = mem.live
  BY <1>3 DEF Scan, Guard, Defect, Archive, Supersede, Promote, Propose, Leave, Keyed,
              FixInv, Files, StateFields
<1>6. Cursors'
  BY <1>1, <1>3, <1>4, <1>5 DEF native, GateInv, Cursors
<1>7. \A i \in DOMAIN log : Ahead(i)' => Ahead(i)
  BY <1>1, <1>3, <1>5 DEF Ahead
<1> QED BY <1>1, <1>6, <1>7, SteadyGate

LEMMA BoundaryGate ==
    ASSUME FixInv, GateInv, Grown, Bounds', GoLive \/ Drain \/ DrainFails \/ PassLost \/ Save
    PROVE  GateInv'
<1>1. UNCHANGED <<native, picks>>
  BY DEF GoLive, Drain, DrainFails, PassLost, Save, counts
<1>3. CASE GoLive
  <2>1. DOMAIN picks = {}
    BY <1>3 DEF GoLive, Would, GateInv, History
  <2>2. pc = "idle" /\ plan = <<>> /\ UNCHANGED <<file, mem, pc, plan, seen, upto, lost>>
    BY <1>3 DEF GoLive, Idle, counts
  <2> QED BY <1>1, <2>1, <2>2 DEF native, GateInv, History, Cursors, Fresh, Picking
<1>4. CASE Drain
  <2>1. Since \in Nat /\ Since <= Len(log)
    BY SinceIsNat, LogIndices DEF FixInv, Since, GateInv, Bounds, InLog
  <2>2. /\ plan = <<>> /\ plan' = <<>> /\ pc = "idle" /\ pc' = "events" /\ seen' = Since + 1
        /\ mem' = file /\ UNCHANGED <<mode, file, lost>>
    BY <1>4 DEF Drain, Idle
  <2>3. upto' \in Nat /\ Since <= upto'
    BY <1>4, <2>1, LogIndices DEF Drain
  <2>4. Cursors'
    <3>1. pc' = "events" /\ ~Picking' /\ mem'.live = file'.live
      BY <2>2 DEF Picking
    <3>2. Since + 1 <= upto' + 1
      <4>1. \A a, b \in Nat : a <= b => a + 1 <= b + 1
        OBVIOUS
      <4>2. Since \in Nat /\ upto' \in Nat /\ Since <= upto'
        BY <2>1, <2>3
      <4> QED BY <4>1, <4>2
    <3>3. seen' = Since + 1
      BY <2>2
    <3>4. seen' <= upto' + 1
      BY <3>2, <3>3
    <3> QED BY <3>1, <3>4 DEF Cursors
  <2>5. mode = "live" => \A i \in DOMAIN log : Ahead(i)' => Ahead(i)
    BY <2>1, <2>2, LogIndices DEF Ahead, Since, Picking
  <2> QED BY <1>1, <2>2, <2>4, <2>5, SteadyGate
<1>5. CASE DrainFails
  <2>1. /\ plan = <<>> /\ plan' = <<>> /\ pc = "idle" /\ pc' \in {"save", "supersedes"}
        /\ mem' = file /\ UNCHANGED <<mode, file, lost>>
    BY <1>5 DEF DrainFails, Idle
  <2>2. Cursors' /\ \A i : Ahead(i)' => Ahead(i)
    BY <1>1, <2>1 DEF native, GateInv, Cursors, Picking, Ahead
  <2> QED BY <1>1, <2>1, <2>2, SteadyGate
<1>6. CASE PassLost
  <2>1. plan' = <<>> /\ pc' = "idle" /\ UNCHANGED <<mode, file>> /\ lost' = lost + 1
    BY <1>6 DEF PassLost
  <2>2. Cursors'
    BY <1>1, <2>1 DEF native, GateInv, Cursors, Picking
  <2> QED BY <1>1, <2>1, <2>2 DEF native, GateInv, History, Fresh
<1>7. CASE Save
  <2>1. /\ pc = "save" /\ pc' = "idle" /\ file' = mem /\ mem' = NoState
        /\ UNCHANGED <<mode, plan, lost>> /\ ~Picking
    BY <1>7 DEF Save, GateInv, Cursors, counts
  <2>2. Cursors'
    BY <1>1, <2>1 DEF native, Cursors, Picking
  <2>3. \A i : Ahead(i)' => Ahead(i)
    BY <2>1 DEF Ahead
  <2> QED BY <1>1, <2>1, <2>2, <2>3, SteadyGate
<1> QED BY <1>3, <1>4, <1>5, <1>6, <1>7

LEMMA NextGate ==
    ASSUME FixInv, GateInv, [WatcherNext]_watcherVars
    PROVE  GateInv'
BY NextGrown, NextBounds, EnvironmentGate, CommandGate, ReactGate, PickGate, EndPhaseGate, ScanGate, BoundaryGate
   DEF WatcherNext, PassStep, GateInv

LEMMA Invariance == WatcherSpec => []IInv
<1>1. WatcherInit => IInv
  <2> SUFFICES ASSUME WatcherInit
               PROVE  IInv
    OBVIOUS
  <2>1. FixInv /\ Apart
    BY InitFixInv DEF WatcherInit, Apart
  <2>2. Bounds
    BY LogIndices, <2>1 DEF WatcherInit, Bounds, InLog, NoState
  <2>3. DOMAIN picks = {}
    BY DEF WatcherInit
  <2>4. History /\ Fresh
    BY <2>3 DEF WatcherInit, History, Fresh
  <2>5. Cursors
    BY DEF WatcherInit, Cursors, Picking
  <2> QED BY <2>1, <2>2, <2>4, <2>5 DEF IInv, GateInv
<1>2. IInv /\ [WatcherNext]_watcherVars => IInv'
  BY NextFixInv, NextApart, NextGate DEF IInv
<1> QED BY <1>1, <1>2, PTL DEF WatcherSpec

(* Whatever people, workers and lost or half-done passes do to a board, a   *)
(* review has at most one open fix card at a time, and no two fix cards     *)
(* answer the same blocked episode of it.                                   *)
THEOREM AtMostOneOpenFix == WatcherSpec => []OneOpenFix
<1>1. IInv => OneOpenFix
  <2> SUFFICES ASSUME IInv
               PROVE  OneOpenFix
    OBVIOUS
  <2> DEFINE O == {f \in Fixes : Open(f)}
  <2>1. \A f, g \in O : f = g
    BY DEF IInv, FixInv, OneOpen
  <2>2. Cardinality(O) <= 1
    <3> HIDE DEF O
    <3>1. CASE O = {}
      BY <3>1, FS_EmptySet
    <3>2. CASE \E f : O = {f}
      BY <3>2, FS_Singleton
    <3> QED BY <2>1, <3>1, <3>2
  <2> QED BY <2>2 DEF OneOpenFix, IInv, FixInv, Answering
<1> QED BY <1>1, Invariance, PTL

(* The gate moves for completions only, and for each of them once, plus     *)
(* once for every pass that was lost.                                       *)
THEOREM GateMovesOncePerCompletion == WatcherSpec => []GateMovesPerCompletion
<1>1. IInv => GateMovesPerCompletion
  BY DEF IInv, GateInv, History, GateMovesPerCompletion
<1> QED BY <1>1, Invariance, PTL

(* A dry run or a replay leaves the board alone, and what it saves, or      *)
(* loses, differs from the file it read in its own cursor and its own keys. *)
THEOREM DryRunTakesNothingFromLive == WatcherSpec => DryRunTakesNothing
<1> DEFINE Kept == /\ UNCHANGED native
                   /\ file'.live = file.live
                   /\ {k \in file'.keys : ~k[1]} = {k \in file.keys : ~k[1]}
<1>1. IInv /\ [WatcherNext]_watcherVars =>
        [Would /\ (PassStep \/ Fails \/ PassLost) => Kept]_watcherVars
  <2> SUFFICES ASSUME IInv, Would, PassStep \/ Fails \/ PassLost
               PROVE  Kept
    OBVIOUS
  <2>1. plan = <<>>
    BY NothingPlanned DEF IInv
  <2>2. CASE Perform \/ Refused \/ Unguard \/ Fails
    BY <2>1, <2>2 DEF Perform, Refused, Unguard, Fails
  <2>3. CASE Drain \/ React \/ PickStep \/ EndPhase \/ PassLost \/ \E x \in work : Scan(x)
    BY <2>3 DEF Drain, React, PickStep, EndPhase, PassLost, Scan, Stays, native
  <2>4. CASE Save
    <3>1. file' = mem /\ UNCHANGED native /\ pc # "idle"
      BY <2>4 DEF Save, native
    <3> QED BY <3>1 DEF IInv, Apart, LiveKeys
  <2> QED BY <2>2, <2>3, <2>4 DEF PassStep
<1> QED BY <1>1, Invariance, PTL DEF WatcherSpec, DryRunTakesNothing
=============================================================================
