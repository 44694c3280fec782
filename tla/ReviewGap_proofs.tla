-------------------------- MODULE ReviewGap_proofs --------------------------
(***************************************************************************)
(* Proofs about ReviewGap: the loop does not ask twice for a review,        *)
(* whatever hangs or dies, for every age, window and number of losses.      *)
(***************************************************************************)
EXTENDS ReviewGap, TLAPS, FiniteSetTheorems, SequenceTheorems

Kinds == {"own", "titled", "review", "late", "reapply"}

CardSet == [kind : Kinds,
            status : {"open", "done", "archived"},
            said : {"nothing", "gone", "rejected", "verified"}]

OpenReviews == {k \in DOMAIN cards : cards[k].kind = "review" /\ cards[k].status = "open"}

(* A create is decided on what is read before it is carried out: nobody     *)
(* else makes a card of this kind in between, and a step that ends the      *)
(* phase drops the decision.                                                *)
IInv ==
    /\ cards \in Seq(CardSet)
    /\ \A j, k \in OpenReviews : j = k
    /\ decision = "create" => OpenReviews = {}

(* People make their own kinds of cards.                                    *)
GapInv == setup.others \subseteq {"own", "titled"}

-----------------------------------------------------------------------------
LEMMA AtMostOne ==
    ASSUME NEW S, \A x, y \in S : x = y
    PROVE  Cardinality(S) <= 1
<1>1. CASE S = {}
  BY <1>1, FS_EmptySet
<1>2. CASE S # {}
  <2>1. PICK x \in S : S = {x}
    BY <1>2
  <2> QED BY <2>1, FS_Singleton
<1> QED BY <1>1, <1>2

(* What becomes of the cards. *)
CardsKept == cards' = cards
CardMade(kind) == cards' = Append(cards, Card(kind))
CardEnded ==
    \E k \in DOMAIN cards, s \in {"done", "archived"},
       said \in {"nothing", "gone", "rejected", "verified"} :
        cards' = [cards EXCEPT ![k].status = s, ![k].said = said]

LEMMA MadeStays ==
    ASSUME cards \in Seq(CardSet), NEW kind \in Kinds, CardMade(kind)
    PROVE  /\ cards' \in Seq(CardSet) /\ cards' # <<>>
           /\ kind # "review" => OpenReviews' \subseteq OpenReviews
           /\ OpenReviews' \subseteq OpenReviews \cup {Len(cards) + 1}
<1>1. Card(kind) \in CardSet
  BY DEF Card, CardSet, Kinds
<1>2. /\ cards' \in Seq(CardSet) /\ Len(cards') = Len(cards) + 1
      /\ \A i \in 1 .. Len(cards) : cards'[i] = cards[i]
      /\ cards'[Len(cards) + 1] = Card(kind)
  BY <1>1, AppendProperties DEF CardMade
<1>3. Len(cards) \in Nat /\ DOMAIN cards = 1 .. Len(cards) /\ DOMAIN cards' = 1 .. Len(cards) + 1
  BY <1>2, LenProperties
<1>4. cards'[Len(cards) + 1].kind = kind
  BY <1>2 DEF Card
<1>5. \A i \in DOMAIN cards' : i \in DOMAIN cards \/ i = Len(cards) + 1
  BY <1>3
<1> QED BY <1>2, <1>3, <1>4, <1>5 DEF OpenReviews

LEMMA EndedStays ==
    ASSUME cards \in Seq(CardSet), CardEnded
    PROVE  cards' \in Seq(CardSet) /\ DOMAIN cards' = DOMAIN cards /\ OpenReviews' \subseteq OpenReviews
<1>1. PICK k \in DOMAIN cards, s \in {"done", "archived"},
           said \in {"nothing", "gone", "rejected", "verified"} :
             cards' = [cards EXCEPT ![k].status = s, ![k].said = said]
  BY DEF CardEnded
<1>2. cards \in [1 .. Len(cards) -> CardSet] /\ Len(cards) \in Nat /\ DOMAIN cards = 1 .. Len(cards)
  BY LenProperties
<1>3. cards[k] \in CardSet
  BY <1>2
<1>4. cards' \in [1 .. Len(cards) -> CardSet] /\ cards'[k].status = s
      /\ \A i \in DOMAIN cards \ {k} : cards'[i] = cards[i]
  BY <1>1, <1>2, <1>3 DEF CardSet
<1>5. cards' \in Seq(CardSet) /\ DOMAIN cards' = DOMAIN cards
  BY <1>2, <1>4
<1> QED BY <1>4, <1>5 DEF OpenReviews

-----------------------------------------------------------------------------
LEMMA InitIInv == GapInit => IInv
<1>1. DOMAIN <<>> = {} /\ <<>> \in Seq(CardSet)
  BY EmptySeq
<1> QED BY <1>1 DEF GapInit, IInv, OpenReviews

(* A step that leaves the decision or drops it, and makes no review.        *)
LEMMA NoReviewMade ==
    ASSUME IInv, decision' \in {decision, "none", "complete"},
           CardsKept \/ CardEnded \/ \E kind \in Kinds \ {"review"} : CardMade(kind)
    PROVE  IInv'
<1>1. cards' \in Seq(CardSet) /\ OpenReviews' \subseteq OpenReviews
  <2>1. CASE CardsKept
    BY <2>1 DEF CardsKept, IInv, OpenReviews
  <2>2. CASE CardEnded
    BY <2>2, EndedStays DEF IInv
  <2>3. CASE \E kind \in Kinds \ {"review"} : CardMade(kind)
    BY <2>3, MadeStays DEF IInv
  <2> QED BY <2>1, <2>2, <2>3
<1>2. decision' = "create" => decision = "create"
  OBVIOUS
<1> QED BY <1>1, <1>2 DEF IInv

(* A review that is made was planned, and the decision is dropped with it.  *)
LEMMA ReviewMade ==
    ASSUME IInv, decision = "create", decision' = "none", CardMade("review")
    PROVE  IInv'
<1>1. OpenReviews = {} /\ cards \in Seq(CardSet)
  BY DEF IInv
<1>2. cards' \in Seq(CardSet) /\ OpenReviews' \subseteq {Len(cards) + 1}
  BY <1>1, MadeStays DEF Kinds
<1> QED BY <1>2 DEF IInv

LEMMA WorldKeeps ==
    ASSUME IInv, GapInv, World
    PROVE  IInv'
<1>1. decision' = decision
  BY DEF World, tick
<1>2. CardsKept \/ CardEnded \/ \E kind \in Kinds \ {"review"} : CardMade(kind)
  <2>1. CASE Work \/ Operate
    BY <2>1 DEF Work, Operate, CardsKept
  <2>2. CASE AddReview
    BY <2>2 DEF AddReview, CardMade, GapInv, Kinds
  <2>3. CASE EndCard
    <3>1. PICK k \in DOMAIN cards, said \in {"nothing", "gone", "rejected", "verified"} :
            cards' = [cards EXCEPT ![k].status = IF said = "gone" THEN "archived" ELSE "done",
                                   ![k].said = said]
      BY <2>3 DEF EndCard
    <3> DEFINE s == IF said = "gone" THEN "archived" ELSE "done"
    <3>2. s \in {"done", "archived"} /\ cards' = [cards EXCEPT ![k].status = s, ![k].said = said]
      BY <3>1
    <3> HIDE DEF s
    <3> QED BY <3>2 DEF CardEnded
  <2> QED BY <2>1, <2>2, <2>3 DEF World
<1> QED BY <1>1, <1>2, NoReviewMade

(* The decisions of the read phase.                                         *)
LEMMA PlanDoneKeeps ==
    ASSUME IInv, PlanDone, UNCHANGED board
    PROVE  IInv'
<1>1. decision' = DonePlan /\ cards' = cards
  BY DEF PlanDone, board
<1>2. DonePlan = "create" => OpenReviews = {}
  <2>1. CASE Reviews = {}
    BY <2>1 DEF OpenReviews, Reviews
  <2>2. CASE Reviews # {} /\ ~OpenRevalidation
    BY <2>2 DEF OpenReviews, OpenRevalidation
  <2>3. CASE Reviews # {} /\ OpenRevalidation
    BY <2>3 DEF DonePlan
  <2> QED BY <2>1, <2>2, <2>3
<1> QED BY <1>1, <1>2 DEF IInv, OpenReviews

(* What a command does to the cards: only a create makes a review, and one  *)
(* that outlived its tick makes a card of another kind.                     *)
LEMMA OutcomeOnCards ==
    ASSUME NEW command, NEW kind, Outcome(command, kind)
    PROVE  CardsKept \/ CardMade("reapply") \/ (command = "create" /\ CardMade(kind))
BY DEF Outcome, NewCard, ReapplyCard, CompleteParent, OtherBoard, CardsKept, CardMade

LEMMA TickKeeps ==
    ASSUME IInv, TickStep
    PROVE  IInv'
<1>1. CASE (Start \/ PlanBlocked \/ Log) /\ UNCHANGED board
  BY <1>1, NoReviewMade DEF Start, PlanBlocked, Log, board, CardsKept
<1>2. CASE ActDone
  <2>1. decision' = "none"
    BY <1>2 DEF ActDone
  <2>2. CASE decision = "create"
    BY <1>2, <2>1, <2>2, ReviewMade DEF ActDone, NewCard, CardMade
  <2>3. CASE decision # "create"
    BY <1>2, <2>1, <2>3, NoReviewMade DEF ActDone, board, CardsKept
  <2> QED BY <2>2, <2>3
<1>3. CASE ActBlocked \/ SaveState
  BY <1>3, NoReviewMade DEF ActBlocked, SaveState, Rest, CompleteParent, board, CardsKept
<1>4. CASE ActRevert
  <2>1. decision' = decision
    BY <1>4 DEF ActRevert
  <2>2. CardsKept \/ CardMade("reapply")
    BY <1>4 DEF ActRevert, Keep, Unroutable, Heal, Reapply, ReapplyCard, NewCard, board,
                CardsKept, CardMade
  <2> QED BY <2>1, <2>2, NoReviewMade DEF Kinds
<1>5. CASE Dies
  BY <1>5, NoReviewMade DEF Dies, Rest, board, CardsKept
<1> QED BY <1>1, <1>2, <1>3, <1>4, <1>5, PlanDoneKeeps DEF TickStep, Act

LEMMA HangsKeeps ==
    ASSUME IInv, Hangs
    PROVE  IInv'
<1>1. decision' = "none"
  BY DEF Hangs
<1>2. CASE UNCHANGED board
  BY <1>1, <1>2, NoReviewMade DEF board, CardsKept
<1>3. CASE Outcome(Command, "review")
  <2>1. Command = "create" => decision = "create"
    BY DEF Command
  <2>2. CardsKept \/ CardMade("reapply") \/ (Command = "create" /\ CardMade("review"))
    BY <1>3, OutcomeOnCards
  <2> QED BY <1>1, <2>1, <2>2, NoReviewMade, ReviewMade DEF Kinds
<1> QED BY <1>2, <1>3 DEF Hangs

LEMMA LandsKeeps ==
    ASSUME IInv, Lands
    PROVE  IInv'
<1>1. decision' = decision
  BY DEF Lands
<1>2. CardsKept \/ CardMade("reapply") \/ CardMade("late")
  BY OutcomeOnCards DEF Lands, board, CardsKept
<1> QED BY <1>1, <1>2, NoReviewMade DEF Kinds

LEMMA NextIInv ==
    ASSUME IInv, GapInv, [GapNext]_gapVars
    PROVE  IInv'
<1>1. CASE Time \/ UNCHANGED gapVars
  BY <1>1, NoReviewMade DEF Time, gapVars, board, tick, CardsKept
<1>2. CASE Dies
  BY <1>2, NoReviewMade DEF Dies, Rest, board, CardsKept
<1> QED BY <1>1, <1>2, WorldKeeps, TickKeeps, HangsKeeps, LandsKeeps DEF GapNext

LEMMA Invariance == GapSpec => [](IInv /\ GapInv)
<1>1. GapInit => IInv /\ GapInv
  BY InitIInv, ReviewGapAssumption DEF GapInit, GapInv
<1>2. IInv /\ GapInv /\ [GapNext]_gapVars => IInv' /\ GapInv'
  <2>1. GapInv /\ [GapNext]_gapVars => GapInv'
    BY DEF GapInv, GapNext, World, Work, AddReview, EndCard, Operate, Time, TickStep, Start,
           PlanDone, PlanBlocked, Log, Act, ActDone, ActBlocked, ActRevert, SaveState, Hangs,
           Dies, Lands, Outcome, CompleteParent, OtherBoard, Keep, Unroutable, Heal, Reapply,
           ReapplyCard, board, gapVars
  <2> QED BY <2>1, NextIInv
<1> QED BY <1>1, <1>2, PTL DEF GapSpec

-----------------------------------------------------------------------------
(* Whatever is lost or hangs, at most one open card asks for a review,      *)
(* besides one whose create outlived its tick.                              *)
THEOREM OneReviewAtMost == GapSpec => []OneReview
<1>1. IInv => OneReview
  BY AtMostOne DEF IInv, OneReview, OpenReviews
<1> QED BY <1>1, Invariance, PTL
=============================================================================
