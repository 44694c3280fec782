---------------------------- MODULE MCReviewGap ----------------------------
(* Instances of ReviewGap for TLC: the loop's own board with each setting,  *)
(* and a task of another board with a longer history of reverts.            *)
EXTENDS ReviewGap

Setup(auto, repo, away, bare, others) ==
    [auto |-> auto, repo |-> repo, away |-> away, bare |-> bare, others |-> others]

Own == Setup(TRUE, TRUE, FALSE, FALSE, {"own"})
Titled == Setup(TRUE, TRUE, FALSE, FALSE, {"titled"})
Alone == Setup(TRUE, TRUE, FALSE, FALSE, {})
Alerts == Setup(FALSE, TRUE, FALSE, FALSE, {"own"})
NoRepo == Setup(TRUE, FALSE, FALSE, FALSE, {"own"})
Bare == Setup(TRUE, TRUE, FALSE, TRUE, {"own"})
Away == Setup(TRUE, TRUE, TRUE, FALSE, {"own"})

AllSetups == {Own, Titled, Alone, Alerts, NoRepo, Bare, Away}
OneSetup == {Alone}
NoRepoSetup == {NoRepo}

Commits == [s \in AllSetups |->
               CASE s = Away -> 3 [] s = Alone -> 2 [] s = Own -> 1 [] OTHER -> 0]
CardLimit == [s \in AllSetups |-> CASE s = Away -> 3 [] s \in {Titled, Alone} -> 2 [] OTHER -> 1]
Losses == [s \in AllSetups |-> IF s \in {Own, Alone} THEN 1 ELSE 0]
=============================================================================
