-------------------------- MODULE StormHalt_proofs --------------------------
(***************************************************************************)
(* Proofs about StormHalt: any storms, lanes and cards, while the board     *)
(* moves between any two steps of the daemon, snapshots and commands fail  *)
(* and the daemon loses its memory.                                        *)
(***************************************************************************)
EXTENDS StormHalt, TLAPS

CardStates == {"ready", "running", "blocked"}

StormTypes ==
    /\ card \in [Cards -> CardStates]
    /\ lane \in [Cards -> Lanes]
    /\ recent \in [Storms -> Nat]
    /\ stage \in {"wait", "halt", "block"}
    /\ found \subseteq Storms
    /\ halts \in [Storms -> Nat] /\ forgets \in [Storms -> Nat]

(* The findings that wait for their halt, and the one at hand, have no key. *)
Unkeyed ==
    /\ found \cap keys = {}
    /\ stage = "block" => storm \in Storms /\ storm \notin keys \cup found

(* A halt that no loss accounts for has its key, or is just under way.      *)
Underway(s) == stage = "block" /\ storm = s /\ hit # {}
Remembered == \A s \in Storms : halts[s] > forgets[s] => s \in keys \/ Underway(s)

StormInv == StormTypes /\ Unkeyed /\ Remembered /\ HaltsAccounted

-----------------------------------------------------------------------------
LEMMA StormInitInv == StormInit => StormInv
BY StormAssumption
   DEF StormInit, StormInv, StormTypes, CardStates, Unkeyed, Remembered, HaltsAccounted

(* The board's moves leave the daemon alone.                                *)
LEMMA LaneKeepsInv ==
    ASSUME StormTypes, LaneStep
    PROVE  StormTypes' /\ UNCHANGED <<keys, tick, episodes>>
<1>1. ASSUME NEW c \in Cards, Claim(c)
      PROVE  StormTypes' /\ UNCHANGED <<keys, tick, episodes>>
  BY <1>1 DEF Claim, StormTypes, CardStates, tick, episodes, bounds
<1>2. ASSUME NEW c \in Cards, Moved(c)
      PROVE  StormTypes' /\ UNCHANGED <<keys, tick, episodes>>
  BY <1>2 DEF Moved, StormTypes, CardStates, tick, episodes
<1>3. ASSUME NEW c \in Cards, NEW s \in Storms, RunCrashes(c, s)
      PROVE  StormTypes' /\ UNCHANGED <<keys, tick, episodes>>
  BY <1>3 DEF RunCrashes, StormTypes, CardStates, tick, episodes, bounds
<1>4. ASSUME NEW s \in Storms, Expire(s)
      PROVE  StormTypes' /\ UNCHANGED <<keys, tick, episodes>>
  BY <1>4 DEF Expire, StormTypes, CardStates, tick, episodes, bounds
<1> QED BY <1>1, <1>2, <1>3, <1>4 DEF LaneStep

(* A check forgets exactly the storms that go on and are not among its      *)
(* findings; where a group is calm its episode is over.                     *)
LEMMA CheckKeepsInv ==
    ASSUME StormInv, Check
    PROVE  StormInv'
<1> USE DEF StormInv, StormTypes
<1>1. PICK findings \in {Storming, {}} :
          /\ keys' = KeysKept(findings) /\ found' = Fresh(findings)
          /\ forgets' = CalmAsZero(Forgotten((keys \cap Storming) \ findings))
  BY DEF Check
<1>2. halts' = [s \in Storms |-> IF s \in Storming THEN halts[s] ELSE 0]
  BY DEF Check, CalmAsZero
<1>3. forgets' = [s \in Storms |->
          IF s \in Storming
          THEN IF s \in (keys \cap Storming) \ findings THEN forgets[s] + 1 ELSE forgets[s]
          ELSE 0]
  BY <1>1 DEF CalmAsZero, Forgotten
<1>4. stage' = "halt" /\ stage = "wait" /\ UNCHANGED lanes
  BY DEF Check
<1>5. StormTypes'
  <2>1. found' \subseteq Storms
    BY <1>1 DEF Fresh, Storming
  <2> QED BY <1>2, <1>3, <1>4, <2>1 DEF lanes
<1>6. Unkeyed'
  BY <1>1, <1>4 DEF Unkeyed, KeysKept, Fresh
<1>7. ASSUME NEW s \in Storms
      PROVE  halts'[s] <= 1 + forgets'[s] /\ (halts'[s] > forgets'[s] => s \in keys')
  <2>1. halts[s] \in Nat /\ forgets[s] \in Nat /\ halts[s] <= 1 + forgets[s]
    BY DEF HaltsAccounted
  <2>2. halts[s] > forgets[s] => s \in keys
    BY <1>4 DEF Remembered, Underway
  <2>3. CASE s \notin Storming
    BY <1>2, <1>3, <2>3
  <2>4. CASE s \in Storming
    <3>1. halts'[s] = halts[s]
      BY <1>2, <2>4
    <3>2. CASE s \in keys \ findings
      BY <1>3, <2>1, <2>4, <3>1, <3>2
    <3>3. CASE s \notin keys
      BY <1>3, <2>1, <2>2, <2>4, <3>1, <3>3
    <3>4. CASE s \in keys \cap findings
      BY <1>1, <1>3, <2>1, <2>4, <3>1, <3>4 DEF KeysKept
    <3> QED BY <3>2, <3>3, <3>4
  <2> QED BY <2>3, <2>4
<1> QED BY <1>5, <1>6, <1>7 DEF Remembered, HaltsAccounted

LEMMA BlockKeepsInv ==
    ASSUME StormInv, NEW c \in Cards, Block(c)
    PROVE  StormInv'
<1> USE DEF StormInv, StormTypes
<1>1. stage = "block" /\ storm \in Storms /\ storm \notin keys \cup found /\ hit' # {}
  BY DEF Block, Unkeyed
<1>2. UNCHANGED <<lane, recent, keys, stage, found, storm, forgets>>
      /\ card' = [card EXCEPT ![c] = "blocked"]
  BY DEF Block
<1>3. ASSUME NEW s \in Storms
      PROVE  /\ halts'[s] \in Nat /\ halts'[s] <= 1 + forgets[s]
             /\ halts'[s] > forgets[s] => s \in keys \/ s = storm
  <2>1. halts[s] \in Nat /\ forgets[s] \in Nat /\ halts[s] <= 1 + forgets[s]
    BY DEF HaltsAccounted
  <2>2. halts[s] > forgets[s] => s \in keys \/ (s = storm /\ hit # {})
    BY DEF Remembered, Underway
  <2>3. CASE hit = {} /\ s = storm
    BY <1>1, <2>1, <2>2, <2>3 DEF Block
  <2>4. CASE ~(hit = {} /\ s = storm)
    <3>1. halts'[s] = halts[s]
      BY <1>1, <2>4 DEF Block
    <3> QED BY <2>1, <2>2, <3>1
  <2> QED BY <2>3, <2>4
<1>4. halts' \in [Storms -> Nat]
  BY <1>1, <1>3 DEF Block
<1> QED BY <1>1, <1>2, <1>3, <1>4 DEF Unkeyed, Remembered, Underway, HaltsAccounted, CardStates

LEMMA RestartKeepsInv ==
    ASSUME StormInv, Restart
    PROVE  StormInv'
<1> USE DEF StormInv, StormTypes
<1> DEFINE lost == keys \cup {s \in Storms : s = storm /\ hit # {}}
<1>1. forgets' = [s \in Storms |-> IF s \in lost THEN forgets[s] + 1 ELSE forgets[s]]
  BY DEF Restart, Forgotten
<1>2. UNCHANGED <<lanes, halts>> /\ keys' = {} /\ found' = {} /\ stage' = "wait"
  BY DEF Restart
<1>3. ASSUME NEW s \in Storms
      PROVE  halts'[s] <= forgets'[s]
  <2>1. halts[s] \in Nat /\ forgets[s] \in Nat /\ halts[s] <= 1 + forgets[s]
    BY DEF HaltsAccounted
  <2>2. halts[s] > forgets[s] => s \in lost
    BY DEF Remembered, Underway
  <2> QED BY <1>1, <1>2, <2>1, <2>2
<1>4. forgets' \in [Storms -> Nat]
  BY <1>1
<1>5. ASSUME NEW s \in Storms
      PROVE  halts'[s] <= 1 + forgets'[s] /\ ~(halts'[s] > forgets'[s])
  BY <1>2, <1>3, <1>4
<1> QED BY <1>2, <1>4, <1>5 DEF Unkeyed, Remembered, HaltsAccounted, lanes

LEMMA StormKeepsInv ==
    ASSUME StormInv, [StormNext]_stormVars
    PROVE  StormInv'
<1> USE DEF StormInv
<1>1. CASE LaneStep
  BY <1>1, LaneKeepsInv DEF tick, episodes, Unkeyed, Remembered, Underway, HaltsAccounted
<1>2. CASE Check
  BY <1>2, CheckKeepsInv
<1>3. CASE FinishHalt
  BY <1>3 DEF FinishHalt, KeysAfter, StormTypes, Unkeyed, Remembered, Underway, HaltsAccounted,
              lanes, episodes, bounds
<1>4. CASE FinishTick
  BY <1>4 DEF FinishTick, StormTypes, Unkeyed, Remembered, Underway, HaltsAccounted,
              lanes, episodes, bounds
<1>5. ASSUME NEW s \in Storms, ListReady(s) \/ ListFails(s)
      PROVE  StormInv'
  BY <1>5 DEF ListReady, ListFails, StormTypes, Unkeyed, Remembered, Underway, HaltsAccounted,
              lanes, episodes, bounds
<1>6. ASSUME NEW c \in Cards, Block(c)
      PROVE  StormInv'
  BY <1>6, BlockKeepsInv
<1>7. ASSUME NEW c \in Cards, BlockFails(c)
      PROVE  StormInv'
  BY <1>7 DEF BlockFails, StormTypes, CardStates, Unkeyed, Remembered, Underway, HaltsAccounted,
              episodes
<1>8. CASE Restart
  BY <1>8, RestartKeepsInv
<1>9. CASE UNCHANGED stormVars
  BY <1>9 DEF stormVars, lanes, tick, episodes, bounds, StormTypes, Unkeyed, Remembered,
              Underway, HaltsAccounted
<1> QED BY <1>1, <1>2, <1>3, <1>4, <1>5, <1>6, <1>7, <1>8, <1>9 DEF StormNext, StormStep

-----------------------------------------------------------------------------
(* A storm that goes on is halted once, and once more only for each time    *)
(* the daemon lost the key of its halt (_storm_episode_keys): unreadable    *)
(* snapshots and the end of the process are in the steps, as are unblocks,  *)
(* reassignments and commands that fail.                                    *)
THEOREM HaltsAreAccounted == StormSpec => []HaltsAccounted
<1>1. StormInv => HaltsAccounted
  BY DEF StormInv
<1> QED BY StormInitInv, StormKeepsInv, <1>1, PTL DEF StormSpec
=============================================================================
