------------------------------ MODULE MCParts ------------------------------
(* Instances for TLC of five parts that share nothing with one another:     *)
(* the tools of one board (BoardTools), the cursor row of one board         *)
(* (StreamCursor), the hook of one repository (GitHook), the retrospective  *)
(* of its merges (ShippedFixRetro) and the admission of a child             *)
(* (Admission).  A behaviour belongs to one part; the variables of the      *)
(* others stay as they are.                                                 *)
EXTENDS BoardTools, StreamCursor, GitHook, ShippedFixRetro, Admission

VARIABLE part

Setting(tools, paths, gate, links, mode, events) ==
    [tools |-> tools, paths |-> paths, gate |-> gate, links |-> links,
     mode |-> mode, events |-> events]

(* Both digests over two cards; the guard beside the digest whose cards it  *)
(* comments on; three cards in a row of overlaps, two of them linked; the   *)
(* guard that reports and the one that runs dry, with a card to nag about.  *)
AllBoards ==
    {Setting({"death", "input"}, <<{}, {}>>, {}, {}, "block", 3),
     Setting({"death", "guard"}, <<{"f"}, {"f"}>>, {}, {}, "block", 2),
     Setting({"guard"}, <<{"f"}, {"f", "g"}, {"g"}>>, {}, {{1, 3}}, "block", 2),
     Setting({"guard"}, <<{"f"}, {"f"}, {}>>, {}, {}, "report", 2),
     Setting({"guard"}, <<{"f"}, {"f"}, {}>>, {3}, {{1, 2}}, "dry", 1)}

partsVars == <<part, toolVars, vars, hookVars, retroVars, admissionVars>>

PartsInit ==
    /\ part \in {"board", "cursor", "hook", "retro", "admission"}
    /\ ToolsInit /\ Init /\ HookInit /\ RetroInit /\ AdmissionInit
    /\ part # "board" => setting.mode = "dry"

Rest == part = "board" /\ UNCHANGED <<part, vars, hookVars, retroVars, admissionVars>>
BoardNext == ToolsNext /\ Rest
CursorNext ==
    part = "cursor" /\ Next /\ UNCHANGED <<part, toolVars, hookVars, retroVars, admissionVars>>
RepositoryNext ==
    part = "hook" /\ HookNext /\ UNCHANGED <<part, toolVars, vars, retroVars, admissionVars>>
LedgerNext ==
    part = "retro" /\ RetroNext /\ UNCHANGED <<part, toolVars, vars, hookVars, admissionVars>>
ChildNext ==
    part = "admission" /\ AdmissionNext /\ UNCHANGED <<part, toolVars, vars, hookVars, retroVars>>

PartsNext == BoardNext \/ CursorNext \/ RepositoryNext \/ LedgerNext \/ ChildNext

PartsFairness ==
    /\ WF_partsVars(DeathStep /\ Rest) /\ WF_partsVars(InputStep /\ Rest)
    /\ WF_partsVars(GuardStep /\ Rest) /\ WF_partsVars(Ages /\ Rest)

PartsSpec == PartsInit /\ [][PartsNext]_partsVars /\ PartsFairness

(* BoardTools: no death block, wait for input or overlap of two open cards  *)
(* that lasts goes untold.                                                  *)
BoardTold == part = "board" => EpisodesTold
=============================================================================
