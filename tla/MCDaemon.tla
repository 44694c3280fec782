------------------------------ MODULE MCDaemon ------------------------------
(* An instance for TLC of two parts of the daemon that share nothing with   *)
(* one another: the observation of the event streams (StreamObserver) and   *)
(* the storm breaker of one board (StormHalt).  A behaviour belongs to one  *)
(* part; the variables of the other stay as they are.                       *)
EXTENDS StreamObserver, MCStormHalt

TwoBoards == <<"b1", "b2">>

(* Two tasks; the first has a later event as well. *)
Interleaved == [b \in Boards |-> [i \in 1 .. MaxEvents |-> IF i = 2 THEN "t2" ELSE "t1"]]

VARIABLE part

daemonVars == <<part, vars, stormVars>>

DaemonInit ==
    /\ part \in {"stream", "storm"}
    /\ Init /\ StormInit
    /\ part = "stream" => \A c \in Cards : lane[c] = l1

StreamPart == part = "stream" /\ UNCHANGED <<part, stormVars>>
StormPart == part = "storm" /\ UNCHANGED <<part, vars>>

DaemonNext ==
    \/ Next /\ StreamPart
    \/ StormNext /\ StormPart

DaemonFairness ==
    /\ WF_daemonVars(Start /\ StreamPart) /\ WF_daemonVars(Poll /\ StreamPart)
    /\ \A b \in Boards : WF_daemonVars(BackoffExpires(b) /\ StreamPart)
    /\ WF_daemonVars(StormStep /\ StormPart)

DaemonSpec == DaemonInit /\ [][DaemonNext]_daemonVars /\ DaemonFairness
=============================================================================
