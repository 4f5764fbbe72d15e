------------------------------ MODULE MCServers ------------------------------
(***************************************************************************)
(* What main() of main_server.py runs: one of the two servers, as --mode   *)
(* says.  The variables of the other one stay as they are.                 *)
(***************************************************************************)
EXTENDS ServerConnections, AsyncConnections

VARIABLE mode

main == <<mode, vars, avars>>

MainInit == mode \in {"sync", "async"} /\ Init /\ AsyncInit

MainNext ==
    \/ mode = "sync" /\ Next /\ UNCHANGED <<mode, avars>>
    \/ mode = "async" /\ AsyncNext /\ UNCHANGED <<mode, vars>>

MainSpec ==
    /\ MainInit /\ [][MainNext]_main
    /\ mode = "sync" => Fairness
    /\ mode = "async" => AsyncFairness
=============================================================================
