----------------------------- MODULE MCDashboard -----------------------------
(***************************************************************************)
(* The two halves of web_server.py's TradingManager in one instance: who   *)
(* trades (TradingManager), and what is made of the results (MCReports).   *)
(* The second is touched under the lock only and never decides anything in *)
(* the first, so a behaviour is one of either; the variables of the other  *)
(* half stay as they are.                                                  *)
(***************************************************************************)
EXTENDS TradingManager, MCReports

VARIABLE half

dashboard == <<half, vars, rvars>>

DashboardInit == half \in {"trading", "reports"} /\ Init /\ ReportsInit

DashboardNext ==
    \/ half = "trading" /\ Next /\ UNCHANGED <<half, rvars>>
    \/ half = "reports" /\ ReportsNext /\ UNCHANGED <<half, vars>>

DashboardSpec ==
    /\ DashboardInit /\ [][DashboardNext]_dashboard
    /\ half = "trading" => Fairness
=============================================================================
