----------------------------- MODULE MCReports ------------------------------
(***************************************************************************)
(* The instance of LatencyReports for TLC: three times, one of them equal  *)
(* to each bound of the histogram, and more orders than the window holds.  *)
(***************************************************************************)
EXTENDS LatencyReports

MCBounds == <<2, 3>>
=============================================================================
