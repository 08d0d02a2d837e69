--------------------------- MODULE MCLaunchLedger ---------------------------
(***************************************************************************)
(* Two leases in a row, a writer launch and two other launches.              *)
(***************************************************************************)
EXTENDS LaunchLedger

CONSTANTS w1, c1, c2

MCLaunch == {w1, c1, c2}
MCWriters == {w1}
=============================================================================
