------------------------- MODULE MCDashboardEditor -------------------------
(***************************************************************************)
(* The editors of one page for TLC.                                        *)
(***************************************************************************)
EXTENDS DashboardEditor
=============================================================================
