----------------------------- MODULE MCDashboard -----------------------------
(* A small instance of Dashboard for TLC.                                     *)
EXTENDS Dashboard, TLC

CONSTANTS d0, d1
=============================================================================
