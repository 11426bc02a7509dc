---------------------------- MODULE MCDashboard ----------------------------
(***************************************************************************)
(* A small instance of Dashboard for TLC.                                  *)
(***************************************************************************)
EXTENDS Dashboard

\* The second version has lost a memory, so that the cursor has to move.
MCMemories == [v \in Version |-> IF v = 1 THEN 2 ELSE 1]
=============================================================================
