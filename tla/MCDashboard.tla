---------------------------- MODULE MCDashboard ----------------------------
(***************************************************************************)
(* The fleet, whose polls may overlap, one section of Intelligence, and    *)
(* two vessels.                                                            *)
(***************************************************************************)
EXTENDS Dashboard

CONSTANTS fleet, summary, v1, v2

Pending == [f \in Feed |-> IF f = Fleet THEN 2 ELSE 1]
=============================================================================
