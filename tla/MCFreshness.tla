---------------------------- MODULE MCFreshness ----------------------------
(***************************************************************************)
(* Two vessels, three ticks, two positions in batches of one or two.       *)
(***************************************************************************)
EXTENDS Freshness, TLC

CONSTANTS v1, v2

Budget == [k \in FaultKind |-> 1]
=============================================================================
