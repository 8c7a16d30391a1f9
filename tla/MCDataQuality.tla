--------------------------- MODULE MCDataQuality ---------------------------
(***************************************************************************)
(* Two handlers, and windows of one and two hours of two ticks each.       *)
(***************************************************************************)
EXTENDS DataQuality, TLC

CONSTANTS h1, h2

\* Every position is as late as may put it into another hour.
Late == {1}

Symmetric == Permutations({h1, h2})
=============================================================================
