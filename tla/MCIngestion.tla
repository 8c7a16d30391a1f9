---------------------------- MODULE MCIngestion ----------------------------
(***************************************************************************)
(* Small instances of Ingestion for TLC: two good frames of one vessel (g1 *)
(* and g2), a refused one, a skipped one and one that makes the handler    *)
(* raise.                                                                  *)
(***************************************************************************)
EXTENDS Ingestion, TLC

CONSTANTS g1, g2, refused, other, odd, v1

MCVesselOf == [f \in Frame |-> v1]
MCKindOf == [f \in Frame |-> CASE f = refused -> "refused"
                               [] f = other   -> "skipped"
                               [] f = odd     -> "raising"
                               [] OTHER       -> "ok"]

Everything == [k \in FaultKind |-> 1]
=============================================================================
