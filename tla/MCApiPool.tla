----------------------------- MODULE MCApiPool -----------------------------
(***************************************************************************)
(* Three threads and a pool of two connections.                            *)
(***************************************************************************)
EXTENDS ApiPool, TLC

CONSTANTS t1, t2, t3, c1, c2

Symmetric == Permutations({t1, t2, t3}) \union Permutations(Conn)
=============================================================================
