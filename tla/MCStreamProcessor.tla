-------------------------- MODULE MCStreamProcessor --------------------------
(***************************************************************************)
(* Small instances of StreamProcessor for TLC.  The events are named for   *)
(* what becomes of them: two good positions of one vessel (g1, g2), a      *)
(* poison row, an event that cannot be built and one without a position.   *)
(***************************************************************************)
EXTENDS StreamProcessor, TLC

CONSTANTS g1, g2, poison, broken, blank, v1, v2, p1, p2

\* One vessel; and one for the good events, one for the others.
MCSameVessel == [e \in Event |-> v1]
MCPoisonApart == [e \in Event |-> IF e = poison THEN v2 ELSE v1]
MCKindOf == [e \in Event |-> CASE e = poison -> "rejected"
                               [] e = broken -> "unbuildable"
                               [] e = blank  -> "skipped"
                               [] OTHER      -> "ok"]
MCPartitionOf == [v \in Vessel |-> IF v = v2 /\ p2 \in Partition THEN p2 ELSE p1]

\* No formula tells g1 from g2.
Interchangeable == Permutations({g1, g2})

Budget(db, broker, deadletter, crash, interrupt, torn) ==
    [k \in FaultKind |-> CASE k = "db"        -> db
                           [] k = "broker"    -> broker
                           [] k = "dlq"       -> deadletter
                           [] k = "crash"     -> crash
                           [] k = "interrupt" -> interrupt
                           [] k = "torn"      -> torn]
AllButInterrupt == Budget(1, 2, 1, 1, 0, 1)
Outages         == Budget(1, 2, 0, 1, 1, 0)
=============================================================================
