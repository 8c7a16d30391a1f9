------------------------------ MODULE MCRawSink ------------------------------
(***************************************************************************)
(* Small instances of RawSink for TLC: two good events of the same hour    *)
(* (g1, g2), one of the next hour (later), one that Parquet cannot hold    *)
(* (poison, of the first hour) and one without a partition key (unkeyed).  *)
(***************************************************************************)
EXTENDS RawSink, TLC

CONSTANTS g1, g2, later, poison, unkeyed, v1, v2, p1, p2

MCVesselOf == [e \in Event |-> IF v2 \in Vessel /\ e \in {later, poison} THEN v2 ELSE v1]
MCPartitionOf == [v \in Vessel |-> IF v = v2 /\ p2 \in Partition THEN p2 ELSE p1]
MCHourOf == [e \in Event |-> IF e = later THEN 1 ELSE 0]
MCKindOf == [e \in Event |-> CASE e = poison  -> "poison"
                               [] e = unkeyed -> "unkeyed"
                               [] OTHER       -> "ok"]

Interchangeable == Permutations({g1, g2})

Budget(s3, broker, deadletter, crash, interrupt, torn) ==
    [k \in FaultKind |-> CASE k = "s3"        -> s3
                           [] k = "broker"    -> broker
                           [] k = "dlq"       -> deadletter
                           [] k = "crash"     -> crash
                           [] k = "interrupt" -> interrupt
                           [] k = "torn"      -> torn]
AllOnce        == Budget(1, 1, 1, 1, 1, 1)
BrokerAndStops == Budget(0, 1, 0, 1, 1, 0)
OneUpload      == Budget(1, 0, 0, 0, 0, 0)
TwoUploads     == Budget(2, 0, 0, 0, 0, 0)
=============================================================================
