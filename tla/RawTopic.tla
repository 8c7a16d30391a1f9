------------------------------ MODULE RawTopic ------------------------------
(***************************************************************************)
(* The Kafka topic ais.raw as a consumer group of one member sees it: the  *)
(* partitioned logs the ingestion service appends to, the group's          *)
(* committed offsets, and the position of the group's consumer, which is   *)
(* lost with the process.  Records do not expire within a behaviour.       *)
(***************************************************************************)
EXTENDS Integers, Sequences, Functions

CONSTANTS Partition,    \* partitions of ais.raw
          Vessel,       \* vessels (MMSI numbers)
          Event,        \* distinct events; a record may repeat one
          VesselOf,     \* the vessel an event reports
          PartitionOf,  \* the partition the producer's key selects
          MaxPoll,      \* max_records of a poll
          MaxLog        \* bound: records per partition

ASSUME TopicAssumption == /\ VesselOf \in [Event -> Vessel]
                          /\ PartitionOf \in [Vessel -> Partition]
                          /\ MaxPoll \in Nat \ {0}
                          /\ MaxLog \in Nat

VARIABLES log,        \* log[p]: the records of partition p
          committed,  \* committed[p]: the group's committed offset
          position    \* position[p]: records of p the consumer has fetched

topicVars == <<log, committed, position>>

TopicTypeOK == /\ log \in [Partition -> Seq(Event)]
               /\ committed \in [Partition -> Nat]
               /\ position \in [Partition -> Nat]

TopicInit == /\ log = [p \in Partition |-> <<>>]
             /\ committed = [p \in Partition |-> 0]
             /\ position = committed

\* AisKafkaProducer.send keys a record by mmsi.  It may be sent twice.
Publish(e) ==
    LET p == PartitionOf[VesselOf[e]]
    IN  /\ Len(log[p]) < MaxLog
        /\ log' = [log EXCEPT ![p] = Append(@, e)]
        /\ UNCHANGED <<committed, position>>

\* The records, as <<partition, index>>, between the position and q.
Fetched(q) == {r \in Partition \X (1..MaxLog) : position[r[1]] < r[2] /\ r[2] =< q[r[1]]}

\* poll() returns one list per partition, each in the order of the log.
GroupedByPartition(o) ==
    \A j, k \in DOMAIN o :
        j < k /\ o[j][1] = o[k][1] => /\ o[j][2] < o[k][2]
                                      /\ \A m \in j..k : o[m][1] = o[j][1]

\* The positions a poll may advance to, and the orders it may return.
Ahead == {q \in [Partition -> 0..MaxLog] :
             \A p \in Partition : position[p] =< q[p] /\ q[p] =< Len(log[p])}
Orders(q) == {o \in UNION {[1..n -> Fetched(q)] : n \in 0..MaxPoll} :
                 Range(o) = Fetched(q) /\ GroupedByPartition(o)}
EventsOf(o) == [k \in DOMAIN o |-> log[o[k][1]][o[k][2]]]

\* consumer.commit() commits every record polled so far.
CommitPolled == committed' = position /\ UNCHANGED <<log, position>>

\* When the call fails the broker may have taken the offsets nonetheless.
CommitInDoubt == committed' \in {committed, position} /\ UNCHANGED <<log, position>>

\* A new or rejoining consumer starts at the group's offsets.
Rewind == position' = committed /\ UNCHANGED <<log, committed>>

OffsetsInRange == \A p \in Partition : /\ committed[p] =< position[p]
                                       /\ position[p] =< Len(log[p])
Logged == {e \in Event : \E p \in Partition : \E i \in 1..Len(log[p]) : log[p][i] = e}
CaughtUp == \A p \in Partition : committed[p] = Len(log[p])
=============================================================================
