---------------------------- MODULE RawTopicProofs ----------------------------
(***************************************************************************)
(* Facts about the topic that the proofs of both consumers rest on: what a *)
(* poll hands over, what producing leaves alone, and how the log, the      *)
(* committed offsets and the position may move together.                   *)
(***************************************************************************)
EXTENDS RawTopic, SequenceTheorems, TLAPS

-----------------------------------------------------------------------------
(* Lemmas about polls and fetched events                                   *)

\* What a poll hands over is a sequence of events, each a record of the log at
\* an index between the old and the new position, and every such record is in it.
LEMMA FetchedEvents ==
    ASSUME TopicTypeOK, NEW q \in Ahead, NEW o \in Orders(q)
    PROVE  /\ EventsOf(o) \in Seq(Event)
           /\ Len(o) \in Nat /\ Len(o) =< MaxPoll
           /\ Len(EventsOf(o)) = Len(o)
           /\ q \in [Partition -> Nat]
           /\ \A p \in Partition : position[p] =< q[p] /\ q[p] =< Len(log[p])
           /\ \A p \in Partition : \A i \in (position[p] + 1)..q[p] :
                 log[p][i] \in Range(EventsOf(o))
           /\ Range(EventsOf(o)) \subseteq Logged
<1>1. PICK n \in 0..MaxPoll : o \in [1..n -> Fetched(q)]
    BY DEF Orders
<1>2. n \in Nat
    BY <1>1, TopicAssumption
<1>3. /\ q \in [Partition -> 0..MaxLog]
      /\ \A p \in Partition : position[p] =< q[p] /\ q[p] =< Len(log[p])
    BY DEF Ahead
<1>4. q \in [Partition -> Nat]
    BY <1>3, TopicAssumption
<1>5. \A k \in 1..n : /\ o[k][1] \in Partition
                      /\ o[k][2] \in 1..Len(log[o[k][1]])
    <2> SUFFICES ASSUME NEW k \in 1..n
                 PROVE  /\ o[k][1] \in Partition
                        /\ o[k][2] \in 1..Len(log[o[k][1]])
        OBVIOUS
    <2>1. o[k] \in Fetched(q)
        BY <1>1
    <2>2. /\ o[k] \in Partition \X (1..MaxLog)
          /\ o[k][2] =< q[o[k][1]]
        BY <2>1 DEF Fetched
    <2>3. o[k][1] \in Partition /\ o[k][2] \in 1..MaxLog
        BY <2>2
    <2>4. q[o[k][1]] =< Len(log[o[k][1]]) /\ q[o[k][1]] \in Nat
        BY <2>3, <1>3, <1>4
    <2>5. Len(log[o[k][1]]) \in Nat
        BY <2>3, LenProperties DEF TopicTypeOK
    <2> QED
        BY <2>2, <2>3, <2>4, <2>5
<1>6. EventsOf(o) = [k \in 1..n |-> log[o[k][1]][o[k][2]]]
    BY <1>1 DEF EventsOf
<1>7. \A k \in 1..n : log[o[k][1]][o[k][2]] \in Event
    <2> SUFFICES ASSUME NEW k \in 1..n
                 PROVE  log[o[k][1]][o[k][2]] \in Event
        OBVIOUS
    <2>1. log[o[k][1]] \in Seq(Event)
        BY <1>5 DEF TopicTypeOK
    <2> QED
        BY <2>1, <1>5, ElementOfSeq
<1>8. EventsOf(o) \in [1..n -> Event]
    BY <1>6, <1>7
<1>9. EventsOf(o) \in Seq(Event)
    BY <1>8, <1>2, SeqDef
<1>10. Len(EventsOf(o)) = n /\ Len(o) = n /\ n =< MaxPoll
    BY <1>1, <1>2, <1>8, TopicAssumption
<1>11. \A p \in Partition : \A i \in (position[p] + 1)..q[p] :
          log[p][i] \in Range(EventsOf(o))
    <2> SUFFICES ASSUME NEW p \in Partition, NEW i \in (position[p] + 1)..q[p]
                 PROVE  log[p][i] \in Range(EventsOf(o))
        OBVIOUS
    <2>1. i \in 1..MaxLog /\ position[p] < i /\ i =< q[p]
        BY <1>3, TopicAssumption DEF TopicTypeOK
    <2>2. <<p, i>> \in Fetched(q)
        BY <2>1 DEF Fetched
    <2>3. <<p, i>> \in Range(o)
        BY <2>2 DEF Orders
    <2>4. PICK k \in 1..n : o[k] = <<p, i>>
        BY <2>3, <1>1 DEF Range
    <2>5. EventsOf(o)[k] = log[p][i]
        BY <2>4, <1>6
    <2> QED
        BY <2>5, <1>8 DEF Range
<1>12. Range(EventsOf(o)) \subseteq Logged
    <2> SUFFICES ASSUME NEW k \in 1..n PROVE EventsOf(o)[k] \in Logged
        BY <1>8 DEF Range
    <2> QED
        BY <1>5, <1>6, <1>7 DEF Logged
<1> QED
    BY <1>2, <1>3, <1>4, <1>9, <1>10, <1>11, <1>12

\* The records of the log that the consumer has not fetched, and those that its
\* group has not acknowledged.
Unread == {e \in Event : \E p \in Partition :
              \E i \in 1..Len(log[p]) : position[p] < i /\ log[p][i] = e}
Unacked == {e \in Event : \E p \in Partition :
              \E i \in 1..Len(log[p]) : committed[p] < i /\ log[p][i] = e}

\* A poll hands over each record between the old and the new position, no other,
\* and those of a partition in the order of the log.
LEMMA FetchedRecords ==
    ASSUME TopicTypeOK, NEW q \in Ahead, NEW o \in Orders(q)
    PROVE  /\ EventsOf(o) \in Seq(Event)
           /\ Len(EventsOf(o)) = Len(o)
           /\ \A k \in 1..Len(o) :
                 /\ o[k][1] \in Partition
                 /\ o[k][2] \in 1..Len(log[o[k][1]])
                 /\ position[o[k][1]] < o[k][2]
                 /\ EventsOf(o)[k] = log[o[k][1]][o[k][2]]
           /\ \A p \in Partition : \A i \in (position[p] + 1)..q[p] :
                 \E k \in 1..Len(o) : o[k][1] = p /\ o[k][2] = i
           /\ \A j, k \in 1..Len(o) : j < k /\ o[j][1] = o[k][1] => o[j][2] < o[k][2]
           /\ Range(EventsOf(o)) \subseteq Unread
<1>1. PICK n \in 0..MaxPoll : o \in [1..n -> Fetched(q)]
    BY DEF Orders
<1>2. n \in Nat /\ DOMAIN o = 1..n /\ Len(o) = n
    BY <1>1, TopicAssumption
<1>3. EventsOf(o) \in Seq(Event) /\ Len(EventsOf(o)) = Len(o) /\ q \in [Partition -> Nat]
    BY FetchedEvents
<1>4. ASSUME NEW k \in 1..n
      PROVE  /\ o[k][1] \in Partition
             /\ o[k][2] \in 1..Len(log[o[k][1]])
             /\ position[o[k][1]] < o[k][2]
             /\ EventsOf(o)[k] = log[o[k][1]][o[k][2]]
    <2>1. o[k] \in Partition \X (1..MaxLog) /\ position[o[k][1]] < o[k][2] /\ o[k][2] =< q[o[k][1]]
        BY <1>1 DEF Fetched
    <2>2. o[k][1] \in Partition /\ o[k][2] \in 1..MaxLog
        BY <2>1
    <2>3. q[o[k][1]] \in Nat /\ q[o[k][1]] =< Len(log[o[k][1]]) /\ Len(log[o[k][1]]) \in Nat
        BY <1>3, <2>2, LenProperties DEF Ahead, TopicTypeOK
    <2>4. EventsOf(o)[k] = log[o[k][1]][o[k][2]]
        BY <1>2 DEF EventsOf
    <2> QED
        BY <2>1, <2>2, <2>3, <2>4, TopicAssumption
<1>5. ASSUME NEW p \in Partition, NEW i \in (position[p] + 1)..q[p]
      PROVE  \E k \in 1..n : o[k][1] = p /\ o[k][2] = i
    <2>1. i \in 1..MaxLog /\ position[p] < i /\ i =< q[p]
        BY TopicAssumption DEF Ahead, TopicTypeOK
    <2>2. <<p, i>> \in Range(o)
        BY <2>1 DEF Orders, Fetched
    <2>3. PICK k \in 1..n : o[k] = <<p, i>>
        BY <1>2, <2>2 DEF Range
    <2> QED
        BY <2>3
<1>6. \A j, k \in 1..n : j < k /\ o[j][1] = o[k][1] => o[j][2] < o[k][2]
    BY <1>2 DEF Orders, GroupedByPartition
<1>7. Range(EventsOf(o)) \subseteq Unread
    <2> SUFFICES ASSUME NEW e \in Range(EventsOf(o)) PROVE e \in Unread
        OBVIOUS
    <2>1. Range(EventsOf(o)) = {EventsOf(o)[k] : k \in 1..n}
        BY <1>2, <1>3, RangeEquality
    <2>2. PICK k \in 1..n : e = EventsOf(o)[k]
        BY <2>1
    <2>3. e \in Event
        BY <1>3, RangeOfSeq
    <2> QED
        BY <1>4, <2>2, <2>3 DEF Unread
<1> QED
    BY <1>2, <1>3, <1>4, <1>5, <1>6, <1>7

-----------------------------------------------------------------------------
(* Steps of the topic                                                      *)

\* Producing only appends to a log, so that no record is ever rewritten.
LEMMA PublishAppends ==
    ASSUME TopicTypeOK, NEW e \in Event, Publish(e)
    PROVE  /\ log' \in [Partition -> Seq(Event)]
           /\ \A p \in Partition :
                 /\ Len(log[p]) \in Nat /\ Len(log'[p]) \in Nat
                 /\ Len(log[p]) =< Len(log'[p])
                 /\ \A i \in 1..Len(log[p]) : log'[p][i] = log[p][i]
<1>1. PartitionOf[VesselOf[e]] \in Partition
    BY TopicAssumption
<1>2. log' \in [Partition -> Seq(Event)]
    BY <1>1, AppendProperties DEF TopicTypeOK, Publish
<1>3. ASSUME NEW p \in Partition
      PROVE  /\ Len(log[p]) \in Nat /\ Len(log'[p]) \in Nat
             /\ Len(log[p]) =< Len(log'[p])
             /\ \A i \in 1..Len(log[p]) : log'[p][i] = log[p][i]
    <2>1. log[p] \in Seq(Event)
        BY DEF TopicTypeOK
    <2>2. log'[p] = log[p] \/ log'[p] = Append(log[p], e)
        BY DEF Publish, TopicTypeOK
    <2> QED
        BY <2>1, <2>2, AppendProperties, LenProperties
<1> QED
    BY <1>2, <1>3

\* The four ways in which a consumer's step moves the log and the offsets: not
\* at all; a poll; a commit, a rewind or both; somebody else's record.
TopicStep ==
    \/ UNCHANGED topicVars
    \/ UNCHANGED <<log, committed>> /\ position' \in Ahead
    \/ /\ UNCHANGED log
       /\ committed' \in {committed, position}
       /\ position' \in {position, committed'}
    \/ \E e \in Event : Publish(e)

\* None of them takes an offset out of its range.
LEMMA TopicStepOffsets ==
    ASSUME TopicTypeOK, OffsetsInRange, TopicStep
    PROVE  TopicTypeOK' /\ OffsetsInRange'
<1>1. \A p \in Partition : /\ committed[p] \in Nat /\ position[p] \in Nat
                           /\ log[p] \in Seq(Event) /\ Len(log[p]) \in Nat
    BY LenProperties DEF TopicTypeOK
<1>2. CASE UNCHANGED topicVars
    BY <1>2 DEF topicVars, TopicTypeOK, OffsetsInRange
<1>3. CASE UNCHANGED <<log, committed>> /\ position' \in Ahead
    <2>1. position' \in [Partition -> Nat]
        BY <1>3, TopicAssumption DEF Ahead
    <2> QED
        BY <1>1, <1>3, <2>1 DEF TopicTypeOK, OffsetsInRange, Ahead
<1>4. CASE /\ UNCHANGED log
           /\ committed' \in {committed, position}
           /\ position' \in {position, committed'}
    BY <1>1, <1>4 DEF TopicTypeOK, OffsetsInRange
<1>5. ASSUME NEW e \in Event, Publish(e)
      PROVE  TopicTypeOK' /\ OffsetsInRange'
    <2>1. UNCHANGED <<committed, position>>
        BY <1>5 DEF Publish
    <2> QED
        BY <1>1, <1>5, <2>1, PublishAppends DEF TopicTypeOK, OffsetsInRange
<1> QED
    BY <1>2, <1>3, <1>4, <1>5 DEF TopicStep
=============================================================================
