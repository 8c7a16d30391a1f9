---------------------------- MODULE RawSinkProofs ----------------------------
(***************************************************************************)
(* Proofs about RawSink, for any number of partitions, vessels, events and *)
(* failures: type correctness and at-least-once delivery through the       *)
(* inductive invariant IInv, the implementation of Delivery; and on that   *)
(* basis that nothing is dropped while S3 answers, that the buffer is      *)
(* bounded, that without a replay no event is archived more often than it  *)
(* was published, and that an open breaker stays open.                     *)
(***************************************************************************)
EXTENDS RawSink, RawTopicProofs, FiniteSetTheorems

USE DEF storeVars, flushVars, bufferVars, topicVars, TopicTypeOK, TopicInit

-----------------------------------------------------------------------------
(* Typed parts of steps                                                    *)

\* A failure keeps the count of failures a function to the naturals.
LEMMA FaultTyped ==
    ASSUME TypeOK, NEW k \in FaultKind, Fault(k)
    PROVE  faults' \in [FaultKind -> Nat]
BY DEF TypeOK, Fault

\* The object of some rows of the batch counts events.
LEMMA ObjectTyped ==
    ASSUME TypeOK, NEW rows, rows \subseteq DOMAIN batch
    PROVE  Object(rows) \in [Event -> Nat] /\ Rows(rows) \subseteq Event
<1>1. batch \in Seq(Event) /\ DOMAIN batch = 1..Len(batch) /\ Len(batch) \in Nat
    BY LenProperties DEF TypeOK
<1>2. IsFiniteSet(1..Len(batch))
    BY <1>1, FS_Interval
<1>3. ASSUME NEW e \in Event PROVE Cardinality({i \in rows : batch[i] = e}) \in Nat
    <2>1. {i \in rows : batch[i] = e} \subseteq 1..Len(batch)
        BY <1>1
    <2> QED
        BY <1>2, <2>1, FS_Subset, FS_CardinalityType
<1>4. Rows(rows) \subseteq Event
    BY <1>1, ElementOfSeq DEF Rows
<1> QED
    BY <1>3, <1>4 DEF Object

\* A drained buffer is a well-typed flush about to begin.
LEMMA DrainTyped ==
    ASSUME NEW es \in Seq(Event), Drain(es)
    PROVE  /\ batch' \in Seq(Event)
           /\ todo' \in SUBSET Nat
           /\ quarantine' \in SUBSET Nat
           /\ uploaded' \in BOOLEAN /\ infraFailed' \in BOOLEAN
           /\ buffer' \in Seq(Event)
           /\ timer' \in {"off", "running", "expired"}
           /\ pc' \in Location
<1>1. Range(es) \subseteq Event
    BY RangeOfSeq
<1>2. {HourOf[e] : e \in Range(es)} \in SUBSET Nat
    BY <1>1, SinkEventAssumption
<1> QED
    BY <1>2, EmptySeq DEF Drain, Location

LEMMA NoFlushTyped ==
    ASSUME NoFlush
    PROVE  /\ batch' \in Seq(Event)
           /\ todo' \in SUBSET Nat
           /\ quarantine' \in SUBSET Nat
           /\ uploaded' \in BOOLEAN /\ infraFailed' \in BOOLEAN
BY EmptySeq DEF NoFlush

\* What a step leaves of the process when it ends it.
LEMMA StoppedTyped ==
    ASSUME Stopped, committed' \in [Partition -> Nat]
    PROVE  /\ pc' \in Location
           /\ closing' \in {"no", "open", "closed"}
           /\ position' \in [Partition -> Nat]
           /\ buffer' \in Seq(Event)
           /\ timer' \in {"off", "running", "expired"}
           /\ batch' \in Seq(Event)
           /\ todo' \in SUBSET Nat
           /\ quarantine' \in SUBSET Nat
           /\ uploaded' \in BOOLEAN /\ infraFailed' \in BOOLEAN
           /\ failures' \in 0..Threshold
BY EmptySeq, NoFlushTyped, SinkLimitAssumption DEF Stopped, Location

LEMMA FinallyTyped ==
    ASSUME TypeOK, NEW es \in Seq(Event), NEW q \in [Partition -> Nat],
           NEW c \in {"open", "closed"}, Finally(es, q, c), UNCHANGED committed
    PROVE  /\ pc' \in Location
           /\ closing' \in {"no", "open", "closed"}
           /\ position' \in [Partition -> Nat]
           /\ buffer' \in Seq(Event)
           /\ timer' \in {"off", "running", "expired"}
           /\ batch' \in Seq(Event)
           /\ todo' \in SUBSET Nat
           /\ quarantine' \in SUBSET Nat
           /\ uploaded' \in BOOLEAN /\ infraFailed' \in BOOLEAN
           /\ failures' \in 0..Threshold
<1>1. CASE Stopped
    BY <1>1, StoppedTyped DEF TypeOK
<1>2. CASE Drain(es) /\ closing' = c /\ position' = q /\ UNCHANGED failures
    BY <1>2, DrainTyped DEF TypeOK
<1> QED
    BY <1>1, <1>2 DEF Finally
-----------------------------------------------------------------------------
(* Type correctness                                                        *)

\* The buffer after a poll, and after a torn one.
LEMMA PollFacts ==
    ASSUME TypeOK, NEW q \in Ahead, NEW o \in Orders(q)
    PROVE  /\ EventsOf(o) \in Seq(Event) /\ Len(EventsOf(o)) \in 0..MaxPoll
           /\ buffer \o EventsOf(o) \in Seq(Event)
           /\ q \in [Partition -> Nat]
<1>1. /\ EventsOf(o) \in Seq(Event) /\ Len(o) \in Nat /\ Len(o) =< MaxPoll
      /\ Len(EventsOf(o)) = Len(o)
      /\ q \in [Partition -> Nat]
    BY FetchedEvents DEF TypeOK
<1>2. buffer \o EventsOf(o) \in Seq(Event)
    BY <1>1, ConcatProperties DEF TypeOK
<1>3. Len(EventsOf(o)) \in 0..MaxPoll
    BY <1>1, TopicAssumption
<1> QED
    BY <1>1, <1>2, <1>3

LEMMA TornPollFacts ==
    ASSUME TypeOK, NEW q \in Ahead, NEW o \in Orders(q), NEW n \in 0..(Len(o) - 1)
    PROVE  /\ SubSeq(EventsOf(o), 1, n) \in Seq(Event)
           /\ Len(SubSeq(EventsOf(o), 1, n)) \in 0..MaxPoll
           /\ buffer \o SubSeq(EventsOf(o), 1, n) \in Seq(Event)
           /\ q \in [Partition -> Nat]
<1>1. /\ EventsOf(o) \in Seq(Event) /\ Len(o) \in Nat /\ Len(o) =< MaxPoll
      /\ Len(EventsOf(o)) = Len(o)
      /\ q \in [Partition -> Nat]
    BY FetchedEvents DEF TypeOK
<1>2. SubSeq(EventsOf(o), 1, n) \in Seq(Event) /\ Len(SubSeq(EventsOf(o), 1, n)) = n
    BY <1>1, SubSeqProperties
<1>3. n \in 0..MaxPoll
    BY <1>1, TopicAssumption
<1>4. buffer \o SubSeq(EventsOf(o), 1, n) \in Seq(Event)
    BY <1>2, ConcatProperties DEF TypeOK
<1> QED
    BY <1>1, <1>2, <1>3, <1>4

LEMMA InitTyped == Init => TypeOK
<1> SUFFICES ASSUME Init PROVE TypeOK
    OBVIOUS
<1>1. TopicTypeOK /\ buffer \in Seq(Event) /\ batch \in Seq(Event)
    BY EmptySeq DEF Init
<1>2. failures \in 0..Threshold
    BY SinkLimitAssumption DEF Init
<1>3. faults \in [FaultKind -> Nat]
    BY DEF Init
<1>4. archive \subseteq [Event -> Nat]
    BY DEF Init
<1> QED
    BY <1>1, <1>2, <1>3, <1>4 DEF Init, TypeOK, Location

\* Every step keeps the type invariant: one case per action.
LEMMA StepTyped == TypeOK /\ FlushProgress /\ BreakerCount /\ [Next]_vars => TypeOK'
<1> SUFFICES ASSUME TypeOK, FlushProgress, BreakerCount, [Next]_vars PROVE TypeOK'
    OBVIOUS
<1>0. /\ batch \in Seq(Event) /\ DOMAIN batch = 1..Len(batch) /\ Len(batch) \in Nat
      /\ buffer \in Seq(Event) /\ position \in [Partition -> Nat]
      /\ committed \in [Partition -> Nat] /\ log \in [Partition -> Seq(Event)]
      /\ Threshold \in Nat \ {0} /\ failures \in 0..Threshold
    BY LenProperties, SinkLimitAssumption DEF TypeOK
<1>1. CASE Poll
    <2>0. PICK q \in Ahead : \E o \in Orders(q) :
              LET es == buffer \o EventsOf(o)
                  t  == TimerAfter(EventsOf(o))
              IN  /\ position' = q
                  /\ \/ /\ ~ShouldFlush(es, t)
                        /\ buffer' = es /\ timer' = t
                        /\ UNCHANGED <<flushVars, pc>>
                     \/ /\ ShouldFlush(es, t) /\ Keyed(es)
                        /\ Drain(es)
                     \/ /\ ShouldFlush(es, t) /\ ~Keyed(es)
                        /\ buffer' = es /\ timer' = t
                        /\ pc' = "reconnect"
                        /\ UNCHANGED flushVars
        BY <1>1 DEF Poll
    <2>1. PICK o \in Orders(q) :
              /\ position' = q
              /\ \/ /\ buffer' = buffer \o EventsOf(o)
                    /\ timer' = TimerAfter(EventsOf(o))
                    /\ pc' \in {pc, "reconnect"}
                    /\ UNCHANGED flushVars
                 \/ Drain(buffer \o EventsOf(o))
        BY <2>0
    <2>2. buffer \o EventsOf(o) \in Seq(Event) /\ q \in [Partition -> Nat]
        BY PollFacts
    <2>3. TimerAfter(EventsOf(o)) \in {"off", "running", "expired"}
        BY DEF TimerAfter, TypeOK
    <2>4. CASE Drain(buffer \o EventsOf(o))
        BY <1>1, <2>1, <2>2, <2>4, DrainTyped DEF Poll, TypeOK
    <2>5. CASE /\ buffer' = buffer \o EventsOf(o)
               /\ timer' = TimerAfter(EventsOf(o))
               /\ pc' \in {pc, "reconnect"}
               /\ UNCHANGED flushVars
        BY <1>1, <2>1, <2>2, <2>3, <2>5 DEF Poll, TypeOK, Location
    <2> QED
        BY <2>1, <2>4, <2>5
<1>2. CASE TornPoll
    <2>0. PICK q \in Ahead : \E o \in Orders(q) : \E n \in 0..(Len(o) - 1) :
              Finally(buffer \o SubSeq(EventsOf(o), 1, n), q, "open")
        BY <1>2 DEF TornPoll
    <2>1. PICK o \in Orders(q) : \E n \in 0..(Len(o) - 1) :
              Finally(buffer \o SubSeq(EventsOf(o), 1, n), q, "open")
        BY <2>0
    <2>2. PICK n \in 0..(Len(o) - 1) :
              Finally(buffer \o SubSeq(EventsOf(o), 1, n), q, "open")
        BY <2>1
    <2> DEFINE es == buffer \o SubSeq(EventsOf(o), 1, n)
    <2>3. es \in Seq(Event) /\ q \in [Partition -> Nat]
        BY TornPollFacts
    <2>4. Finally(es, q, "open")
        BY <2>2
    <2> HIDE DEF es
    <2>5. faults' \in [FaultKind -> Nat] /\ UNCHANGED <<log, committed, storeVars>>
        BY <1>2, FaultTyped DEF TornPoll, FaultKind
    <2> QED
        BY <2>3, <2>4, <2>5, FinallyTyped DEF TypeOK
<1>3. CASE PollFails
    BY <1>3, FaultTyped DEF PollFails, TypeOK, FaultKind, Location
<1>4. CASE Rejoin
    BY <1>4, FaultTyped DEF Rejoin, Rewind, TypeOK, FaultKind
<1>5. CASE Reconnect
    <2>1. failures' \in 0..Threshold
        BY <1>0, <1>5 DEF Reconnect, FlushProgress, BreakerCount
    <2> QED
        BY <1>5, <2>1 DEF Reconnect, Rewind, TypeOK, Location
<1>6. CASE ReconnectFails
    <2>1. faults' \in [FaultKind -> Nat] /\ UNCHANGED <<log, committed, storeVars>>
        BY <1>6, FaultTyped DEF ReconnectFails, FaultKind
    <2>2. Finally(buffer, position, "closed")
        BY <1>6 DEF ReconnectFails
    <2> QED
        BY <1>0, <2>1, <2>2, FinallyTyped DEF TypeOK
<1>7. CASE Tick
    BY <1>7 DEF Tick, TypeOK
<1>8. CASE Upload
    <2>1. PICK h \in todo : /\ Current(h)
                            /\ \A i \in Group(h) : ~IsPoison(i)
                            /\ \/ PutSucceeds(Group(h)) /\ uploaded' = TRUE /\ UNCHANGED infraFailed
                               \/ PutFails(Group(h)) /\ infraFailed' = TRUE /\ UNCHANGED uploaded
                            /\ todo' = todo \ {h}
        BY <1>8 DEF Upload
    <2>2. Object(Group(h)) \in [Event -> Nat] /\ Rows(Group(h)) \subseteq Event
        BY ObjectTyped DEF Group
    <2>3. PutSucceeds(Group(h)) \/ PutFails(Group(h))
        BY <2>1
    <2>4. archive' \subseteq [Event -> Nat] /\ dropped' \in SUBSET Event
        BY <2>2, <2>3 DEF PutSucceeds, PutFails, TypeOK
    <2>5. faults' \in [FaultKind -> Nat]
        BY <2>3, FaultTyped DEF PutSucceeds, PutFails, FaultKind, TypeOK
    <2>6. uploaded' \in BOOLEAN /\ infraFailed' \in BOOLEAN
        BY <2>1 DEF TypeOK
    <2> QED
        BY <1>8, <2>1, <2>4, <2>5, <2>6 DEF Upload, TypeOK
<1>9. CASE FindPoison
    <2>1. quarantine' \in SUBSET Nat
        BY <1>0, <1>9 DEF FindPoison, Group
    <2> QED
        BY <1>9, <2>1 DEF FindPoison, TypeOK, Location
<1>10. CASE DeadLetter
    <2>1. PICK i \in quarantine :
              /\ quarantine' = quarantine \ {i}
              /\ \/ /\ dlq' = dlq \union {batch[i]}
                    /\ UNCHANGED <<dropped, faults>>
                 \/ /\ Fault("dlq")
                    /\ dropped' = dropped \union {batch[i]}
                    /\ UNCHANGED dlq
        BY <1>10 DEF DeadLetter
    <2>2. batch[i] \in Event
        BY <1>0, ElementOfSeq DEF FlushProgress
    <2>3. faults' \in [FaultKind -> Nat]
        BY <2>1, FaultTyped DEF FaultKind, TypeOK
    <2> QED
        BY <1>10, <2>1, <2>2, <2>3 DEF DeadLetter, TypeOK
<1>11. CASE UploadRest
    <2>1. PICK h \in todo :
              LET rest == {i \in Group(h) : ~IsPoison(i)}
              IN  /\ Current(h)
                  /\ \/ rest = {} /\ UNCHANGED <<archive, dropped, faults>>
                     \/ rest # {} /\ PutSucceeds(rest)
                     \/ rest # {} /\ PutFails(rest)
                  /\ todo' = todo \ {h}
        BY <1>11 DEF UploadRest
    <2> DEFINE rest == {i \in Group(h) : ~IsPoison(i)}
    <2>2. \/ UNCHANGED <<archive, dropped, faults>>
          \/ PutSucceeds(rest)
          \/ PutFails(rest)
        BY <2>1
    <2>3. Object(rest) \in [Event -> Nat] /\ Rows(rest) \subseteq Event
        BY ObjectTyped DEF Group
    <2> HIDE DEF rest
    <2>4. archive' \subseteq [Event -> Nat] /\ dropped' \in SUBSET Event
        BY <2>2, <2>3 DEF PutSucceeds, PutFails, TypeOK
    <2>5. faults' \in [FaultKind -> Nat]
        BY <2>2, FaultTyped DEF PutSucceeds, PutFails, FaultKind, TypeOK
    <2> QED
        BY <1>11, <2>1, <2>4, <2>5 DEF UploadRest, TypeOK, Location
<1>12. CASE FlushUploaded
    BY <1>12, EmptySeq DEF FlushUploaded, TypeOK, Location
<1>13. CASE FlushFailed
    <2>1. CASE closing = "no" /\ ~Stopped
        <3>1. failures' \in 0..Threshold
            BY <1>0, <1>13, <2>1 DEF FlushFailed, BreakerCount
        <3> QED
            BY <1>13, <2>1, <3>1, NoFlushTyped DEF FlushFailed, TypeOK, Location
    <2>2. CASE Stopped
        BY <1>0, <1>13, <2>2, StoppedTyped DEF FlushFailed, TypeOK
    <2> QED
        BY <1>13, <2>1, <2>2 DEF FlushFailed
<1>14. CASE Commit
    <2>1. failures' \in 0..Threshold
        BY <1>0, <1>14 DEF Commit, BreakerCount
    <2> QED
        BY <1>14, <2>1, NoFlushTyped DEF Commit, CommitPolled, TypeOK, Location
<1>15. CASE CommitFails
    BY <1>15, NoFlushTyped, FaultTyped DEF CommitFails, CommitInDoubt, TypeOK, FaultKind, Location
<1>16. CASE FinalCommit
    <2>1. committed' \in [Partition -> Nat] /\ faults' \in [FaultKind -> Nat]
        BY <1>0, <1>16, FaultTyped DEF FinalCommit, TypeOK, FaultKind
    <2> QED
        BY <1>16, <2>1, StoppedTyped DEF FinalCommit, TypeOK
<1>17. CASE Interrupt
    <2>1. faults' \in [FaultKind -> Nat] /\ UNCHANGED <<log, committed, storeVars>>
        BY <1>17, FaultTyped DEF Interrupt, FaultKind
    <2>2. PICK c \in {"open", "closed"} : Finally(buffer, position, c)
        BY <1>17 DEF Interrupt
    <2> QED
        BY <1>0, <2>1, <2>2, FinallyTyped DEF TypeOK
<1>18. CASE Crash
    <2>1. faults' \in [FaultKind -> Nat]
        BY <1>18, FaultTyped DEF Crash, FaultKind
    <2> QED
        BY <1>0, <1>18, <2>1, StoppedTyped DEF Crash, TypeOK
<1>19. CASE Restart
    BY <1>19 DEF Restart, Rewind, TypeOK, Location
<1>20. ASSUME NEW e \in Event, Produce(e) PROVE TypeOK'
    <2>1. log' \in [Partition -> Seq(Event)]
        BY <1>20, PublishAppends DEF Produce, TypeOK
    <2> QED
        BY <1>20, <2>1 DEF Produce, Publish, TypeOK
<1>21. CASE Pause \/ UNCHANGED vars
    BY <1>21 DEF Pause, vars, TypeOK
<1> QED
    BY <1>1, <1>2, <1>3, <1>4, <1>5, <1>6, <1>7, <1>8, <1>9, <1>10, <1>11, <1>12,
       <1>13, <1>14, <1>15, <1>16, <1>17, <1>18, <1>19, <1>20, <1>21
    DEF Next, Step, Failure
-----------------------------------------------------------------------------
(* What a step may do to the logs, the offsets and the stores              *)

\* The finally clause either ends the process or drains the buffer.
LEMMA OffsetStep == [Next]_vars => TopicStep
<1> SUFFICES ASSUME [Next]_vars PROVE TopicStep
    OBVIOUS
<1> USE DEF TopicStep
<1>1. CASE Poll
    BY <1>1 DEF Poll
<1>2. CASE TornPoll
    BY <1>2 DEF TornPoll, Finally, Stopped
<1>3. CASE \/ PollFails \/ Tick \/ Pause \/ Upload \/ FindPoison \/ DeadLetter
           \/ UploadRest \/ FlushUploaded \/ UNCHANGED vars
    BY <1>3 DEF PollFails, Tick, Pause, Upload, FindPoison, DeadLetter, UploadRest,
       FlushUploaded, vars
<1>4. CASE Rejoin \/ Reconnect \/ Restart \/ Commit \/ CommitFails
    BY <1>4 DEF Rejoin, Reconnect, Restart, Rewind, Commit, CommitPolled, CommitFails,
       CommitInDoubt
<1>5. CASE FlushFailed \/ FinalCommit \/ Crash
    BY <1>5 DEF FlushFailed, FinalCommit, Crash, Stopped
<1>6. CASE ReconnectFails \/ Interrupt
    BY <1>6 DEF ReconnectFails, Interrupt, Finally, Stopped
<1>7. CASE \E e \in Event : Produce(e)
    BY <1>7 DEF Produce
<1> QED
    BY <1>1, <1>2, <1>3, <1>4, <1>5, <1>6, <1>7 DEF Next, Step, Failure

\* The offsets stay in range.
LEMMA StepOffsets == TypeOK /\ OffsetsInRange /\ [Next]_vars => OffsetsInRange'
    BY OffsetStep, TopicStepOffsets DEF TypeOK

\* Three actions write to the stores.
LEMMA StoreStep ==
    ASSUME [Next]_vars
    PROVE  UNCHANGED storeVars \/ Upload \/ DeadLetter \/ UploadRest
<1>1. CASE Step /\ ~(Upload \/ DeadLetter \/ UploadRest)
    BY <1>1 DEF Step, Poll, Reconnect, Pause, FindPoison, FlushUploaded, FlushFailed,
       Commit, FinalCommit, Restart, vars
<1>2. CASE Failure
    BY <1>2 DEF Failure, TornPoll, PollFails, Rejoin, ReconnectFails, CommitFails,
       Interrupt, Crash
<1>3. CASE Tick \/ UNCHANGED vars \/ \E e \in Event : Produce(e)
    BY <1>3 DEF Tick, vars, Produce
<1> QED
    BY <1>1, <1>2, <1>3 DEF Next

\* An object holds an event if and only if it is one of its rows.
LEMMA ObjectHolds ==
    ASSUME TypeOK, NEW rows, rows \subseteq DOMAIN batch, NEW e \in Event
    PROVE  Object(rows)[e] > 0 <=> e \in Rows(rows)
<1> DEFINE hits == {i \in rows : batch[i] = e}
<1>1. DOMAIN batch = 1..Len(batch) /\ Len(batch) \in Nat
    BY LenProperties DEF TypeOK
<1>2. IsFiniteSet(hits)
    <2>1. IsFiniteSet(1..Len(batch))
        BY <1>1, FS_Interval
    <2>2. hits \subseteq 1..Len(batch)
        BY <1>1
    <2> QED
        BY <2>1, <2>2, FS_Subset
<1>3. Cardinality(hits) \in Nat /\ (Cardinality(hits) = 0 <=> hits = {})
    BY <1>2, FS_CardinalityType, FS_EmptySet
<1>4. Object(rows)[e] = Cardinality(hits)
    BY DEF Object
<1>5. hits # {} <=> e \in Rows(rows)
    BY DEF Rows
<1> QED
    BY <1>3, <1>4, <1>5

\* An upload, whatever its outcome, disposes of its rows and of nothing else.
LEMMA PutHandles ==
    ASSUME TypeOK, NEW rows, rows \subseteq DOMAIN batch, UNCHANGED dlq,
           PutSucceeds(rows) \/ PutFails(rows)
    PROVE  Handled' = Handled \union Rows(rows)
<1>1. Rows(rows) \subseteq Event
    BY ObjectTyped
<1>2. \A e \in Event : Object(rows)[e] > 0 <=> e \in Rows(rows)
    BY ObjectHolds
<1>3. CASE archive' = archive \union {Object(rows)}
    <2>1. Archived' = Archived \union Rows(rows)
        BY <1>1, <1>2, <1>3 DEF Archived
    <2>2. dropped \subseteq dropped' /\ dropped' \subseteq dropped \union Rows(rows)
        BY DEF PutSucceeds, PutFails
    <2> QED
        BY <2>1, <2>2 DEF Handled
<1>4. CASE PutFails(rows) /\ archive' = archive
    <2>1. Archived' = Archived
        BY <1>4 DEF Archived
    <2>2. dropped' = dropped \union Rows(rows)
        BY <1>4 DEF PutFails
    <2> QED
        BY <2>1, <2>2 DEF Handled
<1> QED
    BY <1>3, <1>4 DEF PutSucceeds, PutFails

\* What was disposed of stays so, and only events of the batch are added.
LEMMA HandledStep ==
    ASSUME TypeOK, FlushProgress, [Next]_vars
    PROVE  Handled \subseteq Handled' /\ Handled' \subseteq Handled \union Range(batch)
<1>0. batch \in Seq(Event) /\ DOMAIN batch = 1..Len(batch)
    BY LenProperties DEF TypeOK
<1>1. ASSUME NEW rows, rows \subseteq DOMAIN batch PROVE Rows(rows) \subseteq Range(batch)
    BY <1>1 DEF Rows, Range
<1>2. CASE UNCHANGED storeVars
    BY <1>2 DEF Handled, Archived
<1>3. CASE Upload
    <2>1. PICK h \in todo : PutSucceeds(Group(h)) \/ PutFails(Group(h))
        BY <1>3 DEF Upload
    <2>2. Group(h) \subseteq DOMAIN batch /\ UNCHANGED dlq
        BY <1>3 DEF Group, Upload
    <2> QED
        BY <1>1, <2>1, <2>2, PutHandles
<1>4. CASE DeadLetter
    <2>1. PICK i \in quarantine : dlq' \union dropped' = dlq \union dropped \union {batch[i]}
        BY <1>4 DEF DeadLetter
    <2>2. batch[i] \in Range(batch)
        BY <1>0 DEF FlushProgress, Range
    <2>3. UNCHANGED archive
        BY <1>4 DEF DeadLetter
    <2> QED
        BY <2>1, <2>2, <2>3 DEF Handled, Archived
<1>5. CASE UploadRest
    <2>1. PICK h \in todo :
              LET rest == {i \in Group(h) : ~IsPoison(i)}
              IN  \/ UNCHANGED <<archive, dropped, faults>>
                  \/ PutSucceeds(rest)
                  \/ PutFails(rest)
        BY <1>5 DEF UploadRest
    <2> DEFINE rest == {i \in Group(h) : ~IsPoison(i)}
    <2>2. \/ UNCHANGED <<archive, dropped, faults>>
          \/ PutSucceeds(rest)
          \/ PutFails(rest)
        BY <2>1
    <2>3. rest \subseteq DOMAIN batch /\ UNCHANGED dlq
        BY <1>5 DEF Group, UploadRest
    <2> HIDE DEF rest
    <2>4. CASE UNCHANGED <<archive, dropped>>
        BY <2>3, <2>4 DEF Handled, Archived
    <2>5. CASE PutSucceeds(rest) \/ PutFails(rest)
        BY <1>1, <2>3, <2>5, PutHandles
    <2> QED
        BY <2>2, <2>4, <2>5
<1> QED
    BY <1>2, <1>3, <1>4, <1>5, StoreStep
-----------------------------------------------------------------------------
(* The progress of a flush                                                 *)

\* Hours are flushed one at a time: only one is current.
LEMMA CurrentUnique ==
    ASSUME TypeOK, NEW g, NEW h, Current(g), Current(h)
    PROVE  g = h
<1>1. PICK i \in Group(g) : \A j \in 1..(i - 1) : HourOf[batch[j]] \notin todo
    BY DEF Current
<1>2. PICK k \in Group(h) : \A j \in 1..(k - 1) : HourOf[batch[j]] \notin todo
    BY DEF Current
<1>3. /\ i \in 1..Len(batch) /\ k \in 1..Len(batch) /\ Len(batch) \in Nat
      /\ HourOf[batch[i]] = g /\ HourOf[batch[k]] = h
    BY <1>1, <1>2, LenProperties DEF Group, TypeOK
<1>4. g \in todo /\ h \in todo
    BY DEF Current
<1>5. ~(i < k)
    BY <1>2, <1>3, <1>4
<1>6. ~(k < i)
    BY <1>1, <1>3, <1>4
<1> QED
    BY <1>3, <1>5, <1>6

\* A flush that begins has everything to do.
LEMMA DrainProgress ==
    ASSUME NEW es \in Seq(Event), Drain(es)
    PROVE  FlushProgress'
<1>1. batch' = es /\ todo' = {HourOf[e] : e \in Range(es)} /\ quarantine' = {}
      /\ buffer' = <<>> /\ pc' = "put"
    BY DEF Drain
<1>2. \A i \in DOMAIN es : es[i] \in Range(es)
    BY DEF Range
<1>3. \A i \in DOMAIN es : HourOf[es[i]] \in todo'
    BY <1>1, <1>2
<1> QED
    BY <1>1, <1>3 DEF FlushProgress

\* Outside of a flush there is nothing to say.
LEMMA NoFlushProgress ==
    ASSUME NoFlush, pc' \in {"run", "reconnect", "down"}, closing' = "no"
    PROVE  FlushProgress'
BY DEF NoFlush, FlushProgress

LEMMA StoppedProgress == Stopped => FlushProgress'
BY NoFlushProgress DEF Stopped

LEMMA FinallyProgress ==
    ASSUME NEW es \in Seq(Event), NEW q, NEW c, Finally(es, q, c)
    PROVE  FlushProgress'
BY DrainProgress, StoppedProgress DEF Finally

LEMMA StepProgress == TypeOK /\ FlushProgress /\ [Next]_vars => FlushProgress'
<1> SUFFICES ASSUME TypeOK, FlushProgress, [Next]_vars PROVE FlushProgress'
    OBVIOUS
<1>0. /\ batch \in Seq(Event) /\ DOMAIN batch = 1..Len(batch) /\ Len(batch) \in Nat
      /\ buffer \in Seq(Event)
    BY LenProperties DEF TypeOK
<1>g. Handled \subseteq Handled'
    BY HandledStep
<1>1. CASE Poll
    <2>0. PICK q \in Ahead : \E o \in Orders(q) :
              \/ Drain(buffer \o EventsOf(o))
              \/ UNCHANGED flushVars /\ pc' \in {"run", "reconnect"}
        BY <1>1 DEF Poll, Polling
    <2>1. PICK o \in Orders(q) :
              \/ Drain(buffer \o EventsOf(o))
              \/ UNCHANGED flushVars /\ pc' \in {"run", "reconnect"}
        BY <2>0
    <2>2. buffer \o EventsOf(o) \in Seq(Event)
        BY PollFacts
    <2>3. CASE UNCHANGED flushVars /\ pc' \in {"run", "reconnect"}
        <3>1. batch = <<>> /\ closing' = closing /\ pc = "run"
            BY <1>1 DEF Poll, Polling, FlushProgress
        <3> QED
            BY <2>3, <3>1 DEF FlushProgress
    <2> QED
        BY <2>1, <2>2, <2>3, DrainProgress
<1>2. CASE TornPoll
    <2>0. PICK q \in Ahead : \E o \in Orders(q) : \E n \in 0..(Len(o) - 1) :
              Finally(buffer \o SubSeq(EventsOf(o), 1, n), q, "open")
        BY <1>2 DEF TornPoll
    <2>1. PICK o \in Orders(q) : \E n \in 0..(Len(o) - 1) :
              Finally(buffer \o SubSeq(EventsOf(o), 1, n), q, "open")
        BY <2>0
    <2>2. PICK n \in 0..(Len(o) - 1) :
              Finally(buffer \o SubSeq(EventsOf(o), 1, n), q, "open")
        BY <2>1
    <2>3. buffer \o SubSeq(EventsOf(o), 1, n) \in Seq(Event)
        BY TornPollFacts
    <2> QED
        BY <2>2, <2>3, FinallyProgress
<1>3. CASE ReconnectFails \/ Interrupt
    <2>1. PICK c : Finally(buffer, position, c)
        BY <1>3 DEF ReconnectFails, Interrupt
    <2> QED
        BY <1>0, <2>1, FinallyProgress
<1>4. CASE PollFails \/ Rejoin \/ Reconnect \/ Restart
    BY <1>4 DEF PollFails, Rejoin, Reconnect, Restart, Polling, FlushProgress
<1>5. CASE Tick \/ Pause \/ UNCHANGED vars \/ \E e \in Event : Produce(e)
    BY <1>5 DEF Tick, Pause, vars, Produce, FlushProgress, Handled, Archived, Current,
       Group, IsPoison
<1>6. CASE Upload
    <2>1. PICK h \in todo : /\ PutSucceeds(Group(h)) \/ PutFails(Group(h))
                            /\ todo' = todo \ {h}
        BY <1>6 DEF Upload
    <2>2. UNCHANGED <<batch, quarantine, buffer, pc, closing, dlq>> /\ pc = "put"
        BY <1>6 DEF Upload
    <2>3. Rows(Group(h)) \subseteq Handled'
        BY <2>1, <2>2, PutHandles DEF Group
    <2>4. \A i \in DOMAIN batch : HourOf[batch[i]] = h => batch[i] \in Handled'
        BY <2>3 DEF Rows, Group
    <2> QED
        BY <1>g, <2>1, <2>2, <2>4 DEF FlushProgress
<1>7. CASE FindPoison
    <2>1. PICK h \in todo : /\ Current(h)
                            /\ quarantine' = {i \in Group(h) : IsPoison(i)}
        BY <1>7 DEF FindPoison
    <2>2. UNCHANGED <<batch, todo, buffer, closing>> /\ pc = "put" /\ pc' = "isolate"
        BY <1>7 DEF FindPoison
    <2>3. UNCHANGED Handled
        BY <1>7 DEF FindPoison, Handled, Archived
    <2>4. ASSUME NEW g \in todo', Current(g)', NEW i \in Group(g)' \ quarantine', IsPoison(i)'
          PROVE  FALSE
        <3>1. Current(g) /\ i \in Group(g) /\ IsPoison(i)
            BY <2>2, <2>4 DEF Current, Group, IsPoison
        <3> QED
            BY <2>1, <2>4, <3>1, CurrentUnique
    <2>5. quarantine' \subseteq DOMAIN batch'
        BY <2>1, <2>2 DEF Group
    <2> QED
        BY <2>2, <2>3, <2>4, <2>5 DEF FlushProgress
<1>8. CASE DeadLetter
    <2>1. PICK i \in quarantine : /\ quarantine' = quarantine \ {i}
                                  /\ batch[i] \in dlq' \union dropped'
        BY <1>8 DEF DeadLetter
    <2>2. UNCHANGED <<batch, todo, buffer, pc, closing>> /\ pc = "isolate"
        BY <1>8 DEF DeadLetter
    <2>3. ASSUME NEW g \in todo', Current(g)', NEW k \in Group(g)' \ quarantine', IsPoison(k)'
          PROVE  batch'[k] \in Handled'
        <3>1. g \in todo /\ Current(g) /\ k \in Group(g) /\ IsPoison(k)
            BY <2>2, <2>3 DEF Current, Group, IsPoison
        <3>2. CASE k = i
            BY <2>1, <2>2, <3>2 DEF Handled
        <3>3. CASE k \notin quarantine
            BY <1>g, <2>2, <3>1, <3>3 DEF FlushProgress
        <3> QED
            BY <2>1, <2>3, <3>2, <3>3
    <2> QED
        BY <1>g, <2>1, <2>2, <2>3 DEF FlushProgress
<1>9. CASE UploadRest
    <2>1. PICK h \in todo :
              LET rest == {i \in Group(h) : ~IsPoison(i)}
              IN  /\ Current(h)
                  /\ \/ rest = {}
                     \/ PutSucceeds(rest)
                     \/ PutFails(rest)
                  /\ todo' = todo \ {h}
        BY <1>9 DEF UploadRest
    <2> DEFINE rest == {i \in Group(h) : ~IsPoison(i)}
    <2>2. Current(h) /\ todo' = todo \ {h}
        BY <2>1
    <2>3. rest = {} \/ PutSucceeds(rest) \/ PutFails(rest)
        BY <2>1
    <2>4. /\ UNCHANGED <<batch, quarantine, buffer, closing, dlq>>
          /\ pc = "isolate" /\ pc' = "put" /\ quarantine = {}
        BY <1>9 DEF UploadRest
    <2>5. \A i \in rest : batch[i] \in Handled'
        <3>1. rest \subseteq DOMAIN batch
            BY DEF Group
        <3> HIDE DEF rest
        <3>2. rest = {} \/ Rows(rest) \subseteq Handled'
            BY <2>3, <2>4, <3>1, PutHandles
        <3> QED
            BY <3>2 DEF Rows
    <2>6. \A i \in Group(h) : IsPoison(i) => batch[i] \in Handled
        BY <2>2, <2>4 DEF FlushProgress
    <2>7. \A i \in DOMAIN batch : HourOf[batch[i]] = h => batch[i] \in Handled'
        BY <1>g, <2>5, <2>6 DEF Group
    <2> HIDE DEF rest
    <2> QED
        BY <1>g, <2>2, <2>4, <2>7 DEF FlushProgress
<1>10. CASE FlushUploaded
    BY <1>10 DEF FlushUploaded, FlushProgress
<1>11. CASE FlushFailed
    BY <1>11, NoFlushProgress, StoppedProgress DEF FlushFailed, FlushProgress
<1>12. CASE Commit \/ CommitFails
    BY <1>12, NoFlushProgress DEF Commit, CommitFails
<1>13. CASE FinalCommit \/ Crash
    BY <1>13, StoppedProgress DEF FinalCommit, Crash
<1> QED
    BY <1>1, <1>2, <1>3, <1>4, <1>5, <1>6, <1>7, <1>8, <1>9, <1>10, <1>11, <1>12, <1>13
    DEF Next, Step, Failure
-----------------------------------------------------------------------------
(* The breaker's counter                                                   *)

\* A flush starts below the threshold, or in the finally clause.
LEMMA StepBreaker ==
    TypeOK /\ FlushProgress /\ BreakerCount /\ [Next]_vars => BreakerCount'
<1> SUFFICES ASSUME TypeOK, FlushProgress, BreakerCount, [Next]_vars,
                    pc' # "run", closing' = "no"
             PROVE  failures' < Threshold
    BY DEF BreakerCount
<1>0. Threshold \in Nat \ {0} /\ failures \in 0..Threshold
    BY SinkLimitAssumption DEF TypeOK
<1>1. ASSUME Stopped PROVE failures' < Threshold
    BY <1>0, <1>1 DEF Stopped
<1>2. ASSUME NEW es, NEW q, NEW c \in {"open", "closed"}, Finally(es, q, c)
      PROVE  failures' < Threshold
    BY <1>1, <1>2 DEF Finally
<1>3. CASE Poll \/ PollFails \/ Rejoin
    BY <1>0, <1>3 DEF Poll, PollFails, Rejoin, Polling, BreakerOpen
<1>4. CASE TornPoll \/ ReconnectFails \/ Interrupt
    BY <1>2, <1>4 DEF TornPoll, ReconnectFails, Interrupt
<1>5. CASE FlushFailed \/ FinalCommit \/ Crash
    BY <1>1, <1>5 DEF FlushFailed, FinalCommit, Crash
<1>6. CASE \/ Reconnect \/ Commit \/ Restart \/ Upload \/ FindPoison \/ DeadLetter
           \/ UploadRest \/ FlushUploaded \/ CommitFails
    BY <1>6 DEF Reconnect, Commit, Restart, Upload, FindPoison, DeadLetter, UploadRest,
       FlushUploaded, CommitFails, BreakerCount
<1>7. CASE Tick \/ Pause \/ UNCHANGED vars \/ \E e \in Event : Produce(e)
    BY <1>7 DEF Tick, Pause, vars, Produce, BreakerCount
<1> QED
    BY <1>3, <1>4, <1>5, <1>6, <1>7 DEF Next, Step, Failure

-----------------------------------------------------------------------------
(* What the process holds                                                  *)

\* A step either empties the process, or moves the buffer to the batch, or
\* keeps both; and a poll adds records of the log.
LEMMA FinallyHeld ==
    ASSUME NEW es, NEW q, NEW c, Finally(es, q, c)
    PROVE  /\ Held' \subseteq Range(es)
           /\ \/ position' = committed'
              \/ position' = q /\ Range(es) \subseteq Held'
BY DEF Finally, Stopped, Drain, NoFlush, Held, Range

LEMMA PollHeld ==
    ASSUME TypeOK, FlushProgress, Poll
    PROVE  \E q \in Ahead : \E o \in Orders(q) :
               position' = q /\ Held' = Held \union Range(EventsOf(o))
<1>1. PICK q \in Ahead : \E o \in Orders(q) :
          /\ position' = q
          /\ \/ Drain(buffer \o EventsOf(o))
             \/ buffer' = buffer \o EventsOf(o) /\ UNCHANGED flushVars
    BY DEF Poll
<1>2. PICK o \in Orders(q) :
          /\ position' = q
          /\ \/ Drain(buffer \o EventsOf(o))
             \/ buffer' = buffer \o EventsOf(o) /\ UNCHANGED flushVars
    BY <1>1
<1>3. Range(buffer \o EventsOf(o)) = Range(buffer) \union Range(EventsOf(o))
    BY PollFacts, RangeConcatenation DEF TypeOK
<1>4. batch = <<>> /\ Range(<<>>) = {}
    BY DEF Poll, Polling, FlushProgress, Range
<1>5. Held' = Held \union Range(EventsOf(o))
    BY <1>2, <1>3, <1>4 DEF Drain, Held
<1> QED
    BY <1>2, <1>5

\* Everything else leaves what is held, or clears it once it is disposed of, or
\* starts again from the committed offset.
LEMMA HeldStep ==
    ASSUME TypeOK, FlushProgress, [Next]_vars, ~Poll, ~TornPoll
    PROVE  /\ Held' \subseteq Held
           /\ \/ position' = committed'
              \/ position' = position /\ Held \subseteq Held' \union Handled'
<1>0. batch \in Seq(Event) /\ Range(<<>>) = {} /\ Handled \subseteq Handled'
    BY HandledStep DEF TypeOK, Range
<1>1. CASE Stopped
    BY <1>0, <1>1 DEF Stopped, NoFlush, Held
<1>2. CASE \/ PollFails \/ Tick \/ Pause \/ Upload \/ FindPoison \/ DeadLetter
           \/ UploadRest \/ UNCHANGED vars \/ \E e \in Event : Produce(e)
    BY <1>2 DEF PollFails, Tick, Pause, Upload, FindPoison, DeadLetter, UploadRest, vars,
       Produce, Publish, Held
<1>3. CASE Rejoin \/ Reconnect \/ Restart
    BY <1>3 DEF Rejoin, Reconnect, Restart, Rewind, Held
<1>4. CASE FlushUploaded \/ (FlushFailed /\ ~Stopped)
    <2>1. todo = {} /\ buffer = <<>> /\ batch' = <<>> /\ UNCHANGED <<buffer, position>>
        BY <1>4 DEF FlushUploaded, FlushFailed, NoFlush, FlushProgress
    <2>2. Range(batch) \subseteq Handled
        BY <2>1 DEF FlushProgress, Range
    <2> QED
        BY <1>0, <2>1, <2>2 DEF Held
<1>5. CASE Commit \/ CommitFails
    <2>1. buffer = <<>> /\ batch = <<>> /\ batch' = <<>> /\ UNCHANGED <<buffer, position>>
        BY <1>5 DEF Commit, CommitPolled, CommitFails, CommitInDoubt, NoFlush, FlushProgress
    <2> QED
        BY <1>0, <2>1 DEF Held
<1>6. CASE FlushFailed \/ FinalCommit \/ Crash
    BY <1>1, <1>4, <1>6 DEF FinalCommit, Crash
<1>7. CASE ReconnectFails \/ Interrupt
    <2>1. PICK c : Finally(buffer, position, c)
        BY <1>7 DEF ReconnectFails, Interrupt
    <2>2. /\ Held' \subseteq Range(buffer)
          /\ \/ position' = committed'
             \/ position' = position /\ Range(buffer) \subseteq Held'
        BY <2>1, FinallyHeld
    <2>3. CASE pc \notin {"put", "isolate"}
        BY <1>0, <2>2, <2>3 DEF FlushProgress, Held
    <2>4. CASE pc \in {"put", "isolate"}
        <3>1. buffer = <<>>
            BY <2>4 DEF FlushProgress
        <3>2. Stopped
            BY <2>1, <3>1 DEF Finally
        <3> QED
            BY <1>1, <3>2
    <2> QED
        BY <2>3, <2>4
<1> QED
    BY <1>2, <1>3, <1>4, <1>5, <1>6, <1>7 DEF Next, Step, Failure

\* Only commits move the committed offsets, and only producing writes the logs.
LEMMA CommittedStep ==
    ASSUME [Next]_vars, ~(Commit \/ CommitFails \/ FinalCommit)
    PROVE  UNCHANGED committed /\ (UNCHANGED log \/ \E e \in Event : Produce(e))
BY DEF Next, Step, Failure, Poll, TornPoll, PollFails, Rejoin, Reconnect, Rewind,
       ReconnectFails, Tick, Pause, Upload, FindPoison, DeadLetter, UploadRest,
       FlushUploaded, FlushFailed, Interrupt, Crash, Restart, Produce, Publish, vars

\* The logs keep their records.
LEMMA LogStep ==
    ASSUME TypeOK, [Next]_vars
    PROVE  /\ Logged \subseteq Logged'
           /\ \A p \in Partition : \A i \in 1..Len(log[p]) : log'[p][i] = log[p][i]
<1>1. CASE UNCHANGED log
    BY <1>1 DEF Logged
<1>2. ASSUME NEW e \in Event, Publish(e)
      PROVE  /\ Logged \subseteq Logged'
             /\ \A p \in Partition : \A i \in 1..Len(log[p]) : log'[p][i] = log[p][i]
    <2>1. \A p \in Partition :
              /\ Len(log[p]) \in Nat /\ Len(log'[p]) \in Nat
              /\ Len(log[p]) =< Len(log'[p])
              /\ \A i \in 1..Len(log[p]) : log'[p][i] = log[p][i]
        BY <1>2, PublishAppends DEF TypeOK
    <2>2. ASSUME NEW p \in Partition, NEW i \in 1..Len(log[p])
          PROVE  i \in 1..Len(log'[p]) /\ log'[p][i] = log[p][i]
        BY <2>1
    <2> QED
        BY <2>2 DEF Logged
<1> QED
    BY <1>1, <1>2, OffsetStep DEF TopicStep
\* The events held are records of the log.
LEMMA StepHeld ==
    TypeOK /\ FlushProgress /\ HeldIsLogged /\ [Next]_vars => HeldIsLogged'
<1> SUFFICES ASSUME TypeOK, FlushProgress, HeldIsLogged, [Next]_vars
             PROVE  Held' \subseteq Logged'
    BY DEF HeldIsLogged
<1>1. Held \subseteq Logged /\ Logged \subseteq Logged'
    BY LogStep DEF HeldIsLogged
<1>2. CASE Poll
    <2>1. PICK q \in Ahead : \E o \in Orders(q) : Held' = Held \union Range(EventsOf(o))
        BY <1>2, PollHeld
    <2>2. PICK o \in Orders(q) : Held' = Held \union Range(EventsOf(o))
        BY <2>1
    <2>3. Range(EventsOf(o)) \subseteq Logged
        BY FetchedEvents DEF TypeOK
    <2> QED
        BY <1>1, <2>2, <2>3
<1>3. CASE TornPoll
    <2>0. PICK q \in Ahead : \E o \in Orders(q) : \E n \in 0..(Len(o) - 1) :
              Finally(buffer \o SubSeq(EventsOf(o), 1, n), q, "open")
        BY <1>3 DEF TornPoll
    <2>1. PICK o \in Orders(q) : \E n \in 0..(Len(o) - 1) :
              Finally(buffer \o SubSeq(EventsOf(o), 1, n), q, "open")
        BY <2>0
    <2>2. PICK n \in 0..(Len(o) - 1) :
              Finally(buffer \o SubSeq(EventsOf(o), 1, n), q, "open")
        BY <2>1
    <2> DEFINE part == SubSeq(EventsOf(o), 1, n)
    <2>3. Len(EventsOf(o)) = Len(o) /\ Len(o) \in Nat
        BY FetchedEvents DEF TypeOK
    <2>4. part \in Seq(Event) /\ EventsOf(o) \in Seq(Event)
        BY TornPollFacts, FetchedEvents DEF TypeOK
    <2>5. Range(part) \subseteq Range(EventsOf(o))
        <3>1. Len(part) = n /\ \A i \in 1..n : part[i] = EventsOf(o)[i]
            BY <2>3, <2>4, SubSeqProperties
        <3>2. Range(part) = {part[i] : i \in 1..n}
            BY <2>4, <3>1, RangeEquality
        <3>3. Range(EventsOf(o)) = {EventsOf(o)[i] : i \in 1..Len(o)}
            BY <2>3, <2>4, RangeEquality
        <3>4. \A i \in 1..n : i \in 1..Len(o)
            BY <2>3
        <3> HIDE DEF part
        <3> QED
            BY <3>1, <3>2, <3>3, <3>4
    <2>6. Range(EventsOf(o)) \subseteq Logged
        BY FetchedEvents DEF TypeOK
    <2>7. Range(buffer \o part) = Range(buffer) \union Range(part)
        <3>1. buffer \in Seq(Event)
            BY DEF TypeOK
        <3> HIDE DEF part
        <3> QED
            BY <2>4, <3>1, RangeConcatenation
    <2>8. Held' \subseteq Range(buffer \o part)
        BY <2>2, FinallyHeld
    <2> QED
        BY <1>1, <2>5, <2>6, <2>7, <2>8 DEF Held
<1>4. CASE ~Poll /\ ~TornPoll
    BY <1>1, <1>4, HeldStep
<1> QED
    BY <1>2, <1>3, <1>4

-----------------------------------------------------------------------------
(* At-least-once delivery                                                  *)

\* Faults are never taken back.
LEMMA UntornBefore == TypeOK /\ [Next]_vars /\ Untorn' => Untorn
<1> SUFFICES ASSUME TypeOK, [Next]_vars PROVE Untorn' => Untorn
    OBVIOUS
<1> USE DEF Untorn, Fault, FaultKind
<1>1. CASE UNCHANGED faults
    BY <1>1
<1>2. ASSUME NEW k \in FaultKind, Fault(k) PROVE Untorn' => Untorn
    BY <1>2 DEF TypeOK
<1>3. UNCHANGED faults \/ \E k \in FaultKind : Fault(k)
    BY DEF Next, Step, Failure, Poll, TornPoll, PollFails, Rejoin, Reconnect,
       ReconnectFails, Tick, Pause, Upload, PutSucceeds, PutFails, FindPoison,
       DeadLetter, UploadRest, FlushUploaded, FlushFailed, Commit, CommitFails,
       FinalCommit, Interrupt, Crash, Restart, Produce, vars
<1> QED
    BY <1>1, <1>2, <1>3

LEMMA TornPollTears == TypeOK /\ TornPoll => ~Untorn'
BY DEF TypeOK, TornPoll, Fault, FaultKind, Untorn

\* Between the committed offset and the position every record is disposed of
\* or still held.
LEMMA StepAccounted ==
    TypeOK /\ OffsetsInRange /\ FlushProgress /\ PolledAccounted /\ [Next]_vars
    => PolledAccounted'
<1> SUFFICES ASSUME TypeOK, OffsetsInRange, FlushProgress, PolledAccounted, [Next]_vars,
                    Untorn',
                    NEW p \in Partition, NEW i \in (committed'[p] + 1)..position'[p]
             PROVE  log'[p][i] \in Handled' \union Held'
    BY DEF PolledAccounted
<1>1. Untorn /\ ~TornPoll /\ Handled \subseteq Handled'
    BY UntornBefore, TornPollTears, HandledStep
<1>2. /\ committed[p] \in Nat /\ position[p] \in Nat /\ committed'[p] \in Nat
      /\ log[p] \in Seq(Event) /\ Len(log[p]) \in Nat /\ position[p] =< Len(log[p])
    <2>1. TopicTypeOK'
        BY OffsetStep, TopicStepOffsets DEF TypeOK
    <2> QED
        BY <2>1, LenProperties DEF TypeOK, OffsetsInRange
<1>3. \A k \in (committed[p] + 1)..position[p] : log[p][k] \in Handled \union Held
    BY <1>1 DEF PolledAccounted
<1>4. CASE Poll
    <2>1. PICK q \in Ahead : \E o \in Orders(q) :
              position' = q /\ Held' = Held \union Range(EventsOf(o))
        BY <1>4, PollHeld
    <2>2. PICK o \in Orders(q) : position' = q /\ Held' = Held \union Range(EventsOf(o))
        BY <2>1
    <2>3. /\ q[p] \in Nat
          /\ \A k \in (position[p] + 1)..q[p] : log[p][k] \in Range(EventsOf(o))
        BY FetchedEvents DEF TypeOK
    <2>4. UNCHANGED <<log, committed>>
        BY <1>4 DEF Poll
    <2>5. i \in (committed[p] + 1)..position[p] \/ i \in (position[p] + 1)..q[p]
        BY <1>2, <2>2, <2>3, <2>4
    <2> QED
        BY <1>1, <1>3, <2>2, <2>3, <2>4, <2>5
<1>5. CASE ~Poll
    <2>1. \/ position' = committed'
          \/ position' = position /\ Held \subseteq Held' \union Handled'
        BY <1>1, <1>5, HeldStep
    <2>2. position'[p] # committed'[p]
        BY <1>2
    <2>3. position' = position /\ Held \subseteq Held' \union Handled'
        BY <2>1, <2>2
    <2>4. committed[p] =< committed'[p]
        BY <1>2, <2>2, <2>3, OffsetStep DEF TopicStep, Publish, OffsetsInRange
    <2>5. i \in (committed[p] + 1)..position[p] /\ i \in 1..Len(log[p])
        BY <1>2, <2>3, <2>4
    <2>6. log'[p][i] = log[p][i]
        BY <2>5, LogStep
    <2> QED
        BY <1>1, <1>3, <2>3, <2>5, <2>6
<1> QED
    BY <1>4, <1>5

\* The offsets move at a commit only, when nothing is held.
LEMMA StepAtLeastOnce ==
    TypeOK /\ OffsetsInRange /\ FlushProgress /\ PolledAccounted /\ AtLeastOnce
    /\ [Next]_vars => AtLeastOnce'
<1> SUFFICES ASSUME TypeOK, OffsetsInRange, FlushProgress, PolledAccounted, AtLeastOnce,
                    [Next]_vars, Untorn',
                    NEW p \in Partition, NEW i \in 1..committed'[p]
             PROVE  log'[p][i] \in Handled'
    BY DEF AtLeastOnce, CommittedHandled
<1>1. Untorn /\ Handled \subseteq Handled'
    BY UntornBefore, HandledStep
<1>2. /\ committed[p] \in Nat /\ position[p] \in Nat
      /\ log[p] \in Seq(Event) /\ Len(log[p]) \in Nat
      /\ committed[p] =< position[p] /\ position[p] =< Len(log[p])
    BY LenProperties DEF TypeOK, OffsetsInRange
<1>3. \A k \in 1..committed[p] : log[p][k] \in Handled
    BY <1>1 DEF AtLeastOnce, CommittedHandled
<1>4. CASE Commit \/ CommitFails \/ FinalCommit
    <2>1. UNCHANGED log /\ committed' \in {committed, position}
        BY <1>4 DEF Commit, CommitPolled, CommitFails, CommitInDoubt, FinalCommit
    <2>2. Held = {}
        BY <1>4 DEF Commit, CommitFails, FinalCommit, FlushProgress, Held, Range
    <2>3. \A k \in (committed[p] + 1)..position[p] : log[p][k] \in Handled
        BY <1>1, <2>2 DEF PolledAccounted
    <2>4. i \in 1..committed[p] \/ i \in (committed[p] + 1)..position[p]
        BY <1>2, <2>1
    <2> QED
        BY <1>1, <1>3, <2>1, <2>3, <2>4
<1>5. CASE ~(Commit \/ CommitFails \/ FinalCommit)
    <2>1. UNCHANGED committed
        BY <1>5, CommittedStep
    <2>2. i \in 1..Len(log[p])
        BY <1>2, <2>1
    <2>3. log'[p][i] = log[p][i]
        BY <2>2, LogStep
    <2> QED
        BY <1>1, <1>3, <2>1, <2>3
<1> QED
    BY <1>4, <1>5

LEMMA InitIInv == Init => IInv
<1> SUFFICES ASSUME Init PROVE IInv
    OBVIOUS
<1>1. TypeOK
    BY InitTyped
<1>2. OffsetsInRange /\ FlushProgress /\ BreakerCount /\ HeldIsLogged
    BY DEF Init, OffsetsInRange, FlushProgress, BreakerCount, HeldIsLogged, Held, Range
<1>3. PolledAccounted /\ AtLeastOnce
    BY DEF Init, PolledAccounted, AtLeastOnce, CommittedHandled
<1> QED
    BY <1>1, <1>2, <1>3 DEF IInv

LEMMA StepIInv == IInv /\ [Next]_vars => IInv'
BY StepTyped, StepOffsets, StepProgress, StepBreaker, StepHeld, StepAccounted,
   StepAtLeastOnce DEF IInv

\* The inductive invariant holds for any number of events, partitions and failures.
THEOREM Invariance == Spec => []IInv
    BY InitIInv, StepIInv, PTL DEF Spec

\* Every reachable state is well typed; the breaker's counter never passes its
\* threshold.
THEOREM TypeCorrect == Spec => []TypeOK
<1>1. IInv => TypeOK
    BY DEF IInv
<1> QED
    BY <1>1, Invariance, PTL

\* No record is acknowledged before its upload or its dead letter was tried,
\* through failed uploads, poison groups, reconnections, crashes and restarts,
\* unless Ctrl-C tore a poll.
THEOREM DeliveredAtLeastOnce == Spec => []AtLeastOnce
<1>1. IInv => AtLeastOnce
    BY DEF IInv
<1> QED
    BY <1>1, Invariance, PTL

-----------------------------------------------------------------------------
(* RawSink implements Delivery                                             *)

LEMMA InitAbstract == Init => Abstract!Init
BY DEF Init, Abstract!Init, Handled, Archived

\* A commit is an Acknowledge, an upload or a dead letter a Handle.
LEMMA StepAbstract ==
    IInv /\ Untorn' /\ [Next]_vars => [Abstract!Next]_(Abstract!deliveryVars)
<1> SUFFICES ASSUME IInv, Untorn', [Next]_vars
             PROVE  Abstract!Next \/ UNCHANGED Abstract!deliveryVars
    OBVIOUS
<1>1. TypeOK /\ OffsetsInRange /\ FlushProgress /\ HeldIsLogged
    BY DEF IInv
<1>2. CASE Commit \/ CommitFails \/ FinalCommit
    <2>1. /\ UNCHANGED <<log, Handled>>
          /\ committed' \in {committed, position}
        BY <1>2 DEF Commit, CommitPolled, CommitFails, CommitInDoubt, FinalCommit,
           Handled, Archived
    <2>2. committed' \in [Partition -> Nat]
        BY <1>1, <2>1 DEF TypeOK
    <2>3. \A p \in Partition : committed[p] =< committed'[p] /\ committed'[p] =< Len(log[p])
        BY <1>1, <2>1, LenProperties DEF OffsetsInRange, TypeOK
    <2>4. \A p \in Partition : \A i \in 1..committed'[p] : log[p][i] \in Handled
        BY <2>1, StepIInv DEF IInv, AtLeastOnce, CommittedHandled
    <2>5. \A p \in Partition : \A i \in (committed[p] + 1)..committed'[p] :
              log[p][i] \in Handled
        BY <1>1, <2>2, <2>4 DEF TypeOK
    <2> QED
        BY <2>1, <2>2, <2>3, <2>5 DEF Abstract!Next, Abstract!Acknowledge
<1>3. ASSUME NEW e \in Event, Produce(e)
      PROVE  Abstract!Next
    <2>1. PartitionOf[VesselOf[e]] \in Partition
        BY TopicAssumption
    <2>2. UNCHANGED <<Handled, committed>>
        BY <1>3 DEF Produce, Publish, Handled, Archived
    <2> QED
        BY <1>3, <2>1, <2>2 DEF Produce, Publish, Abstract!Next, Abstract!Produce
<1>4. CASE ~(Commit \/ CommitFails \/ FinalCommit \/ \E e \in Event : Produce(e))
    <2>1. UNCHANGED <<log, committed>>
        BY <1>4, CommittedStep
    <2>2. Handled \subseteq Handled' /\ Handled' \subseteq Handled \union Logged
        BY <1>1, HandledStep DEF HeldIsLogged, Held
    <2> QED
        BY <2>1, <2>2 DEF Abstract!Next, Abstract!Handle, Abstract!Logged, Logged
<1> QED
    BY <1>2, <1>3, <1>4

\* As long as Ctrl-C does not tear a poll, the service implements at-least-once
\* delivery.
THEOREM Implementation == Spec /\ []Untorn => ImplementsDelivery
    BY InitAbstract, StepAbstract, Invariance, PTL
       DEF Spec, ImplementsDelivery, Abstract!Spec

-----------------------------------------------------------------------------
(* What is dropped                                                         *)

\* The count of failures of a kind never goes down.
LEMMA FaultCounts ==
    ASSUME TypeOK, NEW k \in FaultKind, Fault(k)
    PROVE  \A j \in FaultKind : faults[j] =< faults'[j] /\ (j = k => faults'[j] > 0)
BY DEF TypeOK, Fault

\* Nothing is dropped while S3 and the dead-letter topic answer.
NothingDropped == faults["s3"] = 0 /\ faults["dlq"] = 0 => dropped = {}

LEMMA StepDropped == TypeOK /\ NothingDropped /\ [Next]_vars => NothingDropped'
<1> DEFINE Counts == \A j \in FaultKind : faults[j] =< faults'[j]
           Keeps == dropped' = dropped
           Tells == faults'["s3"] > 0 \/ faults'["dlq"] > 0
<1> SUFFICES ASSUME TypeOK, NothingDropped, [Next]_vars PROVE Counts /\ (Keeps \/ Tells)
    BY DEF NothingDropped, TypeOK, FaultKind
<1>1. UNCHANGED faults => Counts
    BY DEF TypeOK
<1>2. \A k \in FaultKind : Fault(k) => Counts
    BY FaultCounts
<1>3. Fault("s3") \/ Fault("dlq") => Tells
    BY FaultCounts DEF FaultKind
<1> HIDE DEF Counts, Tells
<1>4. ASSUME NEW rows, PutSucceeds(rows) \/ PutFails(rows) PROVE Counts /\ (Keeps \/ Tells)
    BY <1>1, <1>2, <1>3, <1>4 DEF PutSucceeds, PutFails, FaultKind
<1>5. CASE Upload
    BY <1>4, <1>5 DEF Upload
<1>6. CASE UploadRest
    <2>1. PICK h \in todo : LET rest == {i \in Group(h) : ~IsPoison(i)}
                            IN  \/ UNCHANGED <<archive, dropped, faults>>
                                \/ PutSucceeds(rest)
                                \/ PutFails(rest)
        BY <1>6 DEF UploadRest
    <2> QED
        BY <1>1, <1>4, <2>1
<1>7. CASE DeadLetter
    BY <1>1, <1>2, <1>3, <1>7 DEF DeadLetter, FaultKind
<1>8. CASE \/ Poll \/ Reconnect \/ Pause \/ FindPoison \/ FlushUploaded \/ FlushFailed
           \/ Commit \/ Restart \/ Tick \/ UNCHANGED vars \/ \E e \in Event : Produce(e)
    BY <1>1, <1>8 DEF Poll, Reconnect, Pause, FindPoison, FlushUploaded, FlushFailed,
       Commit, Restart, Tick, vars, Produce
<1>9. CASE Failure \/ FinalCommit
    BY <1>1, <1>2, <1>9 DEF Failure, TornPoll, PollFails, Rejoin, ReconnectFails,
       CommitFails, Interrupt, Crash, FinalCommit, FaultKind
<1> QED
    BY <1>5, <1>6, <1>7, <1>8, <1>9 DEF Next, Step

\* NoSilentDrop: every acknowledged record is in an object or in the dead-letter
\* topic, across broker failures, stops and restarts, while S3 and that topic
\* answer.
THEOREM NothingDroppedSilently == Spec => []NoSilentDrop
<1>1. Init => NothingDropped
    BY DEF Init, NothingDropped
<1>2. AtLeastOnce /\ NothingDropped => NoSilentDrop
    BY DEF AtLeastOnce, NothingDropped, NoSilentDrop, CommittedHandled, CommittedStored, Handled
<1> QED
    BY <1>1, <1>2, StepDropped, TypeCorrect, DeliveredAtLeastOnce, PTL DEF Spec

-----------------------------------------------------------------------------
(* The bound on memory                                                     *)

\* What MaxPoll events for each of f failures, and one more, come to.
LEMMA Allowances ==
    /\ \A f \in Nat : MaxPoll * f \in Nat /\ MaxPoll * (f + 1) = MaxPoll * f + MaxPoll
    /\ \A f, g \in Nat : f =< g => MaxPoll * f =< MaxPoll * g
<1>1. MaxPoll \in Nat
    BY TopicAssumption
<1>2. \A f \in Nat : MaxPoll * f \in Nat /\ MaxPoll * (f + 1) = MaxPoll * f + MaxPoll
    BY <1>1
<1>3. ASSUME NEW f \in Nat, NEW g \in Nat, f =< g PROVE MaxPoll * f =< MaxPoll * g
    <2>1. g - f \in Nat /\ g = f + (g - f)
        BY <1>3
    <2>2. MaxPoll * (g - f) \in Nat
        BY <1>2, <2>1
    <2>3. MaxPoll * g = MaxPoll * f + MaxPoll * (g - f)
        BY <1>1, <2>1
    <2> QED
        BY <1>1, <1>2, <2>2, <2>3
<1> QED
    BY <1>2, <1>3

\* The buffer outgrows a batch by at most one poll for each failure counted so
\* far; a reconnection counts the failure that its last poll made.
Outgrows(n, f) == n =< MaxRows - 1 + MaxPoll * f
BufferPerFailure ==
    /\ pc = "run" => Outgrows(Len(buffer), failures)
    /\ pc = "reconnect" => Outgrows(Len(buffer), failures + 1)
    /\ pc = "down" => buffer = <<>>
    /\ Outgrows(Len(batch), Threshold)

LEMMA StepPerFailure ==
    TypeOK /\ FlushProgress /\ BreakerCount /\ BufferPerFailure /\ [Next]_vars => BufferPerFailure'
<1> SUFFICES ASSUME TypeOK, FlushProgress, BreakerCount, BufferPerFailure, [Next]_vars
             PROVE  BufferPerFailure'
    OBVIOUS
<1>0. /\ MaxRows \in Nat \ {0} /\ MaxPoll \in Nat /\ Threshold \in Nat /\ failures \in 0..Threshold
      /\ buffer \in Seq(Event) /\ Len(buffer) \in Nat
      /\ batch \in Seq(Event) /\ Len(batch) \in Nat /\ Len(<<>>) = 0
    BY LenProperties, SinkLimitAssumption, TopicAssumption DEF TypeOK
<1>1. \A f \in Nat : MaxPoll * f \in Nat /\ MaxPoll * (f + 1) = MaxPoll * f + MaxPoll
    BY Allowances
<1>2. \A f, g \in Nat : f =< g => MaxPoll * f =< MaxPoll * g
    BY Allowances
<1>3. \A f \in Nat : Outgrows(0, f)
    BY <1>0, <1>1 DEF Outgrows
<1>4. ASSUME NEW n \in Nat, NEW f \in 0..Threshold, Outgrows(n, f)
      PROVE  Outgrows(n, Threshold)
    BY <1>0, <1>1, <1>2, <1>4 DEF Outgrows
<1>5. ASSUME batch' = <<>> \/ UNCHANGED batch PROVE Outgrows(Len(batch'), Threshold)
    BY <1>0, <1>3, <1>5 DEF BufferPerFailure
<1>6. ASSUME buffer' = <<>>, batch' = <<>> \/ UNCHANGED batch, failures' \in Nat
      PROVE  BufferPerFailure'
    BY <1>0, <1>3, <1>5, <1>6 DEF BufferPerFailure
<1>7. ASSUME NEW es \in Seq(Event), Outgrows(Len(es), Threshold), Drain(es)
      PROVE  BufferPerFailure'
    BY <1>7 DEF Drain, BufferPerFailure
<1>8. ASSUME Stopped PROVE BufferPerFailure'
    BY <1>0, <1>3, <1>8 DEF Stopped, NoFlush, BufferPerFailure
<1>9. ASSUME NEW es \in Seq(Event), Outgrows(Len(es), Threshold), NEW q, NEW c, Finally(es, q, c)
      PROVE  BufferPerFailure'
    BY <1>7, <1>8, <1>9 DEF Finally
<1>10. ASSUME Polling, NEW es \in Seq(Event), Len(es) \in 0..MaxPoll
       PROVE  /\ buffer \o es \in Seq(Event) /\ Len(buffer \o es) \in Nat
              /\ failures + 1 \in 0..Threshold
              /\ Outgrows(Len(buffer \o es), failures + 1)
    <2>1. Outgrows(Len(buffer), failures)
        BY <1>10 DEF Polling, BufferPerFailure
    <2>2. /\ buffer \o es \in Seq(Event) /\ Len(buffer \o es) \in Nat
          /\ Len(buffer \o es) = Len(buffer) + Len(es)
        BY <1>0, <1>10, ConcatProperties, LenProperties
    <2>3. failures \in Nat /\ failures + 1 \in 0..Threshold
        BY <1>0, <1>10 DEF Polling, BreakerOpen
    <2> QED
        BY <1>0, <1>1, <1>10, <2>1, <2>2, <2>3 DEF Outgrows
<1>11. CASE Poll
    <2>1. PICK q \in Ahead : \E o \in Orders(q) :
              LET es == buffer \o EventsOf(o)
                  t  == TimerAfter(EventsOf(o))
              IN  \/ /\ ~ShouldFlush(es, t)
                     /\ buffer' = es
                     /\ UNCHANGED <<flushVars, pc>>
                  \/ Drain(es)
                  \/ /\ buffer' = es
                     /\ pc' = "reconnect"
                     /\ UNCHANGED flushVars
        BY <1>11 DEF Poll
    <2>2. PICK o \in Orders(q) :
              LET es == buffer \o EventsOf(o)
                  t  == TimerAfter(EventsOf(o))
              IN  \/ /\ ~ShouldFlush(es, t)
                     /\ buffer' = es
                     /\ UNCHANGED <<flushVars, pc>>
                  \/ Drain(es)
                  \/ /\ buffer' = es
                     /\ pc' = "reconnect"
                     /\ UNCHANGED flushVars
        BY <2>1
    <2> DEFINE es == buffer \o EventsOf(o)
               t  == TimerAfter(EventsOf(o))
    <2>3. EventsOf(o) \in Seq(Event) /\ Len(EventsOf(o)) \in 0..MaxPoll
        BY PollFacts
    <2>4. /\ es \in Seq(Event) /\ Len(es) \in Nat /\ failures + 1 \in 0..Threshold
          /\ Outgrows(Len(es), failures + 1)
        BY <1>10, <1>11, <2>3 DEF Poll
    <2>5. UNCHANGED failures /\ pc = "run"
        BY <1>11 DEF Poll, Polling
    <2>6. \/ ~ShouldFlush(es, t) /\ buffer' = es /\ UNCHANGED <<flushVars, pc>>
          \/ Drain(es)
          \/ buffer' = es /\ pc' = "reconnect" /\ UNCHANGED flushVars
        BY <2>2
    <2> HIDE DEF es, t
    <2>7. CASE ~ShouldFlush(es, t) /\ buffer' = es /\ UNCHANGED <<flushVars, pc>>
        <3>1. es = <<>> \/ Len(es) < MaxRows
            BY <1>0, <2>4, <2>7 DEF ShouldFlush
        <3>2. Outgrows(Len(es), failures)
            <4>1. Len(es) =< MaxRows - 1
                BY <1>0, <2>4, <3>1
            <4>2. failures \in Nat /\ MaxPoll * failures \in Nat
                BY <1>0, <1>1
            <4> QED
                BY <1>0, <2>4, <4>1, <4>2 DEF Outgrows
        <3>3. pc' = "run" /\ Len(buffer') = Len(es) /\ failures' = failures /\ batch' = batch
            BY <2>5, <2>7
        <3> QED
            BY <1>5, <3>2, <3>3 DEF BufferPerFailure
    <2>8. CASE Drain(es)
        BY <1>4, <1>7, <2>4, <2>8
    <2>9. CASE buffer' = es /\ pc' = "reconnect" /\ UNCHANGED flushVars
        BY <1>5, <2>4, <2>5, <2>9 DEF BufferPerFailure
    <2> QED
        BY <2>6, <2>7, <2>8, <2>9
<1>12. CASE TornPoll
    <2>1. PICK q \in Ahead : \E o \in Orders(q) : \E n \in 0..(Len(o) - 1) :
              Finally(buffer \o SubSeq(EventsOf(o), 1, n), q, "open")
        BY <1>12 DEF TornPoll
    <2>2. PICK o \in Orders(q) : \E n \in 0..(Len(o) - 1) :
              Finally(buffer \o SubSeq(EventsOf(o), 1, n), q, "open")
        BY <2>1
    <2>3. PICK n \in 0..(Len(o) - 1) :
              Finally(buffer \o SubSeq(EventsOf(o), 1, n), q, "open")
        BY <2>2
    <2> DEFINE es == SubSeq(EventsOf(o), 1, n)
    <2>4. es \in Seq(Event) /\ Len(es) \in 0..MaxPoll
        BY TornPollFacts
    <2> HIDE DEF es
    <2>5. /\ buffer \o es \in Seq(Event) /\ Len(buffer \o es) \in Nat
          /\ failures + 1 \in 0..Threshold
          /\ Outgrows(Len(buffer \o es), failures + 1)
        BY <1>10, <1>12, <2>4 DEF TornPoll
    <2>6. Outgrows(Len(buffer \o es), Threshold)
        BY <1>4, <2>5
    <2>7. Finally(buffer \o es, q, "open")
        BY <2>3 DEF es
    <2> QED
        BY <1>9, <2>5, <2>6, <2>7
<1>13. CASE ReconnectFails \/ Interrupt
    <2>1. PICK c \in {"open", "closed"} : Finally(buffer, position, c)
        BY <1>13 DEF ReconnectFails, Interrupt
    <2>2. CASE pc \in {"put", "isolate", "commit"}
        <3>1. Outgrows(Len(buffer), Threshold)
            BY <1>0, <1>3, <2>2 DEF FlushProgress
        <3> QED
            BY <1>0, <1>9, <2>1, <3>1
    <2>3. CASE pc = "run"
        BY <1>0, <1>4, <1>9, <2>1, <2>3 DEF BufferPerFailure
    <2>4. CASE pc = "reconnect"
        <3>1. failures + 1 \in 0..Threshold
            BY <1>0, <2>4 DEF FlushProgress, BreakerCount
        <3> QED
            BY <1>0, <1>4, <1>9, <2>1, <2>4, <3>1 DEF BufferPerFailure
    <2> QED
        BY <1>13, <2>2, <2>3, <2>4 DEF ReconnectFails, Interrupt, TypeOK, Location
<1>14. CASE PollFails
    BY <1>0, <1>1, <1>5, <1>14 DEF PollFails, Polling, BufferPerFailure, Outgrows
<1>15. CASE Reconnect
    BY <1>5, <1>15 DEF Reconnect, BufferPerFailure
<1>16. CASE FlushFailed
    <2>1. CASE Stopped
        BY <1>8, <2>1
    <2>2. CASE failures' = failures + 1 /\ NoFlush /\ UNCHANGED bufferVars
        <3>1. buffer' = <<>> /\ batch' = <<>> /\ failures' \in Nat
            BY <1>0, <1>16, <2>2 DEF FlushFailed, FlushProgress, NoFlush
        <3> QED
            BY <1>6, <3>1
    <2> QED
        BY <1>16, <2>1, <2>2 DEF FlushFailed
<1>17. CASE Commit \/ CommitFails
    <2>1. buffer' = <<>> /\ batch' = <<>> /\ failures' \in Nat
        BY <1>0, <1>17 DEF Commit, CommitFails, FlushProgress, NoFlush
    <2> QED
        BY <1>6, <2>1
<1>18. CASE FinalCommit \/ Crash
    BY <1>8, <1>18 DEF FinalCommit, Crash
<1>19. CASE Restart
    BY <1>0, <1>1, <1>5, <1>19 DEF Restart, BufferPerFailure, Outgrows
<1>20. CASE Upload \/ FindPoison \/ DeadLetter \/ UploadRest \/ FlushUploaded
    <2>1. buffer' = <<>> /\ (batch' = <<>> \/ UNCHANGED batch) /\ failures' \in Nat
        BY <1>0, <1>20 DEF Upload, FindPoison, DeadLetter, UploadRest, FlushUploaded, FlushProgress
    <2> QED
        BY <1>6, <2>1
<1>21. CASE \/ Rejoin \/ Tick \/ Pause \/ UNCHANGED vars \/ \E e \in Event : Produce(e)
    BY <1>21 DEF Rejoin, Tick, Pause, vars, Produce, BufferPerFailure
<1> QED
    BY <1>11, <1>12, <1>13, <1>14, <1>15, <1>16, <1>17, <1>18, <1>19, <1>20, <1>21
       DEF Next, Step, Failure

\* BufferBounded: whatever fails, the memory in use is one batch and one poll for
\* each failure that the breaker allows.
THEOREM MemoryBounded == Spec => []BufferBounded
<1>1. Init => BufferPerFailure
    <2> SUFFICES ASSUME Init PROVE BufferPerFailure
        OBVIOUS
    <2>1. MaxRows \in Nat \ {0} /\ MaxPoll * 0 \in Nat /\ MaxPoll * Threshold \in Nat
        BY Allowances, SinkLimitAssumption
    <2> QED
        BY <2>1 DEF Init, BufferPerFailure, Outgrows
<1>2. IInv /\ BufferPerFailure => BufferBounded
    <2> SUFFICES ASSUME IInv, BufferPerFailure PROVE BufferBounded
        OBVIOUS
    <2>1. /\ TypeOK /\ FlushProgress /\ BreakerCount /\ failures \in 0..Threshold
          /\ Threshold \in Nat /\ MaxRows \in Nat \ {0} /\ MaxPoll \in Nat
          /\ Len(buffer) \in Nat /\ Len(batch) \in Nat /\ Len(<<>>) = 0
        BY LenProperties, SinkLimitAssumption, TopicAssumption DEF IInv, TypeOK
    <2>2. MaxPoll * failures =< MaxPoll * Threshold /\ MaxPoll * Threshold \in Nat
        BY <2>1, Allowances
    <2>3. CASE pc \in {"put", "isolate", "commit"}
        BY <2>1, <2>3 DEF FlushProgress, BufferPerFailure, Outgrows, BufferBounded
    <2>4. CASE pc = "run"
        BY <2>1, <2>2, <2>4 DEF FlushProgress, BufferPerFailure, Outgrows, BufferBounded
    <2>5. CASE pc = "reconnect"
        <3>1. failures + 1 \in Nat /\ failures + 1 =< Threshold
            BY <2>1, <2>5 DEF FlushProgress, BreakerCount
        <3>2. MaxPoll * (failures + 1) =< MaxPoll * Threshold
            BY <2>1, <3>1, Allowances
        <3> QED
            BY <2>1, <2>5, <3>2 DEF FlushProgress, BufferPerFailure, Outgrows, BufferBounded
    <2>6. CASE pc = "down"
        BY <2>1, <2>2, <2>6 DEF FlushProgress, BufferPerFailure, Outgrows, BufferBounded
    <2> QED
        BY <2>1, <2>3, <2>4, <2>5, <2>6 DEF TypeOK, Location
<1>3. IInv => TypeOK /\ FlushProgress /\ BreakerCount
    BY DEF IInv
<1> QED
    BY <1>1, <1>2, <1>3, StepPerFailure, Invariance, PTL DEF Spec

-----------------------------------------------------------------------------
(* How often an event is archived                                          *)

\* The records of an event that the group had polled when its position was at,
\* and the indices at which a sequence of events holds it.
RecordsOf(e) == {r \in Partition \X (1..MaxLog) : r[2] =< Len(log[r[1]]) /\ log[r[1]][r[2]] = e}
Polled(e, at) == {r \in RecordsOf(e) : r[2] =< at[r[1]]}
Places(e, es) == {i \in DOMAIN es : es[i] = e}

\* Where the drained batch holds an event whose hour is not flushed yet.
Pending(e) == {i \in Places(e, batch) : HourOf[e] \in todo}

\* What is archived, buffered or pending of an event was polled, each time anew.
ArchivedFromPolled ==
    \A e \in Event : Cardinality(CopiesOf(e)) + Cardinality(Places(e, buffer))
                        + Cardinality(Pending(e)) =< Cardinality(Polled(e, position))

\* That is so while the buffer can be drained.  Once it holds an event without a
\* partition key nothing is uploaded any more, and the reconnections that follow
\* read records again to no effect on the archive.
OnceInv ==
    Unreplayed => /\ closing = "no" /\ pc # "down"
                  /\ IF Keyed(buffer)
                     THEN pc # "reconnect" /\ ArchivedFromPolled
                     ELSE ArchivedOnce

\* What is counted is finite.
FiniteCounts == \A e \in Event : IsFiniteSet(RecordsOf(e)) /\ IsFiniteSet(CopiesOf(e))

LEMMA PlacesFinite ==
    ASSUME NEW e, NEW es \in Seq(Event)
    PROVE  IsFiniteSet(Places(e, es)) /\ Cardinality(Places(e, es)) \in Nat
<1>1. Places(e, es) \subseteq 1..Len(es) /\ Len(es) \in Nat
    BY LenProperties DEF Places
<1>2. IsFiniteSet(1..Len(es))
    BY <1>1, FS_Interval
<1>3. IsFiniteSet(Places(e, es))
    BY <1>1, <1>2, FS_Subset
<1> QED
    BY <1>3, FS_CardinalityType

\* A sequence appended to another adds no event more often than it holds it.
LEMMA PlacesConcat ==
    ASSUME NEW e, NEW s \in Seq(Event), NEW t \in Seq(Event)
    PROVE  Cardinality(Places(e, s \o t))
              =< Cardinality(Places(e, s)) + Cardinality(Places(e, t))
<1> DEFINE Both == Places(e, s \o t)
           Early == Places(e, s)
           Added == Both \ Early
           f == [i \in Added |-> i - Len(s)]
<1>1. /\ Len(s) \in Nat /\ Len(t) \in Nat /\ DOMAIN s = 1..Len(s) /\ DOMAIN t = 1..Len(t)
      /\ s \o t \in Seq(Event) /\ DOMAIN (s \o t) = 1..(Len(s) + Len(t))
      /\ \A i \in 1..(Len(s) + Len(t)) :
            (s \o t)[i] = IF i <= Len(s) THEN s[i] ELSE t[i - Len(s)]
    BY ConcatProperties, LenProperties
<1>2. \A i \in Added : i \in Nat /\ i - Len(s) \in Places(e, t)
    <2> SUFFICES ASSUME NEW i \in Added PROVE i \in Nat /\ i - Len(s) \in Places(e, t)
        OBVIOUS
    <2>1. i \in 1..(Len(s) + Len(t)) /\ (s \o t)[i] = e /\ i \notin Early
        BY <1>1 DEF Places
    <2>2. i > Len(s)
        BY <1>1, <2>1 DEF Places
    <2>3. i - Len(s) \in 1..Len(t) /\ t[i - Len(s)] = e
        BY <1>1, <2>1, <2>2
    <2> QED
        BY <1>1, <2>1, <2>3 DEF Places
<1>3. f \in Injection(Added, Places(e, t))
    <2>1. f \in [Added -> Places(e, t)]
        BY <1>2
    <2>2. ASSUME NEW i \in Added, NEW j \in Added, f[i] = f[j] PROVE i = j
        BY <1>1, <1>2, <2>2
    <2> QED
        BY <2>1, <2>2 DEF Injection, IsInjective
<1>4. /\ IsFiniteSet(Both) /\ IsFiniteSet(Early) /\ IsFiniteSet(Places(e, t))
      /\ Cardinality(Both) \in Nat /\ Cardinality(Early) \in Nat
      /\ Cardinality(Places(e, t)) \in Nat
    BY <1>1, PlacesFinite
<1> HIDE DEF Both, Early, f
<1>5. Cardinality(Added) <= Cardinality(Places(e, t))
    BY <1>3, <1>4, FS_Injection
<1>6. Cardinality(Added) = Cardinality(Both) - Cardinality(Both \cap Early)
    BY <1>4, FS_Difference
<1>7. Both \cap Early \in SUBSET Early
    OBVIOUS
<1>8. Cardinality(Both \cap Early) <= Cardinality(Early) /\ Cardinality(Both \cap Early) \in Nat
    BY <1>4, <1>7, FS_Subset, FS_CardinalityType
<1> QED
    BY <1>4, <1>5, <1>6, <1>8 DEF Both, Early

\* A poll hands over an event at most as often as there are records of it
\* between the old and the new position.
LEMMA PollCounts ==
    ASSUME TypeOK, NEW q \in Ahead, NEW o \in Orders(q), NEW e \in Event,
           IsFiniteSet(RecordsOf(e))
    PROVE  Cardinality(Places(e, EventsOf(o))) + Cardinality(Polled(e, position))
              =< Cardinality(Polled(e, q))
<1> DEFINE Hits == Places(e, EventsOf(o))
           Fresh == Polled(e, q) \ Polled(e, position)
           f == [k \in Hits |-> o[k]]
<1>1. /\ EventsOf(o) \in Seq(Event) /\ Len(EventsOf(o)) = Len(o)
      /\ \A k \in 1..Len(o) :
            /\ o[k][1] \in Partition
            /\ o[k][2] \in 1..Len(log[o[k][1]])
            /\ position[o[k][1]] < o[k][2]
            /\ EventsOf(o)[k] = log[o[k][1]][o[k][2]]
      /\ \A j, k \in 1..Len(o) : j < k /\ o[j][1] = o[k][1] => o[j][2] < o[k][2]
    BY FetchedRecords DEF TypeOK
<1>2. PICK n \in 0..MaxPoll : o \in [1..n -> Fetched(q)]
    BY DEF Orders
<1>3. n \in Nat /\ Len(o) = n /\ DOMAIN o = 1..n
    BY <1>2, TopicAssumption
<1>4. Hits = {k \in 1..n : EventsOf(o)[k] = e}
    BY <1>1, <1>3, LenProperties DEF Places
<1>5. \A p \in Partition : /\ position[p] \in Nat /\ Len(log[p]) \in Nat
                           /\ q[p] \in Nat /\ position[p] =< q[p]
    BY TopicAssumption, LenProperties DEF Ahead, TypeOK
<1>6. ASSUME NEW k \in Hits PROVE o[k] \in Fresh
    <2>1. k \in 1..n /\ EventsOf(o)[k] = e
        BY <1>4
    <2>2. o[k] \in Fetched(q)
        BY <1>2, <2>1
    <2>3. o[k] \in Partition \X (1..MaxLog) /\ position[o[k][1]] < o[k][2] /\ o[k][2] =< q[o[k][1]]
        BY <2>2 DEF Fetched
    <2>4. o[k][1] \in Partition /\ o[k][2] \in 1..Len(log[o[k][1]]) /\ log[o[k][1]][o[k][2]] = e
        BY <1>1, <1>3, <2>1
    <2>5. o[k] \in RecordsOf(e)
        BY <1>5, <2>3, <2>4 DEF RecordsOf
    <2>6. ~(o[k][2] =< position[o[k][1]])
        BY <1>5, <2>3, <2>4
    <2> QED
        BY <2>3, <2>5, <2>6 DEF Polled
<1>7. f \in Injection(Hits, Fresh)
    <2>1. f \in [Hits -> Fresh]
        BY <1>6
    <2>2. ASSUME NEW j \in Hits, NEW k \in Hits, f[j] = f[k] PROVE j = k
        <3>1. j \in 1..n /\ k \in 1..n /\ o[j] = o[k]
            BY <1>4, <2>2
        <3>2. o[j][2] \in Int /\ o[j][1] = o[k][1] /\ o[j][2] = o[k][2]
            BY <1>1, <1>3, <3>1
        <3>3. ~(j < k) /\ ~(k < j)
            BY <1>1, <1>3, <3>1, <3>2
        <3> QED
            BY <3>1, <3>3
    <2> QED
        BY <2>1, <2>2 DEF Injection, IsInjective
<1>8. Polled(e, q) \in SUBSET RecordsOf(e) /\ Polled(e, position) \in SUBSET Polled(e, q)
    <2>1. ASSUME NEW r \in Polled(e, position) PROVE r \in Polled(e, q)
        <3>1. r[1] \in Partition /\ r[2] \in 1..MaxLog /\ r[2] =< position[r[1]] /\ r \in RecordsOf(e)
            BY DEF Polled, RecordsOf
        <3> QED
            BY <1>5, <3>1, TopicAssumption DEF Polled
    <2> QED
        BY <2>1 DEF Polled
<1>9. /\ IsFiniteSet(Polled(e, q)) /\ Cardinality(Polled(e, q)) \in Nat
      /\ IsFiniteSet(Polled(e, position)) /\ Cardinality(Polled(e, position)) \in Nat
    BY <1>8, FS_Subset, FS_CardinalityType
<1> HIDE DEF Hits, f
<1>10. IsFiniteSet(Fresh) /\ Cardinality(Fresh) = Cardinality(Polled(e, q)) - Cardinality(Polled(e, position))
    <2>1. Polled(e, q) \cap Polled(e, position) = Polled(e, position)
        BY <1>8
    <2> QED
        BY <1>9, <2>1, FS_Difference
<1> HIDE DEF Fresh
<1>11. IsFiniteSet(Hits) /\ Cardinality(Hits) <= Cardinality(Fresh)
    BY <1>7, <1>10, FS_Injection
<1>12. Cardinality(Hits) \in Nat
    BY <1>11, FS_CardinalityType
<1> QED
    BY <1>9, <1>10, <1>11, <1>12 DEF Hits

\* An upload, whatever its outcome, adds an event to the archive at most as often
\* as it is among the rows.
LEMMA PutCounts ==
    ASSUME TypeOK, NEW rows, rows \subseteq DOMAIN batch, PutSucceeds(rows) \/ PutFails(rows),
           NEW e \in Event, IsFiniteSet(CopiesOf(e))
    PROVE  /\ IsFiniteSet(CopiesOf(e)')
           /\ Cardinality(CopiesOf(e)')
                 =< Cardinality(CopiesOf(e)) + Cardinality({i \in rows : batch[i] = e})
<1> DEFINE hits == {i \in rows : batch[i] = e}
           n == Cardinality(hits)
           More == {Object(rows)} \X (1..n)
<1>1. IsFiniteSet(hits)
    <2>1. hits \subseteq Places(e, batch)
        BY DEF Places
    <2> QED
        BY <2>1, PlacesFinite, FS_Subset DEF TypeOK
<1>2. n \in Nat
    BY <1>1, FS_CardinalityType
<1>3. Object(rows)[e] = n
    BY DEF Object
<1> HIDE DEF hits, n
<1>4. CopiesOf(e)' \in SUBSET (CopiesOf(e) \union More)
    <2>1. archive' \subseteq archive \union {Object(rows)}
        BY DEF PutSucceeds, PutFails
    <2> QED
        BY <1>3, <2>1 DEF CopiesOf
<1>5. IsFiniteSet(More) /\ Cardinality(More) = n
    <2>1. IsFiniteSet({Object(rows)}) /\ Cardinality({Object(rows)}) = 1
        BY FS_Singleton
    <2>2. IsFiniteSet(1..n) /\ Cardinality(1..n) = n
        BY <1>2, FS_Interval
    <2>3. IsFiniteSet(More) /\ Cardinality(More) = Cardinality({Object(rows)}) * Cardinality(1..n)
        BY <2>1, <2>2, FS_Product
    <2> QED
        BY <1>2, <2>1, <2>2, <2>3
<1> HIDE DEF More
<1>6. /\ IsFiniteSet(CopiesOf(e) \union More)
      /\ Cardinality(CopiesOf(e) \union More)
            = Cardinality(CopiesOf(e)) + n - Cardinality(CopiesOf(e) \cap More)
    BY <1>5, FS_Union
<1>7. Cardinality(CopiesOf(e) \cap More) \in Nat /\ Cardinality(CopiesOf(e)) \in Nat
    <2>1. CopiesOf(e) \cap More \in SUBSET More
        OBVIOUS
    <2> QED
        BY <1>5, <2>1, FS_Subset, FS_CardinalityType
<1>8. IsFiniteSet(CopiesOf(e)') /\ Cardinality(CopiesOf(e)') <= Cardinality(CopiesOf(e) \union More)
    BY <1>4, <1>6, FS_Subset
<1>9. Cardinality(CopiesOf(e)') \in Nat
    BY <1>8, FS_CardinalityType
<1> QED
    BY <1>2, <1>6, <1>7, <1>8, <1>9 DEF hits, n

\* The rows of an hour are no longer pending once the hour is flushed.
LEMMA FlushCounts ==
    ASSUME TypeOK, NEW h \in todo, todo' = todo \ {h}, UNCHANGED batch,
           NEW rows, rows \subseteq Group(h), NEW e \in Event
    PROVE  Cardinality(Pending(e)') + Cardinality({i \in rows : batch[i] = e})
              =< Cardinality(Pending(e))
<1> DEFINE hits == {i \in rows : batch[i] = e}
<1>1. IsFiniteSet(Pending(e)) /\ hits \in SUBSET Pending(e)
    <2>1. Pending(e) \in SUBSET Places(e, batch) /\ IsFiniteSet(Places(e, batch))
        BY PlacesFinite DEF Pending, TypeOK
    <2>2. IsFiniteSet(Pending(e))
        BY <2>1, FS_Subset
    <2> QED
        BY <2>2 DEF Pending, Places, Group
<1>2. Pending(e)' \in SUBSET (Pending(e) \ hits)
    BY DEF Pending, Places, Group
<1> HIDE DEF hits
<1>3. Cardinality(Pending(e)) \in Nat /\ Cardinality(hits) \in Nat
    BY <1>1, FS_Subset, FS_CardinalityType
<1>4. /\ IsFiniteSet(Pending(e) \ hits)
      /\ Cardinality(Pending(e) \ hits) = Cardinality(Pending(e)) - Cardinality(hits)
    <2>1. Pending(e) \cap hits = hits
        BY <1>1
    <2> QED
        BY <1>1, <2>1, FS_Difference
<1>5. IsFiniteSet(Pending(e)') /\ Cardinality(Pending(e)') <= Cardinality(Pending(e) \ hits)
    BY <1>2, <1>4, FS_Subset
<1>6. Cardinality(Pending(e)') \in Nat
    BY <1>5, FS_CardinalityType
<1> QED
    BY <1>3, <1>4, <1>5, <1>6 DEF hits

\* Nothing has made the group read its records again before, nor does this step.
LEMMA UnreplayedBefore ==
    ASSUME TypeOK, [Next]_vars, Unreplayed'
    PROVE  Unreplayed /\ ~Failure /\ \A k \in FaultKind \ {"s3", "dlq"} : ~Fault(k)
<1>1. \A k \in FaultKind \ {"s3", "dlq"} : faults'[k] = 0
    BY DEF Unreplayed
<1>2. \A k \in FaultKind \ {"s3", "dlq"} : ~Fault(k)
    BY <1>1, FaultCounts
<1>3. ~Failure
    BY <1>2 DEF Failure, TornPoll, PollFails, Rejoin, ReconnectFails, CommitFails,
       Interrupt, Crash, FaultKind
<1>4. \A k \in FaultKind : Fault(k) => \A j \in FaultKind : faults[j] =< faults'[j]
    BY FaultCounts
<1>5. UNCHANGED faults \/ Fault("s3") \/ Fault("dlq") \/ Fault("broker")
    <2>1. CASE Upload \/ UploadRest
        BY <2>1 DEF Upload, UploadRest, PutSucceeds, PutFails
    <2>2. CASE DeadLetter \/ FinalCommit
        BY <2>2 DEF DeadLetter, FinalCommit
    <2>3. CASE \/ Poll \/ Reconnect \/ Pause \/ FindPoison \/ FlushUploaded \/ FlushFailed
               \/ Commit \/ Restart \/ Tick \/ UNCHANGED vars \/ \E e \in Event : Produce(e)
        BY <2>3 DEF Poll, Reconnect, Pause, FindPoison, FlushUploaded, FlushFailed,
           Commit, Restart, Tick, vars, Produce
    <2> QED
        BY <1>3, <2>1, <2>2, <2>3 DEF Next, Step
<1>6. \A k \in FaultKind : faults[k] \in Nat /\ faults'[k] \in Nat
    BY <1>4, <1>5 DEF TypeOK, Fault, FaultKind
<1>7. \A k \in FaultKind : faults[k] =< faults'[k]
    BY <1>4, <1>5, <1>6 DEF FaultKind
<1>8. Unreplayed
    BY <1>1, <1>6, <1>7 DEF Unreplayed
<1> QED
    BY <1>2, <1>3, <1>8

\* Only finitely many records and objects hold an event.
LEMMA StepFinite == TypeOK /\ FiniteCounts /\ [Next]_vars => FiniteCounts'
<1> SUFFICES ASSUME TypeOK, FiniteCounts, [Next]_vars, NEW e \in Event
             PROVE  IsFiniteSet(RecordsOf(e)') /\ IsFiniteSet(CopiesOf(e)')
    BY DEF FiniteCounts
<1>0. IsFiniteSet(RecordsOf(e)) /\ IsFiniteSet(CopiesOf(e))
    BY DEF FiniteCounts
<1>1. ASSUME NEW f \in Event, Publish(f) PROVE IsFiniteSet(RecordsOf(e)')
    <2> DEFINE p == PartitionOf[VesselOf[f]]
    <2>2. p \in Partition /\ log[p] \in Seq(Event) /\ log' = [log EXCEPT ![p] = Append(@, f)]
        BY <1>1, TopicAssumption DEF Publish, TypeOK
    <2>3. RecordsOf(e)' \in SUBSET (RecordsOf(e) \union {<<p, Len(log[p]) + 1>>})
        <3> SUFFICES ASSUME NEW r \in Partition \X (1..MaxLog), r[2] =< Len(log'[r[1]]),
                            log'[r[1]][r[2]] = e, r # <<p, Len(log[p]) + 1>>
                     PROVE  r[2] =< Len(log[r[1]]) /\ log[r[1]][r[2]] = e
            BY DEF RecordsOf
        <3>1. r[1] \in Partition /\ r[2] \in 1..MaxLog /\ r = <<r[1], r[2]>>
            OBVIOUS
        <3>2. CASE r[1] # p
            BY <2>2, <3>1, <3>2 DEF TypeOK
        <3>3. CASE r[1] = p
            <4>1. log'[p] = Append(log[p], f)
                BY <2>2 DEF TypeOK
            <4>2. r[2] =< Len(log[p]) + 1 /\ r[2] # Len(log[p]) + 1 /\ Len(log[p]) \in Nat
                BY <2>2, <3>1, <3>3, <4>1, AppendProperties, LenProperties
            <4>3. r[2] \in 1..Len(log[p])
                BY <3>1, <4>2, TopicAssumption
            <4>4. log'[p][r[2]] = log[p][r[2]]
                BY <2>2, <4>1, <4>3, AppendProperties
            <4> QED
                BY <3>3, <4>3, <4>4
        <3> QED
            BY <3>2, <3>3
    <2> HIDE DEF p
    <2> QED
        BY <1>0, <2>3, FS_AddElement, FS_Subset
<1>2. ASSUME Upload \/ UploadRest PROVE IsFiniteSet(CopiesOf(e)')
    <2>1. PICK rows : /\ rows \subseteq DOMAIN batch
                      /\ PutSucceeds(rows) \/ PutFails(rows) \/ UNCHANGED archive
        BY <1>2 DEF Upload, UploadRest, Group
    <2> QED
        BY <1>0, <2>1, PutCounts DEF CopiesOf
<1>3. ASSUME DeadLetter \/ UNCHANGED storeVars PROVE IsFiniteSet(CopiesOf(e)')
    BY <1>0, <1>3 DEF DeadLetter, CopiesOf
<1>4. IsFiniteSet(CopiesOf(e)')
    BY <1>2, <1>3, StoreStep
<1>5. UNCHANGED log => IsFiniteSet(RecordsOf(e)')
    BY <1>0 DEF RecordsOf
<1> QED
    BY <1>1, <1>4, <1>5, OffsetStep DEF TopicStep

\* How often an event is held, pending and polled are numbers.
LEMMA CountsTyped ==
    ASSUME TypeOK, FiniteCounts, NEW e \in Event
    PROVE  /\ Cardinality(CopiesOf(e)) \in Nat
           /\ Cardinality(Places(e, buffer)) \in Nat
           /\ Cardinality(Pending(e)) \in Nat
           /\ Cardinality(RecordsOf(e)) \in Nat
           /\ \A at : /\ IsFiniteSet(Polled(e, at))
                      /\ Cardinality(Polled(e, at)) \in Nat
                      /\ Cardinality(Polled(e, at)) =< Cardinality(RecordsOf(e))
<1>1. IsFiniteSet(CopiesOf(e)) /\ IsFiniteSet(RecordsOf(e))
    BY DEF FiniteCounts
<1>2. Cardinality(CopiesOf(e)) \in Nat /\ Cardinality(RecordsOf(e)) \in Nat
    BY <1>1, FS_CardinalityType
<1>3. IsFiniteSet(Places(e, batch)) /\ Cardinality(Places(e, buffer)) \in Nat
    BY PlacesFinite DEF TypeOK
<1>4. Cardinality(Pending(e)) \in Nat
    <2>1. Pending(e) \in SUBSET Places(e, batch)
        BY DEF Pending
    <2> QED
        BY <1>3, <2>1, FS_Subset, FS_CardinalityType
<1>5. ASSUME NEW at
      PROVE  /\ IsFiniteSet(Polled(e, at))
             /\ Cardinality(Polled(e, at)) \in Nat
             /\ Cardinality(Polled(e, at)) =< Cardinality(RecordsOf(e))
    <2>1. Polled(e, at) \in SUBSET RecordsOf(e)
        BY DEF Polled
    <2> QED
        BY <1>1, <2>1, FS_Subset, FS_CardinalityType
<1> QED
    BY <1>2, <1>3, <1>4, <1>5

\* What is archived was polled, and nothing else of it is held.
LEMMA PolledArchived == TypeOK /\ FiniteCounts /\ ArchivedFromPolled => ArchivedOnce
<1> SUFFICES ASSUME TypeOK, FiniteCounts, ArchivedFromPolled, NEW e \in Event
             PROVE  Cardinality(CopiesOf(e)) =< Cardinality(RecordsOf(e))
    BY DEF ArchivedOnce, Copies, Occurrences, RecordsOf
<1> QED
    BY CountsTyped DEF ArchivedFromPolled

\* No record goes away, and unless the position moves, none is less polled.
LEMMA RecordsStay ==
    ASSUME TypeOK, FiniteCounts, FiniteCounts', [Next]_vars, NEW e \in Event
    PROVE  /\ Cardinality(RecordsOf(e)) =< Cardinality(RecordsOf(e)')
           /\ UNCHANGED position =>
                 Cardinality(Polled(e, position)) =< Cardinality(Polled(e, position)')
<1>1. /\ \A p \in Partition : \A i \in 1..Len(log[p]) : log'[p][i] = log[p][i]
      /\ \A p \in Partition : Len(log[p]) \in Nat /\ Len(log[p]) =< Len(log'[p]) /\ Len(log'[p]) \in Nat
    <2>1. UNCHANGED log \/ \E f \in Event : Publish(f)
        BY OffsetStep DEF TopicStep
    <2> QED
        BY <2>1, PublishAppends, LenProperties, LogStep DEF TypeOK
<1>2. RecordsOf(e) \in SUBSET (RecordsOf(e)')
    <2> SUFFICES ASSUME NEW r \in Partition \X (1..MaxLog), r[2] =< Len(log[r[1]]),
                        log[r[1]][r[2]] = e
                 PROVE  r[2] =< Len(log'[r[1]]) /\ log'[r[1]][r[2]] = e
        BY DEF RecordsOf
    <2>1. r[1] \in Partition /\ r[2] \in 1..Len(log[r[1]])
        BY <1>1, TopicAssumption
    <2> QED
        BY <1>1, <2>1
<1>3. IsFiniteSet(RecordsOf(e)')
    BY DEF FiniteCounts
<1>4. Cardinality(RecordsOf(e)) =< Cardinality(RecordsOf(e)')
    BY <1>2, <1>3, FS_Subset
<1>5. ASSUME UNCHANGED position
      PROVE  Cardinality(Polled(e, position)) =< Cardinality(Polled(e, position)')
    <2>1. Polled(e, position) \in SUBSET (Polled(e, position)')
        BY <1>2, <1>5 DEF Polled
    <2>2. Polled(e, position)' \in SUBSET (RecordsOf(e)')
        BY DEF Polled
    <2>3. IsFiniteSet(Polled(e, position)')
        BY <1>3, <2>2, FS_Subset
    <2> QED
        BY <2>1, <2>3, FS_Subset
<1> QED
    BY <1>4, <1>5

\* A poll adds to the buffer no more than it reads; should_flush may drain it.
LEMMA PollOnce ==
    ASSUME TypeOK, FlushProgress, FiniteCounts, ArchivedFromPolled, Poll, Keyed(buffer')
    PROVE  pc' # "reconnect" /\ ArchivedFromPolled'
<1>1. PICK q \in Ahead : \E o \in Orders(q) :
          LET es == buffer \o EventsOf(o)
              t  == TimerAfter(EventsOf(o))
          IN  /\ position' = q
              /\ \/ /\ buffer' = es
                    /\ UNCHANGED <<flushVars, pc>>
                 \/ Drain(es)
                 \/ /\ ~Keyed(es)
                    /\ buffer' = es
    BY DEF Poll
<1>2. PICK o \in Orders(q) :
          /\ position' = q
          /\ \/ /\ buffer' = buffer \o EventsOf(o)
                /\ UNCHANGED <<flushVars, pc>>
             \/ Drain(buffer \o EventsOf(o))
    BY <1>1
<1>3. /\ pc = "run" /\ batch = <<>> /\ UNCHANGED <<log, archive>>
      /\ EventsOf(o) \in Seq(Event) /\ buffer \in Seq(Event) /\ buffer \o EventsOf(o) \in Seq(Event)
    BY PollFacts DEF Poll, Polling, FlushProgress, TypeOK
<1>4. pc' # "reconnect"
    BY <1>2, <1>3 DEF Drain
<1>5. ASSUME NEW e \in Event
      PROVE  Cardinality(CopiesOf(e)) + Cardinality(Places(e, buffer \o EventsOf(o)))
                =< Cardinality(Polled(e, q))
    <2>1. Cardinality(CopiesOf(e)) + Cardinality(Places(e, buffer)) + Cardinality(Pending(e))
             =< Cardinality(Polled(e, position))
        BY DEF ArchivedFromPolled
    <2>2. Cardinality(Places(e, EventsOf(o))) + Cardinality(Polled(e, position))
             =< Cardinality(Polled(e, q))
        BY PollCounts DEF FiniteCounts
    <2>3. Cardinality(Places(e, buffer \o EventsOf(o)))
             =< Cardinality(Places(e, buffer)) + Cardinality(Places(e, EventsOf(o)))
        BY <1>3, PlacesConcat
    <2>4. /\ Cardinality(Places(e, EventsOf(o))) \in Nat
          /\ Cardinality(Places(e, buffer \o EventsOf(o))) \in Nat
        BY <1>3, PlacesFinite
    <2>5. /\ Cardinality(CopiesOf(e)) \in Nat
          /\ Cardinality(Places(e, buffer)) \in Nat
          /\ Cardinality(Pending(e)) \in Nat
          /\ Cardinality(Polled(e, position)) \in Nat
          /\ Cardinality(Polled(e, q)) \in Nat
        BY CountsTyped
    <2> QED
        BY ONLY <2>1, <2>2, <2>3, <2>4, <2>5
<1>6. ASSUME NEW e \in Event
      PROVE  /\ CopiesOf(e)' = CopiesOf(e)
             /\ Polled(e, position)' = Polled(e, q)
             /\ Cardinality(Places(e, buffer)') \in Nat /\ Cardinality(Pending(e)') \in Nat
             /\ Cardinality(Places(e, buffer)') + Cardinality(Pending(e)')
                   = Cardinality(Places(e, buffer \o EventsOf(o)))
    <2>1. CopiesOf(e)' = CopiesOf(e) /\ Polled(e, position)' = Polled(e, q)
        BY <1>2, <1>3 DEF CopiesOf, Polled, RecordsOf
    <2>2. Cardinality(Places(e, buffer \o EventsOf(o))) \in Nat /\ Cardinality({}) = 0
        BY <1>3, PlacesFinite, FS_EmptySet
    <2>3. Places(e, <<>>) = {}
        BY DEF Places
    <2>4. CASE buffer' = buffer \o EventsOf(o) /\ UNCHANGED <<flushVars, pc>>
        <3>1. Places(e, buffer)' = Places(e, buffer \o EventsOf(o)) /\ Pending(e)' = {}
            BY <1>3, <2>3, <2>4 DEF Pending, Places
        <3> QED
            BY <2>1, <2>2, <3>1
    <2>5. CASE Drain(buffer \o EventsOf(o))
        <3>1. \A i \in Places(e, buffer \o EventsOf(o)) : HourOf[e] \in todo'
            BY <2>5 DEF Drain, Places, Range
        <3>2. Places(e, buffer)' = {} /\ Pending(e)' = Places(e, buffer \o EventsOf(o))
            BY <2>3, <2>5, <3>1 DEF Drain, Pending, Places
        <3> QED
            BY <2>1, <2>2, <3>2
    <2> QED
        BY <1>2, <2>4, <2>5
<1>7. ASSUME NEW e \in Event
      PROVE  Cardinality(CopiesOf(e)') + Cardinality(Places(e, buffer)') + Cardinality(Pending(e)')
                =< Cardinality(Polled(e, position)')
    <2>1. Cardinality(CopiesOf(e)) \in Nat
        BY CountsTyped
    <2> QED
        BY <1>5, <1>6, <2>1
<1> QED
    BY <1>4, <1>7 DEF ArchivedFromPolled

\* An upload, whatever its outcome, takes from what is pending what it archives.
LEMMA UploadOnce ==
    ASSUME TypeOK, FiniteCounts, ArchivedFromPolled, Upload \/ UploadRest
    PROVE  ArchivedFromPolled'
<1>0. PICK h \in todo : \E rows \in SUBSET Group(h) :
          /\ PutSucceeds(rows) \/ PutFails(rows) \/ (UNCHANGED archive)
          /\ todo' = todo \ {h}
    <2>1. CASE Upload
        BY <2>1 DEF Upload
    <2>2. CASE UploadRest
        <3>1. PICK h \in todo :
                  LET rest == {i \in Group(h) : ~IsPoison(i)}
                  IN  /\ PutSucceeds(rest) \/ PutFails(rest) \/ (UNCHANGED archive)
                      /\ todo' = todo \ {h}
            BY <2>2 DEF UploadRest
        <3>2. {i \in Group(h) : ~IsPoison(i)} \in SUBSET Group(h)
            OBVIOUS
        <3> QED
            BY <3>1, <3>2
    <2> QED
        BY <2>1, <2>2
<1>1. PICK rows \in SUBSET Group(h) :
          /\ PutSucceeds(rows) \/ PutFails(rows) \/ (UNCHANGED archive)
          /\ todo' = todo \ {h}
    BY <1>0
<1>2. UNCHANGED <<topicVars, buffer, batch>>
    BY DEF Upload, UploadRest
<1>3. rows \subseteq DOMAIN batch
    BY DEF Group
<1> SUFFICES ASSUME NEW e \in Event
             PROVE  Cardinality(CopiesOf(e)') + Cardinality(Places(e, buffer)')
                       + Cardinality(Pending(e)') =< Cardinality(Polled(e, position)')
    BY DEF ArchivedFromPolled
<1> DEFINE hits == {i \in rows : batch[i] = e}
<1>4. Cardinality(hits) \in Nat
    <2>1. hits \in SUBSET Places(e, batch)
        BY <1>3 DEF Places
    <2> QED
        BY <2>1, PlacesFinite, FS_Subset, FS_CardinalityType DEF TypeOK
<1>5. /\ IsFiniteSet(CopiesOf(e)')
      /\ Cardinality(CopiesOf(e)') =< Cardinality(CopiesOf(e)) + Cardinality(hits)
    <2>1. IsFiniteSet(CopiesOf(e)) /\ Cardinality(CopiesOf(e)) \in Nat
        BY CountsTyped DEF FiniteCounts
    <2>2. CASE PutSucceeds(rows) \/ PutFails(rows)
        BY <1>3, <2>1, <2>2, PutCounts
    <2>3. CASE UNCHANGED archive
        <3>1. CopiesOf(e)' = CopiesOf(e)
            BY <2>3 DEF CopiesOf
        <3> QED
            BY <1>4, <2>1, <3>1
    <2> QED
        BY <1>1, <2>2, <2>3
<1>6. Cardinality(Pending(e)') + Cardinality(hits) =< Cardinality(Pending(e))
    BY <1>1, <1>2, FlushCounts
<1>7. Places(e, buffer)' = Places(e, buffer) /\ Polled(e, position)' = Polled(e, position)
    BY <1>2 DEF Places, Polled, RecordsOf
<1>8. /\ Cardinality(CopiesOf(e)) \in Nat
      /\ Cardinality(Places(e, buffer)) \in Nat
      /\ Cardinality(Pending(e)) \in Nat
      /\ Cardinality(Polled(e, position)) \in Nat
      /\ Cardinality(CopiesOf(e)) + Cardinality(Places(e, buffer)) + Cardinality(Pending(e))
            =< Cardinality(Polled(e, position))
    BY CountsTyped DEF ArchivedFromPolled
<1>9. Cardinality(CopiesOf(e)') \in Nat
    BY <1>5, FS_CardinalityType
<1>10. Cardinality(Pending(e)') \in Nat
    <2>1. Pending(e)' \in SUBSET Places(e, batch)
        BY <1>2 DEF Pending, Places
    <2> QED
        BY <2>1, PlacesFinite, FS_Subset, FS_CardinalityType DEF TypeOK
<1> QED
    BY ONLY <1>4, <1>5, <1>6, <1>7, <1>8, <1>9, <1>10

\* Each other step leaves the archive and the buffer alone, and what is pending
\* or nothing of it.
LEMMA QuietOnce ==
    ASSUME TypeOK, FiniteCounts, FiniteCounts', ArchivedFromPolled, [Next]_vars,
           UNCHANGED <<archive, buffer, position>>,
           UNCHANGED <<batch, todo>> \/ batch' = <<>>
    PROVE  ArchivedFromPolled'
<1> SUFFICES ASSUME NEW e \in Event
             PROVE  Cardinality(CopiesOf(e)') + Cardinality(Places(e, buffer)')
                       + Cardinality(Pending(e)') =< Cardinality(Polled(e, position)')
    BY DEF ArchivedFromPolled
<1>1. CopiesOf(e)' = CopiesOf(e) /\ Places(e, buffer)' = Places(e, buffer)
    BY DEF CopiesOf, Places
<1>2. /\ Cardinality(CopiesOf(e)) \in Nat
      /\ Cardinality(Places(e, buffer)) \in Nat
      /\ Cardinality(Pending(e)) \in Nat
      /\ Cardinality(Polled(e, position)) \in Nat
      /\ Cardinality(CopiesOf(e)) + Cardinality(Places(e, buffer)) + Cardinality(Pending(e))
            =< Cardinality(Polled(e, position))
    BY CountsTyped DEF ArchivedFromPolled
<1>3. Cardinality(Pending(e)') =< Cardinality(Pending(e)) /\ Cardinality(Pending(e)') \in Nat
    <2>1. Pending(e)' = Pending(e) \/ Pending(e)' = {}
        BY DEF Pending, Places
    <2>2. Cardinality({}) = 0
        BY FS_EmptySet
    <2>3. Cardinality(Pending(e)') = Cardinality(Pending(e)) \/ Cardinality(Pending(e)') = 0
        BY <2>1, <2>2
    <2> QED
        BY ONLY <1>2, <2>3
<1>4. Cardinality(Polled(e, position)) =< Cardinality(Polled(e, position)')
    BY RecordsStay
<1>5. Cardinality(Polled(e, position)') \in Nat
    <2>1. Polled(e, position)' \in SUBSET (RecordsOf(e)')
        BY DEF Polled
    <2>2. IsFiniteSet(RecordsOf(e)')
        BY DEF FiniteCounts
    <2> QED
        BY <2>1, <2>2, FS_Subset, FS_CardinalityType
<1> QED
    BY ONLY <1>1, <1>2, <1>3, <1>4, <1>5

\* What the buffer cannot be drained for, no further poll makes drainable.
LEMMA UnkeyedStays ==
    ASSUME TypeOK, FlushProgress, [Next]_vars, ~Failure, ~Keyed(buffer), pc # "down"
    PROVE  ~Keyed(buffer') /\ pc' # "down" /\ UNCHANGED <<archive, closing>>
<1>1. pc \in {"run", "reconnect"}
    BY DEF FlushProgress, TypeOK, Location, Keyed, Range
<1>2. CASE Poll
    <2>1. PICK q \in Ahead : \E o \in Orders(q) :
              LET es == buffer \o EventsOf(o)
                  t  == TimerAfter(EventsOf(o))
              IN  /\ buffer' = es \/ Keyed(es)
                  /\ pc' # "down"
        BY <1>1, <1>2 DEF Poll, Drain
    <2>2. PICK o \in Orders(q) :
              /\ buffer' = buffer \o EventsOf(o) \/ Keyed(buffer \o EventsOf(o))
              /\ pc' # "down"
        BY <2>1
    <2>3. Range(buffer) \subseteq Range(buffer \o EventsOf(o))
        BY PollFacts, RangeConcatenation DEF TypeOK
    <2> QED
        BY <1>2, <2>2, <2>3 DEF Poll, Keyed
<1>3. CASE Reconnect \/ Pause \/ Tick \/ UNCHANGED vars \/ \E e \in Event : Produce(e)
    BY <1>1, <1>3 DEF Reconnect, Pause, Tick, vars, Produce
<1> QED
    BY <1>1, <1>2, <1>3 DEF Next, Step, Upload, FindPoison, DeadLetter, UploadRest,
       FlushUploaded, FlushFailed, Commit, FinalCommit, Restart

\* Of each polled event as many are archived, buffered or pending as were polled,
\* before and after each step that does not make the group read them again.
LEMMA StepOnce ==
    ASSUME TypeOK, FlushProgress, FiniteCounts, FiniteCounts', OnceInv, [Next]_vars
    PROVE  OnceInv'
<1> SUFFICES ASSUME Unreplayed'
             PROVE  /\ closing' = "no" /\ pc' # "down"
                    /\ IF Keyed(buffer')
                       THEN pc' # "reconnect" /\ ArchivedFromPolled'
                       ELSE ArchivedOnce'
    BY DEF OnceInv, Keyed
<1>1. /\ Unreplayed /\ ~Failure
      /\ closing = "no" /\ pc # "down" /\ ~Restart /\ ~FinalCommit
    BY UnreplayedBefore DEF OnceInv, Restart, FinalCommit
<1>2. ArchivedOnce
    BY <1>1, PolledArchived DEF OnceInv
<1>3. ASSUME UNCHANGED archive PROVE ArchivedOnce'
    <2> SUFFICES ASSUME NEW e \in Event
                 PROVE  Cardinality(CopiesOf(e)') =< Cardinality(RecordsOf(e)')
        BY DEF ArchivedOnce, Copies, Occurrences, RecordsOf
    <2>1. Cardinality(CopiesOf(e)) =< Cardinality(RecordsOf(e))
        BY <1>2 DEF ArchivedOnce, Copies, Occurrences, RecordsOf
    <2>2. CopiesOf(e)' = CopiesOf(e)
        BY <1>3 DEF CopiesOf
    <2>3. Cardinality(RecordsOf(e)) =< Cardinality(RecordsOf(e)')
        BY RecordsStay
    <2>4. Cardinality(CopiesOf(e)) \in Nat /\ Cardinality(RecordsOf(e)) \in Nat
        BY CountsTyped
    <2>5. Cardinality(RecordsOf(e)') \in Nat
        <3>1. IsFiniteSet(RecordsOf(e)')
            BY DEF FiniteCounts
        <3> QED
            BY <3>1, FS_CardinalityType
    <2> QED
        BY ONLY <2>1, <2>2, <2>3, <2>4, <2>5
<1>4. CASE ~Keyed(buffer)
    BY <1>1, <1>3, <1>4, UnkeyedStays
<1>5. CASE Keyed(buffer)
    <2>1. pc # "reconnect" /\ ArchivedFromPolled
        BY <1>1, <1>5 DEF OnceInv
    <2>2. CASE Poll
        <3>1. closing' = "no" /\ pc' # "down" /\ UNCHANGED archive
            BY <1>1, <2>2 DEF Poll, Drain
        <3> QED
            BY <1>3, <2>1, <2>2, <3>1, PollOnce
    <2>3. CASE Upload \/ UploadRest
        <3>1. UNCHANGED <<buffer, closing>> /\ pc' = "put"
            BY <2>3 DEF Upload, UploadRest
        <3> QED
            BY <1>1, <1>5, <2>1, <2>3, <3>1, UploadOnce
    <2>4. CASE /\ UNCHANGED <<archive, buffer, position, closing>> /\ pc' \notin {"down", "reconnect"}
               /\ UNCHANGED <<batch, todo>> \/ batch' = <<>>
        BY <1>1, <1>5, <2>1, <2>4, QuietOnce
    <2>5. CASE Pause \/ FindPoison \/ DeadLetter \/ FlushUploaded \/ FlushFailed \/ Commit
        <3>1. UNCHANGED <<archive, buffer, position, closing>> /\ pc' \notin {"down", "reconnect"}
            BY <1>1, <2>5 DEF Pause, vars, FindPoison, DeadLetter, FlushUploaded, FlushFailed,
               Commit, CommitPolled
        <3>2. UNCHANGED <<batch, todo>> \/ batch' = <<>>
            BY <1>1, <2>5 DEF Pause, vars, FindPoison, DeadLetter, FlushUploaded, FlushFailed,
               Commit, NoFlush
        <3> QED
            BY <2>4, <3>1, <3>2
    <2>6. CASE Tick \/ UNCHANGED vars \/ \E e \in Event : Produce(e)
        BY <1>1, <2>1, <2>4, <2>6 DEF Tick, vars, Produce, Publish
    <2>7. ~Reconnect
        BY <2>1 DEF Reconnect
    <2> QED
        BY <1>1, <2>2, <2>3, <2>5, <2>6, <2>7 DEF Next, Step
<1> QED
    BY <1>4, <1>5

\* ArchivedOnceUnlessReplayed: as long as nothing makes the group read its records
\* again, no event is in more objects than there are records of it, no matter
\* which uploads fail, are reported as failed or cannot be drained.
THEOREM ArchivedOncePerRecord == Spec => []ArchivedOnceUnlessReplayed
<1>1. Init => OnceInv /\ FiniteCounts
    <2> SUFFICES ASSUME Init PROVE OnceInv /\ FiniteCounts
        OBVIOUS
    <2>1. closing = "no" /\ pc = "run" /\ Keyed(buffer)
        BY DEF Init, Keyed, Range
    <2>2. ASSUME NEW e \in Event
          PROVE  /\ CopiesOf(e) = {} /\ Places(e, buffer) = {} /\ Pending(e) = {}
                 /\ RecordsOf(e) = {} /\ Polled(e, position) = {}
        BY DEF Init, CopiesOf, Places, Pending, RecordsOf, Polled
    <2>3. IsFiniteSet({}) /\ Cardinality({}) = 0
        BY FS_EmptySet
    <2>4. FiniteCounts /\ ArchivedFromPolled
        BY <2>2, <2>3 DEF FiniteCounts, ArchivedFromPolled
    <2> QED
        BY <2>1, <2>4 DEF OnceInv
<1>2. IInv /\ FiniteCounts /\ OnceInv => ArchivedOnceUnlessReplayed
    BY PolledArchived DEF IInv, OnceInv, ArchivedOnceUnlessReplayed
<1>3. IInv => TypeOK /\ FlushProgress
    BY DEF IInv
<1>4. TypeOK /\ FlushProgress /\ FiniteCounts /\ FiniteCounts' /\ OnceInv /\ [Next]_vars => OnceInv'
    BY StepOnce
<1> QED
    BY <1>1, <1>2, <1>3, <1>4, StepFinite, Invariance, PTL DEF Spec

-----------------------------------------------------------------------------
(* The open breaker                                                        *)

\* Once the breaker is open, only the end of the process closes it: the loop that
\* looks at the counter has no way to reset it (consumer.py:149-158), whatever
\* Kafka and S3 do and however long it waits.
OpenUntilStopped == [][BreakerOpen => BreakerOpen' \/ pc' = "down"]_vars

\* So it is for every threshold: only a commit resets the counter, and a flush that
\* leads to one starts below the threshold or in the finally clause (BreakerCount).
THEOREM BreakerStaysOpen == Spec => OpenUntilStopped
<1>1. IInv /\ [Next]_vars => [BreakerOpen => BreakerOpen' \/ pc' = "down"]_vars
    <2> SUFFICES ASSUME IInv, Next, BreakerOpen PROVE BreakerOpen' \/ pc' = "down"
        OBVIOUS
    <2>1. /\ failures \in 0..Threshold /\ Threshold \in Nat
          /\ pc = "run" \/ closing # "no"
          /\ closing # "no" => pc \in {"put", "isolate", "commit"}
        BY SinkLimitAssumption DEF IInv, TypeOK, BreakerCount, FlushProgress, BreakerOpen
    <2>2. CASE UNCHANGED failures
        BY <2>2 DEF BreakerOpen
    <2>3. CASE Stopped
        BY <2>3 DEF Stopped
    <2>4. CASE TornPoll \/ ReconnectFails \/ Interrupt
        BY <2>2, <2>3, <2>4 DEF TornPoll, ReconnectFails, Interrupt, Finally
    <2>5. CASE FlushFailed \/ FinalCommit \/ Crash
        BY <2>1, <2>3, <2>5 DEF FlushFailed, FinalCommit, Crash
    <2>6. ~Reconnect /\ ~Commit
        BY <2>1 DEF Reconnect, Commit
    <2>7. CASE \/ Poll \/ Pause \/ Upload \/ FindPoison \/ DeadLetter \/ UploadRest
               \/ FlushUploaded \/ Restart \/ PollFails \/ Rejoin \/ CommitFails \/ Tick
               \/ \E e \in Event : Produce(e)
        BY <2>2, <2>7 DEF Poll, Pause, vars, Upload, FindPoison, DeadLetter, UploadRest,
           FlushUploaded, Restart, PollFails, Rejoin, CommitFails, Tick, Produce
    <2> QED
        BY <2>4, <2>5, <2>6, <2>7 DEF Next, Step, Failure
<1> QED
    BY <1>1, Invariance, PTL DEF Spec, OpenUntilStopped
=============================================================================
