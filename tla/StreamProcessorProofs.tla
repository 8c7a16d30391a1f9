------------------------ MODULE StreamProcessorProofs ------------------------
(***************************************************************************)
(* Proofs about StreamProcessor, for any number of partitions, vessels,    *)
(* events and failures: type correctness and at-least-once delivery        *)
(* through the inductive invariant IInv, the implementation of Delivery;   *)
(* and on that basis what is dropped or dead-lettered, what the database   *)
(* shows of a vessel in the end, and the bound on memory.                  *)
(***************************************************************************)
EXTENDS StreamProcessor, RawTopicProofs

USE DEF kafkaVars, storeVars, processVars, topicVars, TopicTypeOK, TopicInit

-----------------------------------------------------------------------------
(* Type correctness                                                        *)

\* A failure keeps the count of failures a function to the naturals.
LEMMA FaultTyped ==
    ASSUME TypeOK, NEW k \in FaultKind, Fault(k)
    PROVE  faults' \in [FaultKind -> Nat]
BY DEF TypeOK, Fault

\* A transaction on a sequence of events keeps the tables' types.
LEMMA WrittenTyped ==
    ASSUME TypeOK, NEW es \in Seq(Event), Written(es)
    PROVE  /\ track' \in SUBSET Event
           /\ state' \in [Vessel -> Event \union {NoEvent}]
<1>1. OfKind(es, "ok") \in SUBSET Event
    BY RangeOfSeq DEF OfKind
<1> QED
    BY <1>1 DEF TypeOK, Written, Upserted

LEMMA AppliedTyped ==
    ASSUME TypeOK, NEW es \in Seq(Event),
           Applied(es) \/ NotApplied(es) \/ Unacknowledged(es)
    PROVE  /\ track' \in SUBSET Event
           /\ state' \in [Vessel -> Event \union {NoEvent}]
           /\ dbUp' \in BOOLEAN
           /\ conn' \in {"open", "lost", "closed"}
           /\ faults' \in [FaultKind -> Nat]
<1>1. CASE Applied(es)
    BY <1>1, WrittenTyped DEF Applied, TypeOK
<1>2. CASE NotApplied(es)
    BY <1>2 DEF NotApplied, ConnAfterFailure, TypeOK
<1>3. CASE Unacknowledged(es)
    <2>1. "db" \in FaultKind
        BY DEF FaultKind
    <2> QED
        BY <1>3, <2>1, WrittenTyped, FaultTyped DEF Unacknowledged, ConnAfterFailure
<1> QED
    BY <1>1, <1>2, <1>3

\* The buffer and the timer after a poll of es.
LEMMA CollectTyped ==
    ASSUME TypeOK, NEW es \in Seq(Event), Collect(es)
    PROVE  /\ buffer' \in Seq(Event)
           /\ timer' \in {"off", "running", "expired"}
BY ConcatProperties DEF TypeOK, Collect

LEMMA FlushFailedTyped ==
    ASSUME TypeOK, NEW t \in {"off", "running"}, FlushFailed(t), pc = "run"
    PROVE  /\ pc' \in Location
           /\ buffer' \in Seq(Event)
           /\ timer' \in {"off", "running", "expired"}
           /\ failures' \in Nat
           /\ batch' \in Seq(Event)
           /\ next' \in Nat \ {0}
<1>1. CASE failures + 1 >= MaxRetainRetries
    BY <1>1, EmptySeq DEF TypeOK, FlushFailed, EmptyBuffer, Location
<1>2. CASE ~(failures + 1 >= MaxRetainRetries)
    BY <1>2 DEF TypeOK, FlushFailed
<1> QED
    BY <1>1, <1>2

LEMMA DeadLetterTyped ==
    ASSUME TypeOK, NEW e \in Event, DeadLetter(e)
    PROVE  /\ dlq' \in SUBSET Event
           /\ dropped' \in SUBSET Event
           /\ faults' \in [FaultKind -> Nat]
<1>1. "dlq" \in FaultKind
    BY DEF FaultKind
<1> QED
    BY <1>1, FaultTyped DEF TypeOK, DeadLetter

LEMMA PassOverTyped ==
    ASSUME TypeOK, NEW es \in Seq(Event), PassOver(es)
    PROVE  dropped' \in SUBSET Event
BY RangeOfSeq DEF TypeOK, PassOver, OfKind

\* The event under isolation is an event.
LEMMA CurrentEvent ==
    ASSUME TypeOK, next =< Len(batch)
    PROVE  /\ batch[next] \in Event
           /\ <<batch[next]>> \in Seq(Event)
           /\ Range(<<batch[next]>>) = {batch[next]}
<1>1. Len(batch) \in Nat
    BY LenProperties DEF TypeOK
<1>2. batch[next] \in Event
    BY <1>1, ElementOfSeq DEF TypeOK
<1> QED
    BY <1>2 DEF Range

LEMMA StoppedTyped ==
    ASSUME Stopped, committed' \in [Partition -> Nat]
    PROVE  /\ pc' \in Location
           /\ position' \in [Partition -> Nat]
           /\ conn' \in {"open", "lost", "closed"}
           /\ buffer' \in Seq(Event)
           /\ timer' \in {"off", "running", "expired"}
           /\ failures' \in Nat
           /\ batch' \in Seq(Event)
           /\ next' \in Nat \ {0}
BY EmptySeq DEF Stopped, EmptyBuffer, Location

LEMMA InitTyped == Init => TypeOK
BY EmptySeq DEF Init, TypeOK, Location

\* Every step keeps the type invariant: one case per action.
LEMMA StepTyped == TypeOK /\ HealthOfCurrent /\ [Next]_vars => TypeOK'
<1> SUFFICES ASSUME TypeOK, HealthOfCurrent, [Next]_vars PROVE TypeOK'
    OBVIOUS
<1> USE EmptySeq
<1>1. CASE Poll
    <2>0. PICK q \in Ahead : \E o \in Orders(q) : position' = q /\ Collect(EventsOf(o))
        BY <1>1 DEF Poll
    <2>1. PICK o \in Orders(q) : position' = q /\ Collect(EventsOf(o))
        BY <2>0
    <2>2. EventsOf(o) \in Seq(Event) /\ q \in [Partition -> Nat]
        BY FetchedEvents DEF TypeOK
    <2> QED
        BY <1>1, <2>1, <2>2, CollectTyped DEF Poll, TypeOK
<1>2. CASE TornPoll
    <2>0. PICK q \in Ahead : \E o \in Orders(q) : \E n \in 0..(Len(o) - 1) :
              position' = q /\ Collect(SubSeq(EventsOf(o), 1, n))
        BY <1>2 DEF TornPoll
    <2>9. PICK o \in Orders(q) : \E n \in 0..(Len(o) - 1) :
              position' = q /\ Collect(SubSeq(EventsOf(o), 1, n))
        BY <2>0
    <2>1. PICK n \in 0..(Len(o) - 1) :
              position' = q /\ Collect(SubSeq(EventsOf(o), 1, n))
        BY <2>9
    <2>2. EventsOf(o) \in Seq(Event) /\ q \in [Partition -> Nat] /\ Len(o) \in Nat
        BY FetchedEvents DEF TypeOK
    <2>3. Len(EventsOf(o)) = Len(o)
        BY FetchedEvents DEF TypeOK
    <2>4. SubSeq(EventsOf(o), 1, n) \in Seq(Event)
        BY <2>2, <2>3, SubSeqProperties
    <2>5. faults' \in [FaultKind -> Nat]
        BY <1>2, FaultTyped DEF TornPoll, FaultKind
    <2> QED
        BY <1>2, <2>1, <2>2, <2>4, <2>5, CollectTyped DEF TornPoll, TypeOK, Location
<1>3. CASE PollFails
    BY <1>3, FaultTyped DEF PollFails, TypeOK, FaultKind, Location
<1>4. CASE Rejoin
    BY <1>4, FaultTyped DEF Rejoin, TypeOK, FaultKind, Rewind
<1>5. CASE Reconnect
    BY <1>5 DEF Reconnect, TypeOK, Location, Rewind
<1>6. CASE ReconnectFails
    BY <1>6, FaultTyped DEF ReconnectFails, TypeOK, FaultKind, Location
<1>7. CASE Tick
    BY <1>7 DEF Tick, TypeOK
<1>8. CASE FlushUnbuildable
    BY <1>8, FlushFailedTyped DEF FlushUnbuildable, TypeOK
<1>9. CASE FlushNoRows
    BY <1>9, PassOverTyped DEF FlushNoRows, EmptyBuffer, TypeOK, Location
<1>10. CASE FlushApplied
    BY <1>10, AppliedTyped, PassOverTyped DEF FlushApplied, EmptyBuffer, TypeOK, Location
<1>11. CASE FlushNotApplied
    <2>1. NotApplied(buffer) \/ Unacknowledged(buffer)
        BY <1>11 DEF FlushNotApplied
    <2>2. buffer \in Seq(Event)
        BY DEF TypeOK
    <2> QED
        BY <1>11, <2>1, <2>2, AppliedTyped, FlushFailedTyped DEF FlushNotApplied, TypeOK
<1>12. CASE Commit
    BY <1>12 DEF Commit, TypeOK, Location, CommitPolled
<1>13. CASE CommitFails
    BY <1>13, FaultTyped DEF CommitFails, TypeOK, FaultKind, Location, CommitInDoubt
<1>14. CASE IsolateUnbuildable
    <2>1. batch[next] \in Event /\ DeadLetter(batch[next])
        BY <1>14, CurrentEvent DEF IsolateUnbuildable, Isolating
    <2> QED
        BY <1>14, <2>1, DeadLetterTyped DEF IsolateUnbuildable, TypeOK
<1>15. CASE IsolateSkipped
    <2>1. <<batch[next]>> \in Seq(Event)
        BY <1>15, CurrentEvent DEF IsolateSkipped, Isolating
    <2>2. dropped' \in SUBSET Event
        BY <1>15, <2>1, PassOverTyped DEF IsolateSkipped
    <2> QED
        BY <1>15, <2>2 DEF IsolateSkipped, TypeOK
<1>16. CASE IsolateApplied
    <2>1. <<batch[next]>> \in Seq(Event)
        BY <1>16, CurrentEvent DEF IsolateApplied, Isolating
    <2>2. Applied(<<batch[next]>>)
        BY <1>16 DEF IsolateApplied
    <2>3. /\ track' \in SUBSET Event
          /\ state' \in [Vessel -> Event \union {NoEvent}]
          /\ dbUp' \in BOOLEAN
          /\ conn' \in {"open", "lost", "closed"}
          /\ faults' \in [FaultKind -> Nat]
        BY <2>1, <2>2, AppliedTyped
    <2> QED
        BY <1>16, <2>3 DEF IsolateApplied, TypeOK
<1>17. CASE IsolateNotApplied
    <2>1. NotApplied(<<batch[next]>>) \/ Unacknowledged(<<batch[next]>>)
        BY <1>17 DEF IsolateNotApplied
    <2>2. <<batch[next]>> \in Seq(Event)
        BY <1>17, CurrentEvent DEF IsolateNotApplied, Isolating
    <2> QED
        BY <1>17, <2>1, <2>2, AppliedTyped DEF IsolateNotApplied, TypeOK, Location
<1>18. CASE Healthy
    <2>1. batch[next] \in Event /\ DeadLetter(batch[next])
        BY <1>18, CurrentEvent DEF Healthy, HealthOfCurrent
    <2> QED
        BY <1>18, <2>1, DeadLetterTyped DEF Healthy, TypeOK, Location
<1>19. CASE Unhealthy
    BY <1>19, ConcatProperties DEF Unhealthy, TypeOK, Location
<1>20. CASE IsolationDone
    BY <1>20 DEF IsolationDone, TypeOK, Location
<1>21. CASE Interrupt
    <2>1. faults' \in [FaultKind -> Nat]
        BY <1>21, FaultTyped DEF Interrupt, FaultKind
    <2> QED
        BY <1>21, <2>1 DEF Interrupt, TypeOK, Location
<1>22. CASE FinalFlush
    <2>1. buffer \in Seq(Event)
        BY DEF TypeOK
    <2>2. CASE NoRows(buffer)
        BY <1>22, <2>1, <2>2, PassOverTyped DEF FinalFlush, EmptyBuffer, TypeOK, Location
    <2>3. CASE Applied(buffer)
        BY <1>22, <2>1, <2>3, PassOverTyped, AppliedTyped
           DEF FinalFlush, EmptyBuffer, TypeOK, Location
    <2> QED
        BY <1>22, <2>2, <2>3 DEF FinalFlush
<1>23. CASE FinalFlushFails
    BY <1>23, StoppedTyped DEF FinalFlushFails, TypeOK
<1>24. CASE FinalCommit
    <2>1. committed' \in [Partition -> Nat]
        BY <1>24 DEF FinalCommit, TypeOK
    <2>2. faults' \in [FaultKind -> Nat]
        BY <1>24, FaultTyped DEF FinalCommit, TypeOK, FaultKind
    <2> QED
        BY <1>24, <2>1, <2>2, StoppedTyped DEF FinalCommit, TypeOK
<1>25. CASE Crash
    <2>1. faults' \in [FaultKind -> Nat]
        BY <1>25, FaultTyped DEF Crash, FaultKind
    <2> QED
        BY <1>25, <2>1, StoppedTyped DEF Crash, TypeOK
<1>26. CASE Restart
    BY <1>26 DEF Restart, TypeOK, Location, Rewind
<1>27. CASE DbDown
    BY <1>27, FaultTyped DEF DbDown, TypeOK, FaultKind
<1>28. CASE DbUp
    BY <1>28 DEF DbUp, TypeOK
<1>29. ASSUME NEW e \in Event, Produce(e) PROVE TypeOK'
    <2>1. log' \in [Partition -> Seq(Event)]
        BY <1>29, PublishAppends DEF Produce, TypeOK
    <2> QED
        BY <1>29, <2>1 DEF Produce, Publish, TypeOK
<1>30. CASE UNCHANGED vars
    BY <1>30 DEF vars, TypeOK
<1> QED
    BY <1>1, <1>2, <1>3, <1>4, <1>5, <1>6, <1>7, <1>8, <1>9, <1>10, <1>11, <1>12,
       <1>13, <1>14, <1>15, <1>16, <1>17, <1>18, <1>19, <1>20, <1>21, <1>22, <1>23,
       <1>24, <1>25, <1>26, <1>27, <1>28, <1>29, <1>30 DEF Next, Step, Failure

\* Only IsolateNotApplied leads to the health check, and only Healthy and
\* Unhealthy lead away from it.
LEMMA StepHealth == TypeOK /\ HealthOfCurrent /\ [Next]_vars => HealthOfCurrent'
<1> SUFFICES ASSUME TypeOK, HealthOfCurrent, [Next]_vars, pc' = "health"
             PROVE  next' =< Len(batch')
    BY DEF HealthOfCurrent
<1>1. CASE IsolateNotApplied
    BY <1>1 DEF IsolateNotApplied, Isolating
<1>2. CASE Tick \/ DbUp \/ DbDown \/ UNCHANGED vars \/ \E e \in Event : Produce(e)
    BY <1>2 DEF Tick, DbUp, DbDown, vars, Produce, HealthOfCurrent, Publish
<1>3. CASE \/ Step /\ ~IsolateNotApplied
           \/ (Failure /\ ~DbDown)
    BY <1>3 DEF Step, Failure, Poll, Reconnect, FlushUnbuildable, FlushNoRows,
       FlushApplied, FlushNotApplied, FlushFailed, Commit, IsolateUnbuildable,
       IsolateSkipped, IsolateApplied, Isolating, Healthy, Unhealthy, IsolationDone,
       FinalFlush, FinalFlushFails, FinalCommit, Restart, Stopped, TornPoll,
       PollFails, Rejoin, ReconnectFails, CommitFails, Interrupt, Crash,
       CommitPolled, CommitInDoubt, Rewind
<1> QED
    BY <1>1, <1>2, <1>3 DEF Next

\* Every reachable state is well typed, whatever fails.
THEOREM TypeCorrect == Spec => []TypeOK
<1>1. Init => TypeOK /\ HealthOfCurrent
    BY InitTyped DEF Init, HealthOfCurrent
<1>2. TypeOK /\ HealthOfCurrent /\ [Next]_vars => (TypeOK /\ HealthOfCurrent)'
    BY StepTyped, StepHealth
<1> QED
    BY <1>1, <1>2, PTL DEF Spec

-----------------------------------------------------------------------------
(* What a step may do to the logs, the offsets, the tables and the faults  *)

\* Nothing that is disposed of is taken back.
LEMMA HandledGrows == [Next]_vars => Handled \subseteq Handled'
<1> SUFFICES ASSUME [Next]_vars PROVE Handled \subseteq Handled'
    OBVIOUS
<1> USE DEF Handled
<1>1. ASSUME NEW es, Applied(es) \/ NotApplied(es) \/ Unacknowledged(es)
      PROVE  track \subseteq track'
    BY <1>1 DEF Applied, NotApplied, Unacknowledged, Written
<1>2. ASSUME NEW e, DeadLetter(e)
      PROVE  dlq \subseteq dlq' /\ dropped \subseteq dropped'
    BY <1>2 DEF DeadLetter
<1>3. CASE FlushNoRows \/ FlushApplied \/ FlushNotApplied
    BY <1>1, <1>3 DEF FlushNoRows, FlushApplied, FlushNotApplied, PassOver
<1>4. CASE IsolateUnbuildable \/ IsolateSkipped \/ Healthy
    BY <1>2, <1>4 DEF IsolateUnbuildable, IsolateSkipped, Healthy, PassOver
<1>5. CASE IsolateApplied \/ IsolateNotApplied
    BY <1>1, <1>5 DEF IsolateApplied, IsolateNotApplied
<1>6. CASE FinalFlush
    BY <1>1, <1>6 DEF FinalFlush, PassOver
<1>7. CASE \/ Poll \/ Reconnect \/ FlushUnbuildable \/ Commit \/ Unhealthy
           \/ IsolationDone \/ FinalFlushFails \/ FinalCommit \/ Restart
           \/ Tick \/ DbUp \/ UNCHANGED vars
    BY <1>7 DEF Poll, Reconnect, FlushUnbuildable, Commit, Unhealthy, IsolationDone,
       FinalFlushFails, FinalCommit, Restart, Tick, DbUp, vars, CommitPolled, Rewind
<1>8. CASE Failure
    BY <1>8 DEF Failure, TornPoll, PollFails, Rejoin, ReconnectFails, CommitFails,
       Interrupt, Crash, DbDown, CommitInDoubt, Rewind
<1>9. CASE \E e \in Event : Produce(e)
    BY <1>9 DEF Produce, Publish
<1> QED
    BY <1>3, <1>4, <1>5, <1>6, <1>7, <1>8, <1>9 DEF Next, Step

\* Ctrl-C in the middle of a poll is not undone.
LEMMA FaultGrows ==
    ASSUME TypeOK, NEW k \in FaultKind, Fault(k)
    PROVE  Untorn' => Untorn /\ k # "torn"
<1>1. faults[k] \in Nat /\ faults["torn"] \in Nat
    BY DEF TypeOK, FaultKind
<1> QED
    BY <1>1 DEF Fault, TypeOK, Untorn, FaultKind

LEMMA UntornBefore == TypeOK /\ [Next]_vars => (Untorn' => Untorn /\ ~TornPoll)
<1> SUFFICES ASSUME TypeOK, [Next]_vars, Untorn' PROVE Untorn /\ ~TornPoll
    OBVIOUS
<1>1. "torn" \in FaultKind /\ ~TornPoll
    BY FaultGrows DEF TornPoll, FaultKind
<1>2. Fault("db") \/ Fault("broker") \/ Fault("dlq") \/ Fault("crash")
         \/ Fault("interrupt") => Untorn
    BY FaultGrows DEF FaultKind
<1>3. ASSUME UNCHANGED faults PROVE Untorn
    BY <1>3 DEF Untorn
<1>5. ASSUME NEW es, Applied(es) \/ NotApplied(es) \/ Unacknowledged(es)
      PROVE  Untorn
    BY <1>2, <1>3, <1>5 DEF Applied, NotApplied, Unacknowledged
<1>6. ASSUME NEW e, DeadLetter(e) PROVE Untorn
    BY <1>2, <1>3, <1>6 DEF DeadLetter
<1>7. CASE FlushApplied \/ FlushNotApplied \/ IsolateApplied \/ IsolateNotApplied
    BY <1>1, <1>5, <1>7 DEF FlushApplied, FlushNotApplied, IsolateApplied, IsolateNotApplied
<1>8. CASE IsolateUnbuildable \/ Healthy
    BY <1>1, <1>6, <1>8 DEF IsolateUnbuildable, Healthy
<1>9. CASE FinalFlush
    BY <1>1, <1>3, <1>5, <1>9 DEF FinalFlush
<1>10. CASE \/ Poll \/ Reconnect \/ FlushUnbuildable \/ FlushNoRows \/ Commit
            \/ IsolateSkipped \/ Unhealthy \/ IsolationDone \/ FinalFlushFails
            \/ Restart \/ Tick \/ DbUp \/ UNCHANGED vars
    BY <1>1, <1>3, <1>10 DEF Poll, Reconnect, FlushUnbuildable, FlushNoRows, Commit,
       IsolateSkipped, Unhealthy, IsolationDone, FinalFlushFails, Restart, Tick, DbUp, vars,
       CommitPolled, Rewind
<1>11. CASE FinalCommit
    BY <1>1, <1>2, <1>3, <1>11 DEF FinalCommit
<1>12. CASE Failure
    BY <1>1, <1>2, <1>12 DEF Failure, PollFails, Rejoin, ReconnectFails,
       CommitFails, Interrupt, Crash, DbDown, CommitInDoubt, Rewind
<1>13. CASE \E e \in Event : Produce(e)
    BY <1>1, <1>3, <1>13 DEF Produce, Publish
<1> QED
    BY <1>1, <1>7, <1>8, <1>9, <1>10, <1>11, <1>12, <1>13 DEF Next, Step

\* Producing is the only step that touches a log, and it only appends.
LEMMA ProduceAppends ==
    ASSUME TypeOK, NEW e \in Event, Produce(e)
    PROVE  \A p \in Partition :
              /\ Len(log[p]) \in Nat /\ Len(log'[p]) \in Nat
              /\ Len(log[p]) =< Len(log'[p])
              /\ \A i \in 1..Len(log[p]) : log'[p][i] = log[p][i]
    BY PublishAppends DEF Produce, TypeOK

\* The offsets move in one of four ways.
LEMMA OffsetStep ==
    ASSUME TypeOK, [Next]_vars
    PROVE  \/ UNCHANGED <<log, committed, position>>
           \/ (Poll \/ TornPoll) /\ UNCHANGED <<log, committed>> /\ position' \in Ahead
           \/ /\ UNCHANGED log
              /\ committed' \in {committed, position}
              /\ position' \in {position, committed'}
           \/ UNCHANGED <<committed, position>> /\ \E e \in Event : Produce(e)
<1>1. CASE Poll \/ TornPoll
    BY <1>1 DEF Poll, TornPoll
<1>2. CASE \/ FlushUnbuildable \/ FlushNoRows \/ FlushApplied \/ FlushNotApplied
           \/ IsolateUnbuildable \/ IsolateSkipped \/ IsolateApplied
           \/ IsolateNotApplied \/ Healthy \/ Unhealthy \/ IsolationDone
           \/ FinalFlush \/ Tick \/ DbUp \/ UNCHANGED vars
    BY <1>2 DEF FlushUnbuildable, FlushNoRows, FlushApplied, FlushNotApplied,
       IsolateUnbuildable, IsolateSkipped, IsolateApplied, IsolateNotApplied, Healthy,
       Unhealthy, IsolationDone, FinalFlush, Tick, DbUp, vars
<1>3. CASE Reconnect \/ Commit \/ FinalFlushFails \/ FinalCommit \/ Restart
    BY <1>3 DEF Reconnect, Commit, FinalFlushFails, FinalCommit, Restart, Stopped,
       CommitPolled, Rewind
<1>4. CASE Failure /\ ~TornPoll
    BY <1>4 DEF Failure, PollFails, Rejoin, ReconnectFails, CommitFails, Interrupt,
       Crash, DbDown, Stopped, CommitInDoubt, Rewind
<1>5. CASE \E e \in Event : Produce(e)
    BY <1>5 DEF Produce, Publish
<1> QED
    BY <1>1, <1>2, <1>3, <1>4, <1>5 DEF Next, Step, Failure

LEMMA StepOffsets == TypeOK /\ OffsetsInRange /\ [Next]_vars => OffsetsInRange'
<1> SUFFICES ASSUME TypeOK, OffsetsInRange, [Next]_vars PROVE OffsetsInRange'
    OBVIOUS
<1>1. TopicStep
    BY OffsetStep DEF TopicStep, Produce
<1> QED
    BY <1>1, TopicStepOffsets DEF TypeOK

-----------------------------------------------------------------------------
(* A flush or an isolation step disposes of its events                     *)

\* A batch that is built and accepted by the database leaves no event behind.
LEMMA BatchHandled ==
    ASSUME NEW es \in Seq(Event), PassOver(es),
           NoRows(es) \/ (Builds(es) /\ Applied(es))
    PROVE  Range(es) \subseteq Handled'
<1>1. Range(es) \subseteq Event
    BY RangeOfSeq
<1>2. \A e \in Range(es) : KindOf[e] \in Kind
    BY <1>1, EventAssumption
<1>3. OfKind(es, "skipped") \subseteq dropped'
    BY DEF PassOver
<1>4. CASE NoRows(es)
    BY <1>3, <1>4 DEF NoRows, OfKind, Handled
<1>5. CASE Builds(es) /\ Applied(es)
    <2>1. \A e \in Range(es) : KindOf[e] \in {"ok", "skipped"}
        BY <1>2, <1>5 DEF Builds, Applied, OfKind, Kind
    <2>2. OfKind(es, "ok") \subseteq track'
        BY <1>5 DEF Applied, Written
    <2> QED
        BY <1>3, <2>1, <2>2 DEF OfKind, Handled
<1> QED
    BY <1>4, <1>5

\* Each step that moves on to the next event has disposed of the current one.
LEMMA CurrentHandled ==
    ASSUME TypeOK, HealthOfCurrent,
           IsolateUnbuildable \/ IsolateSkipped \/ IsolateApplied \/ Healthy
    PROVE  batch[next] \in Handled'
<1>1. next =< Len(batch)
    BY DEF IsolateUnbuildable, IsolateSkipped, IsolateApplied, Healthy, Isolating,
           HealthOfCurrent
<1>2. /\ batch[next] \in Event
      /\ Range(<<batch[next]>>) = {batch[next]}
    BY <1>1, CurrentEvent
<1>3. CASE IsolateUnbuildable \/ Healthy
    BY <1>3 DEF IsolateUnbuildable, Healthy, DeadLetter, Handled
<1>4. CASE IsolateSkipped
    BY <1>2, <1>4 DEF IsolateSkipped, PassOver, OfKind, Handled
<1>5. CASE IsolateApplied
    <2>1. KindOf[batch[next]] = "ok"
        BY <1>2, <1>5 DEF IsolateApplied, HasRow, Applied, OfKind
    <2> QED
        BY <1>2, <1>5, <2>1 DEF IsolateApplied, Applied, Written, OfKind, Handled
<1> QED
    BY <1>3, <1>4, <1>5

LEMMA StepBatch ==
    TypeOK /\ BatchProgress /\ [Next]_vars => BatchProgress'
<1> SUFFICES ASSUME TypeOK, BatchProgress, [Next]_vars PROVE BatchProgress'
    OBVIOUS
<1>1. HealthOfCurrent /\ HealthOfCurrent'
    BY StepHealth DEF BatchProgress
<1>2. Handled \subseteq Handled'
    BY HandledGrows
<1>3. next \in Nat \ {0} /\ batch \in Seq(Event) /\ Len(batch) \in Nat
    BY LenProperties DEF TypeOK
<1>4. ASSUME batch' = <<>>, next' = 1, pc' \notin {"event", "health"},
             pc' \in {"commit", "commitEmpty", "finalCommit"} => buffer' = <<>>
      PROVE  BatchProgress'
    BY <1>1, <1>4 DEF BatchProgress
<1>5. CASE UNCHANGED <<batch, next, buffer, pc>>
    BY <1>1, <1>2, <1>5 DEF BatchProgress
<1>6. CASE \/ Poll \/ TornPoll \/ PollFails \/ Reconnect \/ ReconnectFails
           \/ FlushNoRows \/ FlushApplied \/ Commit \/ CommitFails
    <2>1. batch = <<>> /\ next = 1
        BY <1>6 DEF BatchProgress, Poll, TornPoll, PollFails, Reconnect, ReconnectFails,
           FlushNoRows, FlushApplied, Commit, CommitFails,
           CommitPolled, CommitInDoubt, Rewind
    <2> QED
        BY <1>4, <1>6, <2>1 DEF Poll, TornPoll, PollFails, Reconnect, ReconnectFails,
           FlushNoRows, FlushApplied, Commit, CommitFails, EmptyBuffer,
           CommitPolled, CommitInDoubt, Rewind
<1>7. CASE FlushUnbuildable \/ FlushNotApplied
    <2>1. batch = <<>> /\ next = 1 /\ pc = "run"
        BY <1>7 DEF BatchProgress, FlushUnbuildable, FlushNotApplied
    <2>2. PICK t \in {"off", "running"} : FlushFailed(t)
        BY <1>7 DEF FlushUnbuildable, FlushNotApplied
    <2>3. CASE failures + 1 >= MaxRetainRetries
        <3>1. next' = 1 /\ buffer' = <<>> /\ pc' = "event" /\ batch' = buffer
            BY <2>2, <2>3 DEF FlushFailed, EmptyBuffer
        <3>2. Len(batch') \in Nat
            BY <3>1, LenProperties DEF TypeOK
        <3> QED
            BY <1>1, <3>1, <3>2 DEF BatchProgress
    <2>4. CASE ~(failures + 1 >= MaxRetainRetries)
        BY <1>4, <2>1, <2>2, <2>4 DEF FlushFailed
    <2> QED
        BY <2>3, <2>4
<1>8. CASE IsolateUnbuildable \/ IsolateSkipped \/ IsolateApplied \/ Healthy
    <2>1. next' = next + 1 /\ pc' = "event" /\ UNCHANGED <<batch, buffer>>
        BY <1>8 DEF IsolateUnbuildable, IsolateSkipped, IsolateApplied, Healthy, Isolating
    <2>2. next =< Len(batch) /\ buffer = <<>>
        BY <1>1, <1>8 DEF IsolateUnbuildable, IsolateSkipped, IsolateApplied, Healthy,
           Isolating, HealthOfCurrent, BatchProgress
    <2>3. batch[next] \in Handled'
        BY <1>1, <1>8, CurrentHandled
    <2> QED
        BY <1>1, <1>2, <1>3, <2>1, <2>2, <2>3 DEF BatchProgress
<1>9. CASE IsolateNotApplied
    BY <1>1, <1>2, <1>9 DEF IsolateNotApplied, Isolating, BatchProgress
<1>10. CASE Unhealthy \/ IsolationDone \/ Interrupt
    BY <1>4, <1>10 DEF Unhealthy, IsolationDone, Interrupt, BatchProgress
<1>11. CASE FinalFlush \/ FinalFlushFails \/ FinalCommit \/ Crash \/ Restart
    BY <1>4, <1>11 DEF FinalFlush, FinalFlushFails, FinalCommit, Crash, Restart, Stopped,
       EmptyBuffer, BatchProgress, Rewind
<1>12. CASE Tick \/ DbUp \/ DbDown \/ Rejoin \/ UNCHANGED vars \/ \E e \in Event : Produce(e)
    BY <1>5, <1>12 DEF Tick, DbUp, DbDown, Rejoin, vars, Produce, Rewind, Publish
<1> QED
    BY <1>6, <1>7, <1>8, <1>9, <1>10, <1>11, <1>12 DEF Next, Step, Failure

-----------------------------------------------------------------------------
(* The inductive invariant                                                 *)

LEMMA LoggedGrows == TypeOK /\ [Next]_vars => Logged \subseteq Logged'
<1> SUFFICES ASSUME TypeOK, [Next]_vars PROVE Logged \subseteq Logged'
    OBVIOUS
<1>1. CASE UNCHANGED log
    BY <1>1 DEF Logged
<1>2. ASSUME NEW e \in Event, Produce(e) PROVE Logged \subseteq Logged'
    BY <1>2, ProduceAppends DEF Logged
<1> QED
    BY <1>1, <1>2, OffsetStep

\* A step holds nothing but what was held before and what it polled.
LEMMA HeldStep ==
    ASSUME TypeOK, [Next]_vars
    PROVE  Held' \subseteq Held \union Unread
<1> USE DEF Held
<1>0. /\ buffer \in Seq(Event) /\ batch \in Seq(Event)
      /\ Range(<<>>) = {}
    BY DEF TypeOK, Range
<1>1. ASSUME NEW es \in Seq(Event), Range(es) \subseteq Unread, Collect(es),
             UNCHANGED batch
      PROVE  Held' \subseteq Held \union Unread
    <2>1. Range(buffer') = Range(buffer) \union Range(es)
        BY <1>0, <1>1, RangeConcatenation DEF Collect
    <2> QED
        BY <1>1, <2>1
<1>2. CASE Poll
    <2>1. PICK q \in Ahead : \E o \in Orders(q) : Collect(EventsOf(o))
        BY <1>2 DEF Poll
    <2>2. PICK o \in Orders(q) : Collect(EventsOf(o))
        BY <2>1
    <2> QED
        BY <1>1, <1>2, <2>2, FetchedEvents, FetchedRecords DEF Poll, TypeOK
<1>3. CASE TornPoll
    <2>1. PICK q \in Ahead : \E o \in Orders(q) : \E n \in 0..(Len(o) - 1) :
              Collect(SubSeq(EventsOf(o), 1, n))
        BY <1>3 DEF TornPoll
    <2>2. PICK o \in Orders(q) : \E n \in 0..(Len(o) - 1) :
              Collect(SubSeq(EventsOf(o), 1, n))
        BY <2>1
    <2>3. PICK n \in 0..(Len(o) - 1) : Collect(SubSeq(EventsOf(o), 1, n))
        BY <2>2
    <2>4. /\ EventsOf(o) \in Seq(Event) /\ Len(o) \in Nat
          /\ Len(EventsOf(o)) = Len(o)
          /\ Range(EventsOf(o)) \subseteq Unread
        BY FetchedEvents, FetchedRecords DEF TypeOK
    <2> DEFINE es == SubSeq(EventsOf(o), 1, n)
    <2>5. es \in Seq(Event) /\ Len(es) = n /\ \A i \in 1..n : es[i] = EventsOf(o)[i]
        BY <2>4, SubSeqProperties
    <2>6. Range(es) \subseteq Range(EventsOf(o))
        <3>1. Range(es) = {es[i] : i \in 1..n}
            BY <2>5, RangeEquality
        <3>2. Range(EventsOf(o)) = {EventsOf(o)[i] : i \in 1..Len(o)}
            BY <2>4, RangeEquality
        <3>3. \A i \in 1..n : i \in 1..Len(o)
            BY <2>4
        <3> HIDE DEF es
        <3> QED
            BY <2>5, <3>1, <3>2, <3>3
    <2> QED
        BY <1>1, <1>3, <2>3, <2>4, <2>5, <2>6 DEF TornPoll
<1>4. ASSUME NEW t, FlushFailed(t) PROVE Held' \subseteq Held
    BY <1>0, <1>4 DEF FlushFailed, EmptyBuffer
<1>5. CASE FlushUnbuildable \/ FlushNotApplied
    BY <1>4, <1>5 DEF FlushUnbuildable, FlushNotApplied
<1>6. CASE Unhealthy
    <2>1. Range(buffer') = Range(batch) \union Range(buffer)
        BY <1>0, <1>6, RangeConcatenation DEF Unhealthy
    <2> QED
        BY <1>0, <1>6, <2>1 DEF Unhealthy
<1>7. CASE \/ FlushNoRows \/ FlushApplied \/ IsolationDone \/ Interrupt
           \/ FinalFlush \/ FinalFlushFails \/ FinalCommit \/ Crash
    BY <1>0, <1>7 DEF FlushNoRows, FlushApplied, IsolationDone, Interrupt, FinalFlush,
       FinalFlushFails, FinalCommit, Crash, Stopped, EmptyBuffer
<1>8. CASE \/ PollFails \/ Rejoin \/ Reconnect \/ ReconnectFails \/ Commit \/ CommitFails
           \/ IsolateUnbuildable \/ IsolateSkipped \/ IsolateApplied
           \/ IsolateNotApplied \/ Healthy \/ Restart \/ Tick \/ DbUp \/ DbDown
           \/ UNCHANGED vars \/ \E e \in Event : Produce(e)
    BY <1>8 DEF PollFails, Rejoin, Reconnect, ReconnectFails, Commit, CommitFails,
       IsolateUnbuildable, IsolateSkipped, IsolateApplied, IsolateNotApplied, Healthy,
       Restart, Tick, DbUp, DbDown, vars, Produce,
       CommitPolled, CommitInDoubt, Rewind, Publish
<1> QED
    BY <1>2, <1>3, <1>5, <1>6, <1>7, <1>8 DEF Next, Step, Failure

LEMMA StepHeld == TypeOK /\ HeldIsLogged /\ [Next]_vars => HeldIsLogged'
BY HeldStep, LoggedGrows DEF HeldIsLogged, Unread, Logged

\* A flush or an isolation step forgets an event only once it is disposed of.
LEMMA FlushKeeps ==
    ASSUME TypeOK, BatchProgress,
           \/ FlushUnbuildable \/ FlushNoRows \/ FlushApplied \/ FlushNotApplied
           \/ IsolateUnbuildable \/ IsolateSkipped \/ IsolateApplied
           \/ IsolateNotApplied \/ Healthy \/ Unhealthy \/ IsolationDone \/ FinalFlush
    PROVE  Held \subseteq Held' \union Handled'
<1> USE DEF Held
<1>0. /\ buffer \in Seq(Event) /\ batch \in Seq(Event)
      /\ Range(<<>>) = {}
    BY DEF TypeOK, Range
<1>1. CASE FlushUnbuildable \/ FlushNotApplied
    <2>1. PICK t \in {"off", "running"} : FlushFailed(t)
        BY <1>1 DEF FlushUnbuildable, FlushNotApplied
    <2>2. batch = <<>>
        BY <1>1 DEF BatchProgress, FlushUnbuildable, FlushNotApplied
    <2> QED
        BY <1>0, <2>1, <2>2 DEF FlushFailed
<1>2. CASE FlushNoRows \/ FlushApplied \/ FinalFlush
    <2>1. Range(buffer) \subseteq Handled'
        <3>1. /\ PassOver(buffer)
              /\ NoRows(buffer) \/ (Builds(buffer) /\ Applied(buffer))
            BY <1>2 DEF FlushNoRows, FlushApplied, FinalFlush
        <3> QED
            BY <1>0, <3>1, BatchHandled
    <2>2. UNCHANGED batch
        BY <1>2 DEF FlushNoRows, FlushApplied, FinalFlush
    <2> QED
        BY <2>1, <2>2
<1>3. CASE \/ IsolateUnbuildable \/ IsolateSkipped \/ IsolateApplied
           \/ IsolateNotApplied \/ Healthy
    BY <1>3 DEF IsolateUnbuildable, IsolateSkipped, IsolateApplied, IsolateNotApplied, Healthy
<1>4. CASE Unhealthy
    <2>1. Range(buffer') = Range(batch) \union Range(buffer)
        BY <1>0, <1>4, RangeConcatenation DEF Unhealthy
    <2> QED
        BY <2>1
<1>5. CASE IsolationDone
    <2>1. Len(batch) \in Nat /\ next \in Nat
        BY <1>0, LenProperties DEF TypeOK
    <2>2. Range(batch) = {batch[j] : j \in 1..Len(batch)}
        BY <1>0, RangeEquality
    <2>3. \A j \in 1..Len(batch) : batch[j] \in Handled
        BY <1>5, <2>1 DEF IsolationDone, BatchProgress
    <2>4. UNCHANGED <<buffer, Handled>>
        BY <1>5 DEF IsolationDone, Handled
    <2> QED
        BY <2>2, <2>3, <2>4
<1> QED
    BY <1>1, <1>2, <1>3, <1>4, <1>5

LEMMA StepAccounted == IInv /\ [Next]_vars => PolledAccounted'
<1> SUFFICES ASSUME IInv, [Next]_vars, Untorn', Accountable',
                    NEW p \in Partition, NEW i \in (committed'[p] + 1)..position'[p]
             PROVE  log'[p][i] \in Handled' \union Held'
    BY DEF PolledAccounted
<1>1. TypeOK /\ OffsetsInRange /\ BatchProgress /\ PolledAccounted
    BY DEF IInv
<1>2. Untorn /\ ~TornPoll
    BY <1>1, UntornBefore
<1>3. Handled \subseteq Handled'
    BY HandledGrows
<1>4. /\ committed[p] \in Nat /\ position[p] \in Nat
      /\ log[p] \in Seq(Event) /\ Len(log[p]) \in Nat
      /\ committed[p] =< position[p] /\ position[p] =< Len(log[p])
    BY <1>1, LenProperties DEF TypeOK, OffsetsInRange
<1>5. ASSUME Accountable
      PROVE  \A k \in (committed[p] + 1)..position[p] : log[p][k] \in Handled \union Held
    BY <1>1, <1>2, <1>5 DEF PolledAccounted
<1>6. ASSUME Accountable, UNCHANGED <<log, committed, position>>,
             Held \subseteq Held' \union Handled'
      PROVE  log'[p][i] \in Handled' \union Held'
    BY <1>3, <1>5, <1>6
<1>7. ASSUME position' = committed'
      PROVE  log'[p][i] \in Handled' \union Held'
    <2>1. committed'[p] \in Nat
        BY <1>1, StepTyped DEF BatchProgress, TypeOK
    <2> QED
        BY <1>7, <2>1
<1>8. CASE Poll
    <2>1. PICK q \in Ahead : \E o \in Orders(q) : position' = q /\ Collect(EventsOf(o))
        BY <1>8 DEF Poll
    <2>2. PICK o \in Orders(q) : position' = q /\ Collect(EventsOf(o))
        BY <2>1
    <2>3. /\ EventsOf(o) \in Seq(Event)
          /\ q \in [Partition -> Nat]
          /\ \A k \in (position[p] + 1)..q[p] : log[p][k] \in Range(EventsOf(o))
        BY <1>1, FetchedEvents DEF TypeOK
    <2>4. Range(buffer') = Range(buffer) \union Range(EventsOf(o))
        BY <1>1, <2>2, <2>3, RangeConcatenation DEF Collect, TypeOK
    <2>5. /\ UNCHANGED <<log, committed, batch>> /\ Accountable
        BY <1>8 DEF Poll, Accountable
    <2>6. i \in (committed[p] + 1)..position[p] \/ i \in (position[p] + 1)..q[p]
        BY <1>4, <2>2, <2>3, <2>5
    <2> QED
        BY <1>3, <1>5, <2>3, <2>4, <2>5, <2>6 DEF Held
<1>9. CASE \/ FlushUnbuildable \/ FlushNoRows \/ FlushApplied \/ FlushNotApplied
           \/ IsolateUnbuildable \/ IsolateSkipped \/ IsolateApplied
           \/ IsolateNotApplied \/ Healthy \/ Unhealthy \/ IsolationDone \/ FinalFlush
    <2>1. Held \subseteq Held' \union Handled'
        BY <1>1, <1>9, FlushKeeps
    <2>2. UNCHANGED <<log, committed, position>>
        BY <1>9 DEF FlushUnbuildable, FlushNoRows, FlushApplied, FlushNotApplied,
           IsolateUnbuildable, IsolateSkipped, IsolateApplied, IsolateNotApplied,
           Healthy, Unhealthy, IsolationDone, FinalFlush
    <2>3. Accountable
        BY <1>9 DEF Accountable, FlushUnbuildable, FlushNoRows, FlushApplied,
           FlushNotApplied, IsolateUnbuildable, IsolateSkipped, IsolateApplied,
           IsolateNotApplied, Isolating, Healthy, Unhealthy, IsolationDone, FinalFlush
    <2> QED
        BY <1>6, <2>1, <2>2, <2>3
<1>10. CASE PollFails \/ Tick \/ DbUp \/ DbDown \/ UNCHANGED vars
    BY <1>6, <1>10 DEF PollFails, Tick, DbUp, DbDown, vars, Accountable, Held
<1>11. CASE ReconnectFails
    BY <1>11 DEF ReconnectFails, Accountable
<1>12. CASE Interrupt
    <2>1. buffer # <<>> /\ pc' = "final" /\ UNCHANGED <<log, committed, position, buffer>>
        BY <1>12 DEF Interrupt, Accountable
    <2>2. pc \notin {"event", "health"} /\ batch = <<>> /\ Accountable
        BY <1>1, <1>12, <2>1 DEF Interrupt, BatchProgress, Accountable
    <2> QED
        BY <1>6, <1>12, <2>1, <2>2 DEF Interrupt, Held
<1>13. CASE \/ Rejoin \/ Reconnect \/ Commit \/ FinalFlushFails \/ FinalCommit
            \/ Crash \/ Restart
    BY <1>7, <1>13 DEF Rejoin, Reconnect, Commit, FinalFlushFails, FinalCommit, Crash,
       Restart, Stopped, CommitPolled, Rewind
<1>14. CASE CommitFails
    BY <1>6, <1>7, <1>14 DEF CommitFails, Accountable, Held, CommitInDoubt
<1>15. ASSUME NEW e \in Event, Produce(e) PROVE log'[p][i] \in Handled' \union Held'
    <2>1. UNCHANGED <<committed, position, Held>> /\ Accountable
        BY <1>15 DEF Produce, Held, Accountable, Publish
    <2>2. log'[p][i] = log[p][i]
        BY <1>1, <1>4, <1>15, <2>1, ProduceAppends
    <2> QED
        BY <1>3, <1>5, <2>1, <2>2
<1> QED
    BY <1>2, <1>8, <1>9, <1>10, <1>11, <1>12, <1>13, <1>14, <1>15 DEF Next, Step, Failure

\* A commit acknowledges the polled records, which are all disposed of: there is
\* neither a buffer nor a batch left.
LEMMA StepAtLeastOnce == IInv /\ [Next]_vars => AtLeastOnce'
<1> SUFFICES ASSUME IInv, [Next]_vars, Untorn',
                    NEW p \in Partition, NEW i \in 1..committed'[p]
             PROVE  log'[p][i] \in Handled'
    BY DEF AtLeastOnce, CommittedHandled
<1>1. TypeOK /\ OffsetsInRange /\ BatchProgress /\ PolledAccounted /\ AtLeastOnce
    BY DEF IInv
<1>2. Untorn /\ ~TornPoll /\ Handled \subseteq Handled'
    BY <1>1, UntornBefore, HandledGrows
<1>3. /\ committed[p] \in Nat /\ position[p] \in Nat
      /\ log[p] \in Seq(Event) /\ Len(log[p]) \in Nat
      /\ committed[p] =< position[p] /\ position[p] =< Len(log[p])
    BY <1>1, LenProperties DEF TypeOK, OffsetsInRange
<1>4. \A k \in 1..committed[p] : log[p][k] \in Handled
    BY <1>1, <1>2 DEF AtLeastOnce, CommittedHandled
<1>5. CASE UNCHANGED <<log, committed>>
    BY <1>2, <1>4, <1>5
<1>6. CASE Commit \/ CommitFails \/ FinalCommit
    <2>1. buffer = <<>> /\ batch = <<>> /\ Accountable
        BY <1>1, <1>6 DEF BatchProgress, Accountable, Commit, CommitFails, FinalCommit,
           CommitPolled, CommitInDoubt
    <2>2. Held = {}
        BY <2>1 DEF Held, Range
    <2>3. \A k \in (committed[p] + 1)..position[p] : log[p][k] \in Handled
        BY <1>1, <1>2, <2>1, <2>2 DEF PolledAccounted
    <2>4. UNCHANGED log /\ committed' \in {committed, position}
        BY <1>6 DEF Commit, CommitFails, FinalCommit, CommitPolled, CommitInDoubt
    <2>5. i \in 1..committed[p] \/ i \in (committed[p] + 1)..position[p]
        BY <1>3, <2>4
    <2> QED
        BY <1>2, <1>4, <2>3, <2>4, <2>5
<1>7. ASSUME NEW e \in Event, Produce(e) PROVE log'[p][i] \in Handled'
    <2>1. UNCHANGED committed
        BY <1>7 DEF Produce, Publish
    <2>2. log'[p][i] = log[p][i]
        BY <1>1, <1>3, <1>7, <2>1, ProduceAppends
    <2> QED
        BY <1>2, <1>4, <2>1, <2>2
<1>8. CASE ~(Commit \/ CommitFails \/ FinalCommit \/ \E e \in Event : Produce(e))
    <2>1. UNCHANGED <<log, committed>>
        BY <1>8 DEF Next, Step, Failure, Poll, Reconnect, FlushUnbuildable, FlushNoRows,
           FlushApplied, FlushNotApplied, IsolateUnbuildable, IsolateSkipped,
           IsolateApplied, IsolateNotApplied, Healthy, Unhealthy, IsolationDone,
           FinalFlush, FinalFlushFails, Restart, TornPoll, PollFails, Rejoin,
           ReconnectFails, Interrupt, Crash, DbDown, Tick, DbUp, vars, Rewind
    <2> QED
        BY <1>5, <2>1
<1> QED
    BY <1>6, <1>7, <1>8

LEMMA InitIInv == Init => IInv
<1> SUFFICES ASSUME Init PROVE IInv
    OBVIOUS
<1>1. TypeOK
    BY InitTyped
<1>2. OffsetsInRange
    BY DEF Init, OffsetsInRange
<1>3. BatchProgress
    BY DEF Init, BatchProgress, HealthOfCurrent
<1>4. HeldIsLogged
    BY DEF Init, HeldIsLogged, Held, Range
<1>5. PolledAccounted /\ AtLeastOnce
    BY DEF Init, PolledAccounted, AtLeastOnce, CommittedHandled
<1> QED
    BY <1>1, <1>2, <1>3, <1>4, <1>5 DEF IInv

LEMMA StepIInv == IInv /\ [Next]_vars => IInv'
<1> SUFFICES ASSUME IInv, [Next]_vars PROVE IInv'
    OBVIOUS
<1>1. TypeOK /\ OffsetsInRange /\ BatchProgress /\ HeldIsLogged
    BY DEF IInv
<1>2. TypeOK'
    BY <1>1, StepTyped DEF BatchProgress
<1> QED
    BY <1>1, <1>2, StepOffsets, StepBatch, StepHeld, StepAccounted, StepAtLeastOnce DEF IInv

\* The inductive invariant holds for any number of events, partitions and failures.
THEOREM Invariance == Spec => []IInv
    BY InitIInv, StepIInv, PTL DEF Spec

\* Through retries, isolation, reconnections, crashes and restarts, no record is
\* acknowledged that was not disposed of, unless Ctrl-C tore a poll.
THEOREM DeliveredAtLeastOnce == Spec => []AtLeastOnce
<1>1. IInv => AtLeastOnce
    BY DEF IInv
<1> QED
    BY <1>1, Invariance, PTL

-----------------------------------------------------------------------------
(* StreamProcessor implements Delivery                                     *)

\* Only what the process held can be disposed of.
LEMMA HandledStep ==
    ASSUME TypeOK, HealthOfCurrent, [Next]_vars
    PROVE  Handled' \subseteq Handled \union Held
<1> USE DEF Handled, Held
<1>0. buffer \in Seq(Event) /\ batch \in Seq(Event) /\ Len(batch) \in Nat
    BY LenProperties DEF TypeOK
<1>1. ASSUME NEW es, Applied(es) \/ NotApplied(es) \/ Unacknowledged(es)
      PROVE  track' \subseteq track \union Range(es)
    BY <1>1 DEF Applied, NotApplied, Unacknowledged, Written, OfKind
<1>2. ASSUME NEW e, DeadLetter(e)
      PROVE  dlq' \union dropped' \subseteq dlq \union dropped \union {e}
    BY <1>2 DEF DeadLetter
<1>3. ASSUME NEW es, PassOver(es) PROVE dropped' \subseteq dropped \union Range(es)
    BY <1>3 DEF PassOver, OfKind
<1>4. CASE FlushNoRows \/ FlushApplied \/ FlushNotApplied \/ FinalFlush
    BY <1>1, <1>3, <1>4 DEF FlushNoRows, FlushApplied, FlushNotApplied, FinalFlush
<1>5. CASE \/ IsolateUnbuildable \/ IsolateSkipped \/ IsolateApplied
           \/ IsolateNotApplied \/ Healthy
    <2>1. next =< Len(batch)
        BY <1>5 DEF IsolateUnbuildable, IsolateSkipped, IsolateApplied,
           IsolateNotApplied, Healthy, Isolating, HealthOfCurrent
    <2>2. Range(<<batch[next]>>) = {batch[next]}
        BY <2>1, CurrentEvent
    <2>3. batch[next] \in Range(batch)
        BY <1>0, <2>1, RangeEquality DEF TypeOK
    <2>4. CASE IsolateUnbuildable \/ Healthy
        BY <1>2, <2>3, <2>4 DEF IsolateUnbuildable, Healthy
    <2>5. CASE IsolateSkipped
        BY <1>3, <2>2, <2>3, <2>5 DEF IsolateSkipped
    <2>6. CASE IsolateApplied \/ IsolateNotApplied
        BY <1>1, <2>2, <2>3, <2>6 DEF IsolateApplied, IsolateNotApplied
    <2> QED
        BY <1>5, <2>4, <2>5, <2>6
<1>6. CASE \/ Poll \/ Reconnect \/ FlushUnbuildable \/ Commit \/ Unhealthy
           \/ IsolationDone \/ FinalFlushFails \/ FinalCommit \/ Restart
           \/ Tick \/ DbUp \/ UNCHANGED vars
    BY <1>6 DEF Poll, Reconnect, FlushUnbuildable, Commit, Unhealthy, IsolationDone,
       FinalFlushFails, FinalCommit, Restart, Tick, DbUp, vars, CommitPolled, Rewind
<1>7. CASE Failure \/ \E e \in Event : Produce(e)
    BY <1>7 DEF Failure, TornPoll, PollFails, Rejoin, ReconnectFails, CommitFails,
       Interrupt, Crash, DbDown, Produce, CommitInDoubt, Rewind, Publish
<1> QED
    BY <1>4, <1>5, <1>6, <1>7 DEF Next, Step

LEMMA InitAbstract == Init => Abstract!Init
BY DEF Init, Abstract!Init, Handled

\* A commit is an Acknowledge, a flush or an isolation step a Handle, and
\* everything else but producing is a stutter of the abstract consumer.
LEMMA StepAbstract ==
    IInv /\ Untorn' /\ [Next]_vars => [Abstract!Next]_(Abstract!deliveryVars)
<1> SUFFICES ASSUME IInv, Untorn', [Next]_vars
             PROVE  Abstract!Next \/ UNCHANGED Abstract!deliveryVars
    OBVIOUS
<1>1. TypeOK /\ OffsetsInRange /\ HealthOfCurrent /\ HeldIsLogged
    BY DEF IInv, BatchProgress
<1>2. CASE Commit \/ CommitFails \/ FinalCommit
    <2>1. /\ UNCHANGED <<log, Handled>>
          /\ committed' \in {committed, position}
        BY <1>2 DEF Commit, CommitFails, FinalCommit, Handled, CommitPolled, CommitInDoubt
    <2>2. committed' \in [Partition -> Nat]
        BY <1>1, <2>1 DEF TypeOK
    <2>3. \A p \in Partition : committed[p] =< committed'[p] /\ committed'[p] =< Len(log[p])
        BY <1>1, <2>1, LenProperties DEF OffsetsInRange, TypeOK
    <2>4. \A p \in Partition : \A i \in 1..committed'[p] : log[p][i] \in Handled
        BY <2>1, StepAtLeastOnce DEF AtLeastOnce, CommittedHandled
    <2>5. \A p \in Partition : \A i \in (committed[p] + 1)..committed'[p] :
              log[p][i] \in Handled
        BY <1>1, <2>2, <2>4 DEF TypeOK
    <2> QED
        BY <2>1, <2>2, <2>3, <2>5 DEF Abstract!Next, Abstract!Acknowledge
<1>3. ASSUME NEW e \in Event, Produce(e)
      PROVE  Abstract!Next
    <2>1. PartitionOf[VesselOf[e]] \in Partition
        BY TopicAssumption
    <2>2. UNCHANGED <<Handled, committed>>
        BY <1>3 DEF Produce, Handled, Publish
    <2> QED
        BY <1>3, <2>1, <2>2 DEF Produce, Abstract!Next, Abstract!Produce, Publish
<1>4. CASE ~(Commit \/ CommitFails \/ FinalCommit \/ \E e \in Event : Produce(e))
    <2>1. UNCHANGED <<log, committed>>
        BY <1>4 DEF Next, Step, Failure, Poll, Reconnect, FlushUnbuildable, FlushNoRows,
           FlushApplied, FlushNotApplied, IsolateUnbuildable, IsolateSkipped,
           IsolateApplied, IsolateNotApplied, Healthy, Unhealthy, IsolationDone,
           FinalFlush, FinalFlushFails, Restart, TornPoll, PollFails, Rejoin,
           ReconnectFails, Interrupt, Crash, DbDown, Tick, DbUp, vars, Rewind
    <2>2. Handled \subseteq Handled' /\ Handled' \subseteq Handled \union Logged
        BY <1>1, HandledGrows, HandledStep DEF HeldIsLogged
    <2> QED
        BY <2>1, <2>2 DEF Abstract!Next, Abstract!Handle, Abstract!Logged, Logged
<1> QED
    BY <1>2, <1>3, <1>4

\* As long as Ctrl-C does not tear a poll, the service implements at-least-once
\* delivery.
THEOREM Implementation == Spec /\ []Untorn => ImplementsDelivery
    BY InitAbstract, StepAbstract, Invariance, PTL
       DEF Spec, ImplementsDelivery, Abstract!Spec

-----------------------------------------------------------------------------
(* Retries before isolation, and the bound on memory                       *)

\* An isolation starts after MAX_RETAIN_RETRIES failed flushes, and the count
\* is not reset before it ends.
RetryCount == pc \in {"event", "health"} => failures >= MaxRetainRetries

LEMMA StepRetryCount == TypeOK /\ RetryCount /\ [Next]_vars => RetryCount'
<1> SUFFICES ASSUME TypeOK, RetryCount, [Next]_vars, pc' \in {"event", "health"}
             PROVE  failures' >= MaxRetainRetries
    BY DEF RetryCount
<1>1. CASE FlushUnbuildable \/ FlushNotApplied
    <2>1. PICK t \in {"off", "running"} : FlushFailed(t)
        BY <1>1 DEF FlushUnbuildable, FlushNotApplied
    <2>2. pc = "run"
        BY <1>1 DEF FlushUnbuildable, FlushNotApplied
    <2> QED
        BY <2>1, <2>2 DEF FlushFailed
<1>2. CASE \/ IsolateUnbuildable \/ IsolateSkipped \/ IsolateApplied
           \/ IsolateNotApplied \/ Healthy
    BY <1>2 DEF IsolateUnbuildable, IsolateSkipped, IsolateApplied, IsolateNotApplied,
       Healthy, Isolating, RetryCount
<1>3. CASE Tick \/ DbUp \/ DbDown \/ UNCHANGED vars \/ \E e \in Event : Produce(e)
    BY <1>3 DEF Tick, DbUp, DbDown, vars, Produce, RetryCount, Publish
<1>4. CASE \/ Poll \/ Reconnect \/ FlushNoRows \/ FlushApplied \/ Commit \/ Unhealthy
           \/ IsolationDone \/ FinalFlush \/ FinalFlushFails \/ FinalCommit \/ Restart
           \/ (Failure /\ ~DbDown)
    BY <1>4 DEF Poll, Reconnect, FlushNoRows, FlushApplied, Commit, Unhealthy,
       IsolationDone, FinalFlush, FinalFlushFails, FinalCommit, Restart, Stopped,
       Failure, TornPoll, PollFails, Rejoin, ReconnectFails, CommitFails, Interrupt, Crash,
       CommitPolled, CommitInDoubt, Rewind
<1> QED
    BY <1>1, <1>2, <1>3, <1>4 DEF Next, Step

LEMMA DeadLetterStep ==
    ASSUME [Next]_vars, dlq' # dlq
    PROVE  IsolateUnbuildable \/ Healthy
<1>1. CASE Step
    BY <1>1 DEF Step, Poll, Reconnect, FlushUnbuildable, FlushNoRows, FlushApplied,
       FlushNotApplied, Commit, IsolateSkipped, IsolateApplied, IsolateNotApplied,
       Unhealthy, IsolationDone, FinalFlush, FinalFlushFails, FinalCommit, Restart,
       CommitPolled, Rewind
<1>2. CASE Failure \/ Tick \/ DbUp \/ UNCHANGED vars \/ \E e \in Event : Produce(e)
    BY <1>2 DEF Failure, TornPoll, PollFails, Rejoin, ReconnectFails, CommitFails,
       Interrupt, Crash, DbDown, Tick, DbUp, vars, Produce, CommitInDoubt, Rewind, Publish
<1> QED
    BY <1>1, <1>2 DEF Next

\* No event is dead-lettered before its batch failed MAX_RETAIN_RETRIES times.
THEOREM RetriesFirst == Spec => RetriedBeforeQuarantine
<1>1. Init => RetryCount
    BY DEF Init, RetryCount
<1>2. RetryCount /\ [Next]_vars => [dlq' # dlq => failures >= MaxRetainRetries]_vars
    BY DeadLetterStep DEF RetryCount, IsolateUnbuildable, Healthy, Isolating
<1> QED
    BY <1>1, <1>2, StepRetryCount, TypeCorrect, PTL DEF Spec, RetriedBeforeQuarantine

\* Polling stops once a flush is due, and a flush that fails adds no event.
LEMMA StepBounded ==
    IInv /\ BufferBounded /\ [Next]_vars => BufferBounded'
<1> SUFFICES ASSUME IInv, BufferBounded, [Next]_vars PROVE BufferBounded'
    OBVIOUS
<1> USE DEF BufferBounded
<1>1. TypeOK /\ BatchProgress
    BY DEF IInv
<1>2. /\ buffer \in Seq(Event) /\ batch \in Seq(Event)
      /\ Len(buffer) \in Nat /\ Len(batch) \in Nat /\ Len(<<>>) = 0
      /\ FlushRows \in Nat \ {0} /\ MaxPoll \in Nat \ {0}
    BY <1>1, LenProperties, LimitAssumption, TopicAssumption DEF TypeOK
<1>3. ASSUME pc = "run", ~ShouldFlush, UNCHANGED batch,
             NEW es \in Seq(Event), Len(es) =< MaxPoll, Collect(es)
      PROVE  BufferBounded'
    <2>1. batch = <<>>
        BY <1>1, <1>3 DEF BatchProgress
    <2>2. Len(buffer) =< FlushRows - 1
        BY <1>2, <1>3 DEF ShouldFlush
    <2>3. Len(buffer') = Len(buffer) + Len(es)
        BY <1>2, <1>3, ConcatProperties DEF Collect
    <2>4. Len(es) \in Nat
        BY LenProperties
    <2> QED
        BY <1>2, <1>3, <2>1, <2>2, <2>3, <2>4
<1>4. CASE Poll
    <2>1. PICK q \in Ahead : \E o \in Orders(q) : Collect(EventsOf(o))
        BY <1>4 DEF Poll
    <2>2. PICK o \in Orders(q) : Collect(EventsOf(o))
        BY <2>1
    <2> QED
        BY <1>1, <1>3, <1>4, <2>2, FetchedEvents DEF Poll, TypeOK
<1>5. CASE TornPoll
    <2>1. PICK q \in Ahead : \E o \in Orders(q) : \E n \in 0..(Len(o) - 1) :
              Collect(SubSeq(EventsOf(o), 1, n))
        BY <1>5 DEF TornPoll
    <2>2. PICK o \in Orders(q) : \E n \in 0..(Len(o) - 1) :
              Collect(SubSeq(EventsOf(o), 1, n))
        BY <2>1
    <2>3. PICK n \in 0..(Len(o) - 1) : Collect(SubSeq(EventsOf(o), 1, n))
        BY <2>2
    <2>4. /\ EventsOf(o) \in Seq(Event) /\ Len(o) \in Nat /\ Len(o) =< MaxPoll
          /\ Len(EventsOf(o)) = Len(o)
        BY <1>1, FetchedEvents DEF TypeOK
    <2> DEFINE es == SubSeq(EventsOf(o), 1, n)
    <2>5. es \in Seq(Event) /\ Len(es) = n /\ n =< MaxPoll
        BY <1>2, <2>4, SubSeqProperties
    <2> HIDE DEF es
    <2>6. Collect(es)
        BY <2>3 DEF es
    <2> QED
        BY <1>3, <1>5, <2>5, <2>6 DEF TornPoll
<1>6. CASE FlushUnbuildable \/ FlushNotApplied
    <2>1. PICK t \in {"off", "running"} : FlushFailed(t)
        BY <1>6 DEF FlushUnbuildable, FlushNotApplied
    <2>2. batch = <<>>
        BY <1>1, <1>6 DEF BatchProgress, FlushUnbuildable, FlushNotApplied
    <2> QED
        BY <1>2, <2>1, <2>2 DEF FlushFailed, EmptyBuffer
<1>7. CASE Unhealthy
    <2>1. Len(buffer') = Len(batch) + Len(buffer) /\ batch' = <<>>
        BY <1>2, <1>7, ConcatProperties DEF Unhealthy
    <2> QED
        BY <1>2, <2>1
<1>8. CASE \/ FlushNoRows \/ FlushApplied \/ IsolationDone \/ Interrupt
           \/ FinalFlush \/ FinalFlushFails \/ FinalCommit \/ Crash
    BY <1>2, <1>8 DEF FlushNoRows, FlushApplied, IsolationDone, Interrupt, FinalFlush,
       FinalFlushFails, FinalCommit, Crash, Stopped, EmptyBuffer
<1>9. CASE \/ PollFails \/ Rejoin \/ Reconnect \/ ReconnectFails \/ Commit \/ CommitFails
           \/ IsolateUnbuildable \/ IsolateSkipped \/ IsolateApplied
           \/ IsolateNotApplied \/ Healthy \/ Restart \/ Tick \/ DbUp \/ DbDown
           \/ UNCHANGED vars \/ \E e \in Event : Produce(e)
    BY <1>9 DEF PollFails, Rejoin, Reconnect, ReconnectFails, Commit, CommitFails,
       IsolateUnbuildable, IsolateSkipped, IsolateApplied, IsolateNotApplied, Healthy,
       Restart, Tick, DbUp, DbDown, vars, Produce,
       CommitPolled, CommitInDoubt, Rewind, Publish
<1> QED
    BY <1>4, <1>5, <1>6, <1>7, <1>8, <1>9 DEF Next, Step, Failure

\* However long an outage lasts, the memory in use is one batch and one poll.
THEOREM MemoryBounded == Spec => []BufferBounded
<1>1. Init => BufferBounded
    BY LimitAssumption, TopicAssumption DEF Init, BufferBounded
<1> QED
    BY <1>1, StepBounded, Invariance, PTL DEF Spec

-----------------------------------------------------------------------------
(* What is dropped, and what is dead-lettered                              *)

\* The count of failures of a kind never goes down.
LEMMA FaultCounts ==
    ASSUME TypeOK, NEW k \in FaultKind, Fault(k)
    PROVE  \A j \in FaultKind : faults[j] =< faults'[j] /\ (j = k => faults'[j] > 0)
BY DEF TypeOK, Fault

LEMMA FaultsGrow == TypeOK /\ [Next]_vars => \A j \in FaultKind : faults[j] =< faults'[j]
<1> DEFINE Grows == \A j \in FaultKind : faults[j] =< faults'[j]
<1> SUFFICES ASSUME TypeOK, [Next]_vars PROVE Grows
    OBVIOUS
<1>1. UNCHANGED faults => Grows
    BY DEF TypeOK
<1>2. \A k \in FaultKind : Fault(k) => Grows
    BY FaultCounts
<1> HIDE DEF Grows
<1>3. ASSUME NEW es, Applied(es) \/ NotApplied(es) \/ Unacknowledged(es)
      PROVE  Grows
    BY <1>1, <1>2, <1>3 DEF Applied, NotApplied, Unacknowledged, FaultKind
<1>4. ASSUME NEW e, DeadLetter(e) PROVE Grows
    BY <1>1, <1>2, <1>4 DEF DeadLetter, FaultKind
<1>5. CASE FlushApplied \/ FlushNotApplied \/ IsolateApplied \/ IsolateNotApplied
    BY <1>3, <1>5 DEF FlushApplied, FlushNotApplied, IsolateApplied, IsolateNotApplied
<1>6. CASE IsolateUnbuildable \/ Healthy
    BY <1>4, <1>6 DEF IsolateUnbuildable, Healthy
<1>7. CASE FinalFlush
    BY <1>1, <1>3, <1>7 DEF FinalFlush
<1>8. CASE \/ Poll \/ Reconnect \/ FlushUnbuildable \/ FlushNoRows \/ Commit
           \/ IsolateSkipped \/ Unhealthy \/ IsolationDone \/ FinalFlushFails
           \/ Restart \/ Tick \/ DbUp \/ UNCHANGED vars
    BY <1>1, <1>8 DEF Poll, Reconnect, FlushUnbuildable, FlushNoRows, Commit,
       IsolateSkipped, Unhealthy, IsolationDone, FinalFlushFails, Restart, Tick, DbUp, vars
<1>9. CASE FinalCommit \/ Failure
    BY <1>1, <1>2, <1>9 DEF FinalCommit, Failure, TornPoll, PollFails, Rejoin,
       ReconnectFails, CommitFails, Interrupt, Crash, DbDown, FaultKind
<1>10. CASE \E e \in Event : Produce(e)
    BY <1>1, <1>10 DEF Produce
<1> QED
    BY <1>5, <1>6, <1>7, <1>8, <1>9, <1>10 DEF Next, Step

\* Only events without a row are dropped while the dead-letter topic takes its
\* messages.
DropsUnrowed == faults["dlq"] = 0 => \A e \in dropped : KindOf[e] = "skipped"

LEMMA StepDrops == TypeOK /\ DropsUnrowed /\ [Next]_vars => DropsUnrowed'
<1> SUFFICES ASSUME TypeOK, DropsUnrowed, [Next]_vars, faults'["dlq"] = 0
             PROVE  \A e \in dropped' : KindOf[e] = "skipped"
    BY DEF DropsUnrowed
<1>1. "dlq" \in FaultKind /\ faults["dlq"] \in Nat
    BY DEF TypeOK, FaultKind
<1>2. \A e \in dropped : KindOf[e] = "skipped"
    BY <1>1, FaultsGrow DEF DropsUnrowed
<1>3. ASSUME NEW es, PassOver(es) PROVE \A e \in dropped' : KindOf[e] = "skipped"
    BY <1>2, <1>3 DEF PassOver, OfKind
<1>4. ASSUME NEW e, DeadLetter(e) PROVE UNCHANGED dropped
    BY <1>1, <1>4, FaultCounts DEF DeadLetter
<1>5. CASE FlushNoRows \/ FlushApplied \/ IsolateSkipped \/ FinalFlush
    BY <1>3, <1>5 DEF FlushNoRows, FlushApplied, IsolateSkipped, FinalFlush
<1>6. CASE IsolateUnbuildable \/ Healthy
    BY <1>2, <1>4, <1>6 DEF IsolateUnbuildable, Healthy
<1>7. CASE UNCHANGED dropped
    BY <1>2, <1>7
<1>8. CASE \/ Poll \/ Reconnect \/ FlushUnbuildable \/ FlushNotApplied \/ Commit
           \/ IsolateApplied \/ IsolateNotApplied \/ Unhealthy \/ IsolationDone
           \/ FinalFlushFails \/ FinalCommit \/ Restart \/ Failure
           \/ Tick \/ DbUp \/ UNCHANGED vars \/ \E e \in Event : Produce(e)
    BY <1>7, <1>8 DEF Poll, Reconnect, FlushUnbuildable, FlushNotApplied, Commit,
       IsolateApplied, IsolateNotApplied, Unhealthy, IsolationDone, FinalFlushFails,
       FinalCommit, Restart, Failure, TornPoll, PollFails, Rejoin, ReconnectFails,
       CommitFails, Interrupt, Crash, DbDown, Tick, DbUp, vars, Produce
<1> QED
    BY <1>5, <1>6, <1>8 DEF Next, Step

\* NoSilentDrop: every committed record has its row or its dead letter, or is
\* one that build_rows passes over, across every failure but that of a dead
\* letter and a torn poll.
THEOREM NothingDroppedSilently == Spec => []NoSilentDrop
<1>1. Init => DropsUnrowed
    BY DEF Init, DropsUnrowed
<1>2. AtLeastOnce /\ DropsUnrowed => NoSilentDrop
    BY DEF AtLeastOnce, DropsUnrowed, NoSilentDrop, CommittedHandled, Handled
<1> QED
    BY <1>1, <1>2, StepDrops, TypeCorrect, DeliveredAtLeastOnce, PTL DEF Spec

\* While the database has not gone away the connection is good, an event that
\* fails in isolation is one that the database refuses, and only such events and
\* those that cannot be built are dead-lettered.
DatabaseSteady ==
    faults["db"] = 0 =>
        /\ dbUp
        /\ pc # "down" => conn = "open"
        /\ pc = "health" => KindOf[batch[next]] = "rejected"
        /\ QuarantineOnlyPoison

LEMMA StepSteady == TypeOK /\ HealthOfCurrent /\ DatabaseSteady /\ [Next]_vars => DatabaseSteady'
<1> SUFFICES ASSUME TypeOK, HealthOfCurrent, DatabaseSteady, [Next]_vars, faults'["db"] = 0
             PROVE  /\ dbUp'
                    /\ pc' # "down" => conn' = "open"
                    /\ pc' = "health" => KindOf[batch'[next']] = "rejected"
                    /\ \A e \in dlq' : KindOf[e] \in {"rejected", "unbuildable"}
    BY DEF DatabaseSteady, QuarantineOnlyPoison
<1>1. "db" \in FaultKind /\ faults["db"] \in Nat
    BY DEF TypeOK, FaultKind
<1>2. /\ dbUp
      /\ pc # "down" => conn = "open"
      /\ pc = "health" => KindOf[batch[next]] = "rejected"
      /\ \A e \in dlq : KindOf[e] \in {"rejected", "unbuildable"}
    BY <1>1, FaultsGrow DEF DatabaseSteady, QuarantineOnlyPoison
<1>3. \A es : ~Unacknowledged(es)
    BY <1>1, FaultCounts DEF Unacknowledged
<1>4. ~DbDown
    BY <1>1, FaultCounts DEF DbDown
<1>5. ASSUME NEW es, Applied(es) \/ NotApplied(es), conn = "open"
      PROVE  dbUp' /\ conn' = "open"
    BY <1>2, <1>5 DEF Applied, NotApplied, ConnAfterFailure
<1>6. CASE FlushApplied \/ FlushNotApplied
    <2>1. conn = "open" /\ (Applied(buffer) \/ NotApplied(buffer)) /\ pc' # "health" /\ dlq' = dlq
        BY <1>2, <1>3, <1>6 DEF FlushApplied, FlushNotApplied, FlushFailed
    <2> QED
        BY <1>2, <1>5, <2>1
<1>7. CASE IsolateUnbuildable \/ Healthy
    <2>1. dlq' \subseteq dlq \union {batch[next]} /\ UNCHANGED <<dbUp, conn>> /\ pc' = "event"
        BY <1>7 DEF IsolateUnbuildable, Healthy, DeadLetter, Isolating
    <2>2. KindOf[batch[next]] \in {"rejected", "unbuildable"} /\ pc # "down"
        BY <1>2, <1>7 DEF IsolateUnbuildable, Healthy, Isolating
    <2> QED
        BY <1>2, <2>1, <2>2
<1>8. CASE IsolateApplied
    BY <1>2, <1>5, <1>8 DEF IsolateApplied, Isolating
<1>9. CASE IsolateNotApplied
    <2>1. /\ NotApplied(<<batch[next]>>) /\ conn = "open"
          /\ UNCHANGED <<batch, next, dlq>>
        BY <1>2, <1>3, <1>9 DEF IsolateNotApplied, Isolating
    <2>2. OfKind(<<batch[next]>>, "rejected") # {}
        BY <2>1 DEF NotApplied
    <2>3. Range(<<batch[next]>>) = {batch[next]}
        BY <1>9, CurrentEvent DEF IsolateNotApplied, Isolating
    <2>4. KindOf[batch[next]] = "rejected"
        BY <2>2, <2>3 DEF OfKind
    <2> QED
        BY <1>2, <1>5, <2>1, <2>4
<1>10. CASE FinalFlush
    BY <1>2, <1>5, <1>10 DEF FinalFlush
<1>11. CASE Unhealthy \/ FinalFlushFails \/ FinalCommit \/ Crash \/ Restart
    BY <1>2, <1>11 DEF Unhealthy, FinalFlushFails, FinalCommit, Crash, Restart, Stopped
<1>12. CASE \/ Poll \/ Reconnect \/ FlushUnbuildable \/ FlushNoRows \/ Commit
            \/ IsolateSkipped \/ IsolationDone \/ TornPoll \/ PollFails \/ Rejoin
            \/ ReconnectFails \/ CommitFails \/ Interrupt
    <2>1. UNCHANGED <<dbUp, conn, dlq>> /\ pc' # "health" /\ pc # "down"
        BY <1>12 DEF Poll, Reconnect, FlushUnbuildable, FlushFailed, FlushNoRows, Commit,
           IsolateSkipped, Isolating, IsolationDone, TornPoll, PollFails, Rejoin,
           ReconnectFails, CommitFails, Interrupt
    <2> QED
        BY <1>2, <2>1
<1>13. CASE Tick \/ DbUp \/ UNCHANGED vars \/ \E e \in Event : Produce(e)
    BY <1>2, <1>13 DEF Tick, DbUp, vars, Produce
<1> QED
    BY <1>4, <1>6, <1>7, <1>8, <1>9, <1>10, <1>11, <1>12, <1>13 DEF Next, Step, Failure

\* NeighboursSpared: while the database does not go away, only events that it
\* refuses or that cannot be built are dead-lettered.
THEOREM OnlyPoisonQuarantined == Spec => []NeighboursSpared
<1>1. Init => DatabaseSteady
    BY DEF Init, DatabaseSteady, QuarantineOnlyPoison
<1>2. IInv => TypeOK /\ HealthOfCurrent
    BY DEF IInv, BatchProgress
<1>3. DatabaseSteady => NeighboursSpared
    BY DEF DatabaseSteady, NeighboursSpared
<1> QED
    BY <1>1, <1>2, <1>3, StepSteady, Invariance, PTL DEF Spec

-----------------------------------------------------------------------------
(* What vessel_current_state shows                                         *)

\* The events in memory, in the order in which they will be written.
Work == IF batch = <<>> THEN buffer ELSE batch

\* The rows of v among es, and the last of a set of indices.
RowsAmong(es, v) == {j \in 1..Len(es) : VesselOf[es[j]] = v /\ KindOf[es[j]] = "ok"}
IsLast(S, i) == i \in S /\ \A j \in S : j =< i

\* The producer's key keeps the records of a vessel together and in order.
KeyedByVessel == \A p \in Partition : \A i \in 1..Len(log[p]) :
                     PartitionOf[VesselOf[log[p][i]]] = p

\* The database shows e for v; or e went another way; or the last row for v in
\* memory is e.
Settled(v, e) == state[v] = e \/ e \in dlq \union dropped
Shows(v, e) ==
    /\ \A j \in RowsAmong(Work, v) : IsLast(RowsAmong(Work, v), j) => Work[j] = e
    /\ (\A j \in RowsAmong(Work, v) : j < next) => Settled(v, e)

\* The last record of a vessel, once fetched, is shown or about to be; once
\* acknowledged, it is shown, and nothing in memory can change that.
LatestHeld ==
    Untorn => \A v \in Vessel : \A i \in RowsOf(v) : IsLast(RowsOf(v), i) =>
        LET p == PartitionOf[v]
        IN  /\ i =< committed[p] => Settled(v, log[p][i])
            /\ Accountable /\ committed[p] < i /\ i =< position[p] => Shows(v, log[p][i])

\* What the process holds has not been acknowledged, so that it will not write
\* an older row over one that was.
HeldUnacked == Held \subseteq Unacked

\* Only a row of a vessel in memory changes what is shown for it, and dead
\* letters are not taken back.
LEMMA StateStep ==
    ASSUME IInv, [Next]_vars, NEW v \in Vessel
    PROVE  /\ \/ state'[v] = state[v]
              \/ \E e \in Held : VesselOf[e] = v /\ KindOf[e] = "ok"
           /\ dlq \subseteq dlq' /\ dropped \subseteq dropped'
<1> DEFINE OfV == \E e \in Held : VesselOf[e] = v /\ KindOf[e] = "ok"
           Same == state'[v] = state[v]
<1>0. TypeOK /\ HealthOfCurrent /\ buffer \in Seq(Event) /\ batch \in Seq(Event)
          /\ Len(batch) \in Nat /\ next \in Nat \ {0}
    BY LenProperties DEF IInv, BatchProgress, TypeOK
<1>1. ASSUME NEW es \in Seq(Event), Range(es) \subseteq Held,
             Applied(es) \/ NotApplied(es) \/ Unacknowledged(es)
      PROVE  Same \/ OfV
    <2>1. CASE NotApplied(es)
        BY <2>1 DEF NotApplied
    <2>2. CASE Applied(es) \/ Unacknowledged(es)
        <3>1. Written(es) /\ OfKind(es, "rejected") = {}
            BY <2>2 DEF Applied, Unacknowledged
        <3>2. Same \/ \E i \in DOMAIN es : HasRow(es[i]) /\ VesselOf[es[i]] = v
            BY <3>1 DEF Written, Upserted
        <3>3. \A i \in DOMAIN es : es[i] \in Range(es)
            BY DEF Range
        <3> QED
            BY <1>1, <3>1, <3>2, <3>3 DEF OfKind, HasRow
    <2> QED
        BY <1>1, <2>1, <2>2
<1>2. ASSUME NEW e, DeadLetter(e)
      PROVE  dlq \subseteq dlq' /\ dropped \subseteq dropped'
    BY <1>2 DEF DeadLetter
<1>3. ASSUME Isolating \/ pc = "health"
      PROVE  <<batch[next]>> \in Seq(Event) /\ Range(<<batch[next]>>) \subseteq Held
    <2>1. next \in 1..Len(batch)
        BY <1>0, <1>3 DEF Isolating, HealthOfCurrent
    <2>2. batch[next] \in Range(batch)
        BY <1>0, <2>1, RangeEquality
    <2> QED
        BY <1>0, <2>1, <2>2, CurrentEvent DEF Held
<1>4. CASE FlushNoRows \/ FlushApplied \/ FlushNotApplied \/ FinalFlush
    BY <1>0, <1>1, <1>4 DEF FlushNoRows, FlushApplied, FlushNotApplied, FinalFlush,
       PassOver, Held
<1>5. CASE IsolateUnbuildable \/ IsolateSkipped \/ Healthy
    BY <1>2, <1>5 DEF IsolateUnbuildable, IsolateSkipped, Healthy, PassOver
<1>6. CASE IsolateApplied \/ IsolateNotApplied
    BY <1>1, <1>3, <1>6 DEF IsolateApplied, IsolateNotApplied, Isolating
<1>7. CASE \/ Poll \/ Reconnect \/ FlushUnbuildable \/ Commit \/ Unhealthy
           \/ IsolationDone \/ FinalFlushFails \/ FinalCommit \/ Restart
           \/ Tick \/ DbUp \/ UNCHANGED vars \/ Failure \/ \E e \in Event : Produce(e)
    BY <1>7 DEF Poll, Reconnect, FlushUnbuildable, Commit, Unhealthy, IsolationDone,
       FinalFlushFails, FinalCommit, Restart, Tick, DbUp, vars, Failure, TornPoll,
       PollFails, Rejoin, ReconnectFails, CommitFails, Interrupt, Crash, DbDown, Produce
<1> QED
    BY <1>4, <1>5, <1>6, <1>7 DEF Next, Step

LEMMA StepKeyed == TypeOK /\ KeyedByVessel /\ [Next]_vars => KeyedByVessel'
<1> SUFFICES ASSUME TypeOK, KeyedByVessel, [Next]_vars,
                    NEW p \in Partition, NEW i \in 1..Len(log'[p])
             PROVE  PartitionOf[VesselOf[log'[p][i]]] = p
    BY DEF KeyedByVessel
<1>1. CASE UNCHANGED log
    BY <1>1 DEF KeyedByVessel
<1>2. ASSUME NEW e \in Event, Produce(e) PROVE PartitionOf[VesselOf[log'[p][i]]] = p
    <2>1. log[p] \in Seq(Event) /\ Len(log[p]) \in Nat
        BY LenProperties DEF TypeOK
    <2>2. log'[p] = log[p] \/ (p = PartitionOf[VesselOf[e]] /\ log'[p] = Append(log[p], e))
        BY <1>2 DEF Produce, Publish, TypeOK
    <2>3. i \in 1..Len(log[p]) \/ (p = PartitionOf[VesselOf[e]] /\ log'[p][i] = e)
        BY <2>1, <2>2, AppendProperties
    <2>4. i \in 1..Len(log[p]) => log'[p][i] = log[p][i]
        BY <1>2, ProduceAppends
    <2> QED
        BY <2>3, <2>4 DEF KeyedByVessel
<1> QED
    BY <1>1, <1>2, OffsetStep

\* Nothing is held when the group's offsets move.
LEMMA StepUnacked == IInv /\ HeldUnacked /\ [Next]_vars => HeldUnacked'
<1> SUFFICES ASSUME IInv, HeldUnacked, [Next]_vars, NEW e \in Held' PROVE e \in Unacked'
    BY DEF HeldUnacked
<1>1. TypeOK /\ OffsetsInRange /\ BatchProgress
    BY DEF IInv
<1>2. CASE Commit \/ CommitFails \/ FinalCommit
    <2>1. Held' = {}
        BY <1>1, <1>2 DEF BatchProgress, Commit, CommitFails, FinalCommit, Stopped, EmptyBuffer,
           Held, Range
    <2> QED
        BY <2>1
<1>3. CASE ~(Commit \/ CommitFails \/ FinalCommit)
    <2>1. UNCHANGED committed
        BY <1>3 DEF Next, Step, Failure, Poll, Reconnect, FlushUnbuildable, FlushNoRows,
           FlushApplied, FlushNotApplied, IsolateUnbuildable, IsolateSkipped,
           IsolateApplied, IsolateNotApplied, Healthy, Unhealthy, IsolationDone,
           FinalFlush, FinalFlushFails, Restart, TornPoll, PollFails, Rejoin,
           ReconnectFails, Interrupt, Crash, DbDown, Tick, DbUp, vars, Rewind,
           Produce, Publish
    <2>2. \A p \in Partition : committed[p] \in Nat /\ position[p] \in Nat
                                   /\ committed[p] =< position[p] /\ Len(log[p]) \in Nat
        BY <1>1, LenProperties DEF TypeOK, OffsetsInRange
    <2>3. e \in Unacked
        BY <1>1, <2>2, HeldStep DEF HeldUnacked, Unread, Unacked
    <2>4. CASE UNCHANGED log
        BY <2>1, <2>3, <2>4 DEF Unacked
    <2>5. ASSUME NEW u \in Event, Produce(u) PROVE e \in Unacked'
        <3>1. PICK p \in Partition : \E i \in 1..Len(log[p]) : committed[p] < i /\ log[p][i] = e
            BY <2>3 DEF Unacked
        <3>2. PICK i \in 1..Len(log[p]) : committed[p] < i /\ log[p][i] = e
            BY <3>1
        <3>3. i \in 1..Len(log'[p]) /\ log'[p][i] = e
            BY <1>1, <2>5, <3>2, ProduceAppends
        <3> QED
            BY <2>1, <2>3, <3>2, <3>3 DEF Unacked
    <2> QED
        BY <1>1, <2>4, <2>5, OffsetStep
<1> QED
    BY <1>2, <1>3

\* The last record of a vessel, once fetched, was there before the step.
LEMMA LastStep ==
    ASSUME TypeOK, OffsetsInRange, [Next]_vars, NEW v \in Vessel,
           NEW i \in RowsOf(v)', IsLast(RowsOf(v)', i),
           i =< position'[PartitionOf[v]]
    PROVE  /\ i \in RowsOf(v) /\ IsLast(RowsOf(v), i)
           /\ log'[PartitionOf[v]][i] = log[PartitionOf[v]][i]
<1> DEFINE p == PartitionOf[v]
<1>1. p \in Partition
    BY TopicAssumption
<1>2. /\ log[p] \in Seq(Event) /\ Len(log[p]) \in Nat /\ DOMAIN log[p] = 1..Len(log[p])
      /\ position[p] \in Nat /\ committed[p] \in Nat
      /\ committed[p] =< position[p] /\ position[p] =< Len(log[p])
    BY <1>1, LenProperties DEF TypeOK, OffsetsInRange
<1>3. CASE UNCHANGED log
    BY <1>3 DEF RowsOf, IsLast
<1>4. ASSUME NEW e \in Event, Produce(e)
      PROVE  /\ i \in RowsOf(v) /\ IsLast(RowsOf(v), i)
             /\ log'[PartitionOf[v]][i] = log[PartitionOf[v]][i]
    <2>1. UNCHANGED position
        BY <1>4 DEF Produce, Publish
    <2>2. /\ Len(log'[p]) \in Nat /\ Len(log[p]) =< Len(log'[p])
          /\ \A k \in 1..Len(log[p]) : log'[p][k] = log[p][k]
        BY <1>1, <1>4, ProduceAppends
    <2>3. log'[p] \in Seq(Event) /\ DOMAIN log'[p] = 1..Len(log'[p])
        BY <1>1, <1>4, PublishAppends, LenProperties DEF Produce, TypeOK
    <2>4. i \in 1..Len(log[p])
        BY <1>2, <2>1, <2>3 DEF RowsOf
    <2>5. RowsOf(v) \subseteq RowsOf(v)' /\ i \in RowsOf(v)
        BY <1>2, <2>2, <2>3, <2>4 DEF RowsOf
    <2> QED
        BY <2>2, <2>4, <2>5 DEF IsLast
<1> QED
    BY <1>3, <1>4, OffsetStep


\* The rows among two sequences of events, one after the other.
LEMMA RowsOfConcatenation ==
    ASSUME NEW s \in Seq(Event), NEW t \in Seq(Event), NEW v \in Vessel
    PROVE  /\ \A j \in RowsAmong(s, v) : j \in RowsAmong(s \o t, v) /\ (s \o t)[j] = s[j]
           /\ \A k \in RowsAmong(t, v) : /\ Len(s) + k \in RowsAmong(s \o t, v)
                                         /\ (s \o t)[Len(s) + k] = t[k]
           /\ \A j \in RowsAmong(s \o t, v) :
                 j \in RowsAmong(s, v) \/ (Len(s) < j /\ j - Len(s) \in RowsAmong(t, v))
<1>1. Len(s) \in Nat /\ Len(t) \in Nat /\ Len(s \o t) = Len(s) + Len(t)
    BY LenProperties, ConcatProperties
<1>2. \A j \in 1..Len(s) : (s \o t)[j] = s[j]
    BY <1>1, ConcatProperties
<1>3. \A k \in 1..Len(t) : (s \o t)[Len(s) + k] = t[k]
    <2> TAKE k \in 1..Len(t)
    <2>1. Len(s) + k \in 1..(Len(s) + Len(t)) /\ Len(s) + k > Len(s)
              /\ (Len(s) + k) - Len(s) = k
        BY <1>1
    <2> QED
        BY <1>1, <2>1, ConcatProperties
<1>4. \A j \in RowsAmong(s, v) : j \in RowsAmong(s \o t, v) /\ (s \o t)[j] = s[j]
    BY <1>1, <1>2 DEF RowsAmong
<1>5. \A k \in RowsAmong(t, v) : /\ Len(s) + k \in RowsAmong(s \o t, v)
                                 /\ (s \o t)[Len(s) + k] = t[k]
    BY <1>1, <1>3 DEF RowsAmong
<1>6. ASSUME NEW j \in RowsAmong(s \o t, v), ~(j =< Len(s))
      PROVE  Len(s) < j /\ j - Len(s) \in RowsAmong(t, v)
    <2>1. /\ j \in 1..(Len(s) + Len(t)) /\ VesselOf[(s \o t)[j]] = v
          /\ KindOf[(s \o t)[j]] = "ok"
        BY <1>1 DEF RowsAmong
    <2>2. j - Len(s) \in 1..Len(t) /\ Len(s) + (j - Len(s)) = j
        BY <1>1, <1>6, <2>1
    <2>3. t[j - Len(s)] = (s \o t)[j]
        BY <1>3, <2>2
    <2> QED
        BY <1>1, <1>6, <2>1, <2>2, <2>3 DEF RowsAmong
<1>7. ASSUME NEW j \in RowsAmong(s \o t, v), j =< Len(s) PROVE j \in RowsAmong(s, v)
    BY <1>1, <1>2, <1>7 DEF RowsAmong
<1> QED
    BY <1>4, <1>5, <1>6, <1>7

\* A poll that fetches the last record of a vessel puts it last in the buffer,
\* and a later one brings no other record of that vessel.
LEMMA PollShows ==
    ASSUME IInv, KeyedByVessel, Poll, NEW v \in Vessel,
           NEW i \in RowsOf(v), IsLast(RowsOf(v), i),
           NEW r, r = log[PartitionOf[v]][i], i =< position'[PartitionOf[v]],
           i =< position[PartitionOf[v]] => Shows(v, r)
    PROVE  Shows(v, r)'
<1> DEFINE p == PartitionOf[v]
<1>1. /\ TypeOK /\ batch = <<>> /\ next = 1 /\ p \in Partition
      /\ UNCHANGED <<log, committed, batch, next, storeVars>>
    BY TopicAssumption DEF IInv, BatchProgress, Poll
<1>2. PICK q \in Ahead : \E o \in Orders(q) : position' = q /\ Collect(EventsOf(o))
    BY DEF Poll
<1>3. PICK o \in Orders(q) : position' = q /\ Collect(EventsOf(o))
    BY <1>2
<1>4. TopicTypeOK
    BY <1>1 DEF TypeOK
<1>5. /\ log[p] \in Seq(Event) /\ DOMAIN log[p] = 1..Len(log[p]) /\ Len(log[p]) \in Nat
      /\ position[p] \in Nat /\ i \in Nat /\ buffer \in Seq(Event) /\ Len(buffer) \in Nat
      /\ EventsOf(o) \in Seq(Event) /\ Len(o) \in Nat
    BY <1>1, <1>4, LenProperties, FetchedEvents DEF TypeOK, RowsOf
<1>6. \A k \in 1..Len(o) : /\ o[k][1] \in Partition
                           /\ o[k][2] \in 1..Len(log[o[k][1]])
                           /\ position[o[k][1]] < o[k][2]
                           /\ EventsOf(o)[k] = log[o[k][1]][o[k][2]]
    BY <1>4, FetchedRecords
<1>7. \A k \in (position[p] + 1)..q[p] : \E m \in 1..Len(o) : o[m][1] = p /\ o[m][2] = k
    BY <1>1, <1>4, FetchedRecords
<1>8. \A j, k \in 1..Len(o) : j < k /\ o[j][1] = o[k][1] => o[j][2] < o[k][2]
    BY <1>4, FetchedRecords
<1>9. Len(EventsOf(o)) = Len(o)
    BY <1>4, FetchedRecords
<1> DEFINE es == EventsOf(o)
           b == Len(buffer)
<1>10. Work = buffer /\ Work' = buffer \o es
    BY <1>1, <1>3 DEF Work, Collect
<1> HIDE DEF es
<1>11. ASSUME NEW k \in RowsAmong(es, v)
       PROVE  /\ k \in 1..Len(o) /\ o[k][1] = p /\ o[k][2] \in RowsOf(v)
              /\ position[p] < o[k][2] /\ o[k][2] =< i
    <2>1. k \in 1..Len(o) /\ VesselOf[es[k]] = v /\ KindOf[es[k]] = "ok"
        BY <1>9, <1>11 DEF RowsAmong, es
    <2>2. o[k][1] = p
        BY <1>6, <2>1 DEF KeyedByVessel, es
    <2>3. o[k][2] \in RowsOf(v) /\ position[p] < o[k][2]
        BY <1>5, <1>6, <2>1, <2>2 DEF RowsOf, es
    <2> QED
        BY <2>1, <2>2, <2>3 DEF IsLast
<1>12. es \in Seq(Event)
    BY <1>5 DEF es
<1>13. CASE i =< position[p]
    <2>1. RowsAmong(es, v) = {}
        <3> SUFFICES ASSUME NEW k \in RowsAmong(es, v) PROVE FALSE
            OBVIOUS
        <3>1. o[k][2] \in RowsOf(v) /\ position[p] < o[k][2] /\ o[k][2] =< i
            BY <1>11
        <3>2. o[k][2] \in Nat
            BY <1>5, <3>1 DEF RowsOf
        <3> QED
            BY <1>5, <1>13, <3>1, <3>2
    <2>2. /\ RowsAmong(buffer \o es, v) = RowsAmong(buffer, v)
          /\ \A j \in RowsAmong(buffer, v) : (buffer \o es)[j] = buffer[j]
        <3>1. \A j \in RowsAmong(buffer, v) : /\ j \in RowsAmong(buffer \o es, v)
                                              /\ (buffer \o es)[j] = buffer[j]
            BY <1>5, <1>12, RowsOfConcatenation
        <3>2. \A j \in RowsAmong(buffer \o es, v) : j \in RowsAmong(buffer, v)
            BY <1>5, <1>12, <2>1, RowsOfConcatenation
        <3> QED
            BY <3>1, <3>2
    <2>3. Shows(v, r)
        BY <1>13
    <2>4. UNCHANGED <<next, state, dlq, dropped, log>>
        BY <1>1
    <2>5. RowsAmong(Work, v)' = RowsAmong(Work, v)
        BY <1>10, <2>2
    <2>6. \A j \in RowsAmong(Work, v) : Work'[j] = Work[j]
        BY <1>10, <2>2
    <2> QED
        BY <2>3, <2>4, <2>5, <2>6 DEF Shows, Settled, IsLast
<1>14. CASE position[p] < i
    <2>1. PICK k \in 1..Len(o) : o[k][1] = p /\ o[k][2] = i
        BY <1>3, <1>5, <1>7, <1>14
    <2>2. k \in RowsAmong(es, v) /\ es[k] = r
        BY <1>6, <1>9, <2>1 DEF RowsOf, RowsAmong, es
    <2>3. b + k \in RowsAmong(buffer \o es, v) /\ (buffer \o es)[b + k] = r
        BY <1>5, <1>12, <2>2, RowsOfConcatenation
    <2>4. ASSUME NEW j \in RowsAmong(buffer \o es, v), b + k =< j
          PROVE  j = b + k
        <3>1. j \in Nat
            BY DEF RowsAmong
        <3>2. j - b \in RowsAmong(es, v)
            <4>1. j \in RowsAmong(buffer, v) => j =< b
                BY <1>5 DEF RowsAmong
            <4> QED
                BY <1>5, <1>12, <2>4, <3>1, <4>1, RowsOfConcatenation
        <3>3. /\ j - b \in 1..Len(o) /\ o[j - b][1] = p /\ o[j - b][2] =< i
              /\ o[j - b][2] \in RowsOf(v)
            BY <1>11, <3>2
        <3>4. ~(k < j - b)
            BY <1>5, <1>8, <2>1, <3>3 DEF RowsOf
        <3>5. b \in Nat /\ k \in Nat
            BY <1>5
        <3> HIDE DEF b
        <3> QED
            BY <2>4, <3>1, <3>4, <3>5
    <2>5. \A j \in RowsAmong(buffer \o es, v) :
             IsLast(RowsAmong(buffer \o es, v), j) => (buffer \o es)[j] = r
        BY <2>3, <2>4 DEF IsLast
    <2>6. ~(b + k < next') /\ log' = log
        BY <1>1, <1>5
    <2> QED
        BY <1>10, <2>3, <2>5, <2>6 DEF Shows
<1> QED
    BY <1>5, <1>13, <1>14

\* A transaction leaves the last row of each vessel in its batch.
LEMMA WrittenLast ==
    ASSUME NEW es \in Seq(Event), Written(es), OfKind(es, "rejected") = {}, NEW v \in Vessel
    PROVE  \/ RowsAmong(es, v) = {} /\ state'[v] = state[v]
           \/ \E j \in RowsAmong(es, v) : IsLast(RowsAmong(es, v), j) /\ state'[v] = es[j]
<1> DEFINE hits == {i \in DOMAIN es : HasRow(es[i]) /\ VesselOf[es[i]] = v}
<1>1. DOMAIN es = 1..Len(es)
    OBVIOUS
<1>2. \A i \in DOMAIN es : es[i] \in Range(es)
    BY DEF Range
<1>3. hits = RowsAmong(es, v)
    BY <1>1, <1>2 DEF RowsAmong, HasRow, OfKind
<1>4. \/ hits = {} /\ state'[v] = state[v]
      \/ \E i \in hits : (\A j \in hits : j =< i) /\ state'[v] = es[i]
    BY DEF Written, Upserted
<1> HIDE DEF hits
<1> QED
    BY <1>3, <1>4 DEF IsLast

\* A flush that succeeds writes what is left in memory: the last row of the
\* vessel among it is shown.
LEMMA FlushShows ==
    ASSUME IInv, FlushNoRows \/ FlushApplied \/ FinalFlush, NEW v \in Vessel, NEW r, Shows(v, r)
    PROVE  Shows(v, r)'
<1>1. TypeOK /\ batch = <<>> /\ next = 1 /\ buffer' = <<>> /\ batch' = <<>>
    BY DEF IInv, BatchProgress, FlushNoRows, FlushApplied, FinalFlush, EmptyBuffer
<1>2. Work = buffer /\ buffer \in Seq(Event) /\ Work' = <<>>
    BY <1>1 DEF Work, TypeOK
<1>3. dlq \subseteq dlq' /\ dropped \subseteq dropped'
    BY DEF FlushNoRows, FlushApplied, FinalFlush, PassOver
<1>4. RowsAmong(<<>>, v) = {}
    BY DEF RowsAmong
<1>5. \A j \in RowsAmong(buffer, v) : j \in Nat \ {0}
    BY DEF RowsAmong
<1>6. Settled(v, r)'
    <2>1. CASE RowsAmong(buffer, v) = {} /\ state'[v] = state[v]
        <3>1. Settled(v, r)
            BY <1>2, <2>1 DEF Shows
        <3> QED
            BY <1>3, <2>1, <3>1 DEF Settled
    <2>2. CASE \E j \in RowsAmong(buffer, v) :
                   IsLast(RowsAmong(buffer, v), j) /\ state'[v] = buffer[j]
        BY <1>2, <2>2 DEF Shows, Settled
    <2>3. CASE NoRows(buffer) /\ UNCHANGED state
        <3>1. \A j \in 1..Len(buffer) : buffer[j] \in Range(buffer)
            BY <1>2 DEF Range
        <3>2. RowsAmong(buffer, v) = {}
            BY <2>3, <3>1 DEF RowsAmong, NoRows
        <3> QED
            BY <2>1, <2>3, <3>2
    <2>4. CASE Applied(buffer)
        BY <1>2, <2>1, <2>2, <2>4, WrittenLast DEF Applied
    <2> QED
        BY <2>3, <2>4 DEF FlushNoRows, FlushApplied, FinalFlush
<1> QED
    BY <1>2, <1>4, <1>6 DEF Shows

\* So does a flush that fails, whether or not the server had written the rows.
LEMMA FailedFlushShows ==
    ASSUME IInv, FlushUnbuildable \/ FlushNotApplied, NEW v \in Vessel, NEW r, Shows(v, r)
    PROVE  Shows(v, r)'
<1>1. TypeOK /\ batch = <<>> /\ next = 1 /\ pc = "run"
    BY DEF IInv, BatchProgress, FlushUnbuildable, FlushNotApplied
<1>2. PICK t \in {"off", "running"} : FlushFailed(t)
    BY DEF FlushUnbuildable, FlushNotApplied
<1>3. Work = buffer /\ Work' = buffer /\ next' = 1 /\ buffer \in Seq(Event)
    BY <1>1, <1>2 DEF Work, FlushFailed, EmptyBuffer, TypeOK
<1>4. UNCHANGED <<dlq, dropped>>
    BY DEF FlushUnbuildable, FlushNotApplied
<1>5. ASSUME RowsAmong(buffer, v) = {} PROVE state'[v] = state[v]
    <2>1. CASE FlushUnbuildable \/ NotApplied(buffer)
        BY <2>1 DEF FlushUnbuildable, NotApplied
    <2>2. CASE Unacknowledged(buffer)
        BY <1>3, <1>5, <2>2, WrittenLast DEF Unacknowledged
    <2> QED
        BY <2>1, <2>2 DEF FlushNotApplied
<1>6. ASSUME \A j \in RowsAmong(buffer, v) : j < next' PROVE Settled(v, r)'
    <2>1. RowsAmong(buffer, v) = {}
        BY <1>3, <1>6 DEF RowsAmong
    <2>2. Settled(v, r)
        BY <1>3, <2>1 DEF Shows
    <2> QED
        BY <1>4, <1>5, <2>1, <2>2 DEF Settled
<1> QED
    BY <1>3, <1>6 DEF Shows

\* Isolation writes or dead-letters the events one by one, the last row of the
\* vessel after the others.
LEMMA IsolationShows ==
    ASSUME IInv, NEW v \in Vessel, NEW r, Shows(v, r),
           \/ IsolateUnbuildable \/ IsolateSkipped \/ IsolateApplied
           \/ IsolateNotApplied \/ Healthy
    PROVE  Shows(v, r)'
<1> DEFINE e == batch[next]
           Mine == next \in RowsAmong(batch, v)
<1>1. TypeOK /\ HealthOfCurrent /\ batch \in Seq(Event) /\ Len(batch) \in Nat /\ next \in Nat \ {0}
    BY LenProperties DEF IInv, BatchProgress, TypeOK
<1>2. next \in 1..Len(batch)
    BY <1>1 DEF IsolateUnbuildable, IsolateSkipped, IsolateApplied, IsolateNotApplied,
       Healthy, Isolating, HealthOfCurrent
<1>3. batch # <<>> /\ <<e>> \in Seq(Event) /\ Range(<<e>>) = {e}
    BY <1>1, <1>2, CurrentEvent
<1>4. UNCHANGED <<batch, buffer>>
    BY DEF IsolateUnbuildable, IsolateSkipped, IsolateApplied, IsolateNotApplied, Healthy
<1>5. Work = batch /\ Work' = batch
    BY <1>3, <1>4 DEF Work
<1>6. \A j \in RowsAmong(batch, v) : j \in Nat
    BY DEF RowsAmong
<1>7. RowsAmong(<<e>>, v) = IF Mine THEN {1} ELSE {}
    BY <1>2 DEF RowsAmong
<1> HIDE DEF Mine
<1>8. ASSUME NEW j \in RowsAmong(batch, v), j < next, next' = next + 1 PROVE j < next'
    BY <1>1, <1>6, <1>8
<1>9. ASSUME Written(<<e>>), OfKind(<<e>>, "rejected") = {}
      PROVE  IF Mine THEN state'[v] = e ELSE state'[v] = state[v]
    <2>1. \A j \in RowsAmong(<<e>>, v) : <<e>>[j] = e
        BY <1>7
    <2> QED
        BY <1>3, <1>7, <1>9, <2>1, WrittenLast
<1>10. \/ UNCHANGED state /\ next' = next
       \/ UNCHANGED state /\ next' = next + 1 /\ (Mine => e \in dlq' \union dropped')
       \/ Written(<<e>>) /\ OfKind(<<e>>, "rejected") = {} /\ next' \in {next, next + 1}
    <2>1. CASE IsolateUnbuildable \/ Healthy
        BY <2>1 DEF IsolateUnbuildable, Healthy, DeadLetter
    <2>2. CASE IsolateSkipped
        BY <2>2 DEF IsolateSkipped, Mine, RowsAmong
    <2>3. CASE IsolateApplied
        BY <2>3 DEF IsolateApplied, Applied
    <2>4. CASE IsolateNotApplied
        BY <2>4 DEF IsolateNotApplied, NotApplied, Unacknowledged
    <2> QED
        BY <2>1, <2>2, <2>3, <2>4
<1>11. dlq \subseteq dlq' /\ dropped \subseteq dropped'
    BY DEF IsolateUnbuildable, IsolateSkipped, IsolateApplied, IsolateNotApplied, Healthy,
       PassOver, DeadLetter
<1>12. ASSUME \A j \in RowsAmong(batch, v) : j < next' PROVE Settled(v, r)'
    <2>1. CASE Mine
        <3>1. next' = next + 1
            BY <1>1, <1>10, <1>12, <2>1 DEF Mine
        <3>2. IsLast(RowsAmong(batch, v), next)
            BY <1>1, <1>6, <1>12, <2>1, <3>1 DEF IsLast, Mine
        <3>3. e = r
            BY <1>5, <2>1, <3>2 DEF Shows, Mine
        <3>4. state'[v] = e \/ e \in dlq' \union dropped'
            BY <1>1, <1>9, <1>10, <2>1, <3>1
        <3> QED
            BY <3>3, <3>4 DEF Settled
    <2>2. CASE ~Mine
        <3>1. \A j \in RowsAmong(batch, v) : j < next
            BY <1>1, <1>6, <1>10, <1>12, <2>2 DEF Mine
        <3>2. Settled(v, r)
            BY <1>5, <3>1 DEF Shows
        <3>3. state'[v] = state[v]
            BY <1>9, <1>10, <2>2
        <3> QED
            BY <1>11, <3>2, <3>3 DEF Settled
    <2> QED
        BY <2>1, <2>2
<1> QED
    BY <1>5, <1>12 DEF Shows

\* Steps that neither flush nor poll leave the events in memory as they are, or
\* put them back to be isolated anew; or they forget them, and the position too.
LEMMA OtherShows ==
    ASSUME IInv, NEW v \in Vessel, NEW r, Shows(v, r), Accountable',
           \/ Unhealthy \/ IsolationDone \/ PollFails \/ CommitFails \/ Interrupt
           \/ Tick \/ DbUp \/ DbDown \/ UNCHANGED vars \/ \E e \in Event : Produce(e)
    PROVE  Shows(v, r)'
<1>1. TypeOK /\ BatchProgress /\ next \in Nat \ {0}
    BY DEF IInv, TypeOK
<1>2. UNCHANGED <<state, dlq, dropped>>
    BY DEF Unhealthy, IsolationDone, PollFails, CommitFails, Interrupt, Tick, DbUp,
       DbDown, vars, Produce
<1>3. ASSUME UNCHANGED <<buffer, batch, next>> PROVE Shows(v, r)'
    BY <1>2, <1>3 DEF Shows, Settled, Work
<1>4. CASE Unhealthy
    <2>1. buffer = <<>> /\ batch' = <<>> /\ buffer' = batch \o buffer /\ next' = 1
        BY <1>1, <1>4 DEF Unhealthy, BatchProgress
    <2>2. batch \in Seq(Event) /\ buffer' = batch
        BY <1>1, <2>1, ConcatEmptySeq DEF TypeOK
    <2>3. Work' = Work
        BY <2>1, <2>2 DEF Work
    <2>4. \A j \in RowsAmong(Work, v) : j < 1 => j < next
        BY <1>1 DEF RowsAmong
    <2> QED
        BY <1>2, <2>1, <2>3, <2>4 DEF Shows, Settled
<1>5. CASE IsolationDone
    <2>1. buffer = <<>> /\ buffer' = <<>> /\ batch' = <<>> /\ Len(batch) < next
        BY <1>1, <1>5 DEF IsolationDone, BatchProgress, TypeOK
    <2>2. Work' = <<>> /\ (Work = batch)
        BY <2>1 DEF Work
    <2>3. \A j \in RowsAmong(batch, v) : j < next
        <3>1. Len(batch) \in Nat
            BY <1>1, LenProperties DEF TypeOK
        <3> QED
            BY <1>1, <2>1, <3>1 DEF RowsAmong
    <2>4. Settled(v, r)'
        BY <1>2, <2>2, <2>3 DEF Shows, Settled
    <2> QED
        BY <2>2, <2>4 DEF Shows, RowsAmong
<1>6. CASE Interrupt
    <2>1. buffer # <<>>
        BY <1>6 DEF Interrupt, Accountable
    <2>2. batch = <<>> /\ next = 1
        BY <1>1, <1>6, <2>1 DEF Interrupt, BatchProgress
    <2> QED
        BY <1>3, <1>6, <2>2 DEF Interrupt
<1>7. CASE \/ PollFails \/ CommitFails
           \/ Tick \/ DbUp \/ DbDown \/ UNCHANGED vars \/ \E e \in Event : Produce(e)
    BY <1>3, <1>7 DEF PollFails, CommitFails, Tick, DbUp, DbDown, vars, Produce
<1> QED
    BY <1>4, <1>5, <1>6, <1>7

\* What is fetched and not acknowledged is shown or about to be.
LEMMA FetchedShows ==
    ASSUME IInv, KeyedByVessel, LatestHeld, [Next]_vars, Untorn', Accountable',
           NEW v \in Vessel, NEW i \in RowsOf(v), IsLast(RowsOf(v), i),
           NEW r, r = log[PartitionOf[v]][i],
           committed'[PartitionOf[v]] < i, i =< position'[PartitionOf[v]]
    PROVE  Shows(v, r)'
<1> DEFINE p == PartitionOf[v]
<1>1. TypeOK /\ OffsetsInRange /\ BatchProgress /\ p \in Partition
    BY TopicAssumption DEF IInv
<1>2. Untorn /\ ~TornPoll
    BY <1>1, UntornBefore
<1>3. committed[p] \in Nat /\ position[p] \in Nat /\ committed[p] =< position[p] /\ i \in Nat
    BY <1>1 DEF TypeOK, OffsetsInRange, RowsOf
<1>4. ASSUME Accountable, committed[p] < i, i =< position[p] PROVE Shows(v, r)
    BY <1>2, <1>4 DEF LatestHeld
<1>5. ASSUME position' = committed' PROVE FALSE
    <2>1. committed'[p] \in Nat
        BY <1>1, StepTyped DEF BatchProgress, TypeOK
    <2> QED
        BY <1>3, <1>5, <2>1
<1>6. CASE Poll
    <2>1. UNCHANGED committed /\ Accountable
        BY <1>6 DEF Poll, Accountable
    <2> QED
        BY <1>4, <1>6, <2>1, PollShows
<1>7. CASE FlushNoRows \/ FlushApplied \/ FinalFlush
    <2>1. UNCHANGED <<committed, position>> /\ Accountable
        BY <1>7 DEF FlushNoRows, FlushApplied, FinalFlush, Accountable
    <2> QED
        BY <1>4, <1>7, <2>1, FlushShows
<1>8. CASE FlushUnbuildable \/ FlushNotApplied
    <2>1. UNCHANGED <<committed, position>> /\ Accountable
        BY <1>8 DEF FlushUnbuildable, FlushNotApplied, Accountable
    <2> QED
        BY <1>4, <1>8, <2>1, FailedFlushShows
<1>9. CASE \/ IsolateUnbuildable \/ IsolateSkipped \/ IsolateApplied
           \/ IsolateNotApplied \/ Healthy
    <2>1. UNCHANGED <<committed, position>> /\ Accountable
        BY <1>9 DEF IsolateUnbuildable, IsolateSkipped, IsolateApplied, IsolateNotApplied,
           Healthy, Isolating, Accountable
    <2> QED
        BY <1>4, <1>9, <2>1, IsolationShows
<1>10. CASE \/ Unhealthy \/ IsolationDone \/ PollFails
            \/ Tick \/ DbUp \/ DbDown \/ UNCHANGED vars \/ \E e \in Event : Produce(e)
    <2>1. UNCHANGED <<committed, position>> /\ Accountable
        BY <1>10 DEF Unhealthy, IsolationDone, PollFails, Tick, DbUp, DbDown, vars, Produce,
           Publish, Accountable
    <2> QED
        BY <1>4, <1>10, <2>1, OtherShows
<1>11. CASE Interrupt
    <2>1. UNCHANGED <<committed, position>> /\ pc # "final"
        BY <1>11 DEF Interrupt
    <2>2. Accountable
        BY <1>11 DEF Interrupt, Accountable
    <2> QED
        BY <1>4, <1>11, <2>1, <2>2, OtherShows
<1>12. CASE CommitFails
    <2>1. UNCHANGED position /\ committed' \in {committed, position} /\ Accountable
        BY <1>12 DEF CommitFails, CommitInDoubt, Accountable
    <2>2. committed' = committed
        BY <1>5, <2>1
    <2> QED
        BY <1>4, <1>12, <2>1, <2>2, OtherShows
<1>13. CASE \/ Rejoin \/ Reconnect \/ Commit \/ FinalFlushFails \/ FinalCommit
            \/ Crash \/ Restart
    BY <1>5, <1>13 DEF Rejoin, Reconnect, Commit, FinalFlushFails, FinalCommit, Crash,
       Restart, Stopped, CommitPolled, Rewind
<1>14. CASE ReconnectFails
    BY <1>14 DEF ReconnectFails, Accountable
<1> QED
    BY <1>2, <1>6, <1>7, <1>8, <1>9, <1>10, <1>11, <1>12, <1>13, <1>14
       DEF Next, Step, Failure

\* What is acknowledged stays shown: nothing in memory is older.
LEMMA AckedShown ==
    ASSUME IInv, HeldUnacked, KeyedByVessel, LatestHeld, [Next]_vars, Untorn',
           NEW v \in Vessel, NEW i \in RowsOf(v), IsLast(RowsOf(v), i),
           NEW r, r = log[PartitionOf[v]][i], i =< committed'[PartitionOf[v]]
    PROVE  Settled(v, r)'
<1> DEFINE p == PartitionOf[v]
<1>1. TypeOK /\ OffsetsInRange /\ BatchProgress /\ p \in Partition
    BY TopicAssumption DEF IInv
<1>2. Untorn
    BY <1>1, UntornBefore
<1>3. committed[p] \in Nat /\ position[p] \in Nat /\ committed[p] =< position[p] /\ i \in Nat
    BY <1>1 DEF TypeOK, OffsetsInRange, RowsOf
<1>4. CASE i =< committed[p]
    <2>1. Settled(v, r)
        BY <1>2, <1>4 DEF LatestHeld
    <2>2. ASSUME NEW e \in Held, VesselOf[e] = v, KindOf[e] = "ok" PROVE FALSE
        <3>1. PICK q \in Partition : \E k \in 1..Len(log[q]) : committed[q] < k /\ log[q][k] = e
            BY <2>2 DEF HeldUnacked, Unacked
        <3>2. PICK k \in 1..Len(log[q]) : committed[q] < k /\ log[q][k] = e
            BY <3>1
        <3>3. q = p
            BY <2>2, <3>2 DEF KeyedByVessel
        <3>4. DOMAIN log[p] = 1..Len(log[p])
            BY <1>1, LenProperties DEF TypeOK
        <3>5. k \in RowsOf(v)
            BY <2>2, <3>2, <3>3, <3>4 DEF RowsOf
        <3>6. k =< i /\ committed[p] < k /\ k \in Nat
            BY <3>2, <3>3, <3>5 DEF IsLast
        <3> QED
            BY <1>3, <1>4, <3>6
    <2> QED
        BY <2>1, <2>2, StateStep DEF Settled
<1>5. CASE committed[p] < i
    <2>1. Commit \/ CommitFails \/ FinalCommit
        <3>1. ~UNCHANGED committed
            BY <1>3, <1>5
        <3> QED
            BY <3>1 DEF Next, Step, Failure, Poll, Reconnect, FlushUnbuildable, FlushNoRows,
               FlushApplied, FlushNotApplied, IsolateUnbuildable, IsolateSkipped,
               IsolateApplied, IsolateNotApplied, Healthy, Unhealthy, IsolationDone,
               FinalFlush, FinalFlushFails, Restart, TornPoll, PollFails, Rejoin,
               ReconnectFails, Interrupt, Crash, DbDown, Tick, DbUp, vars, Rewind,
               Produce, Publish
    <2>2. Accountable /\ committed' \in {committed, position} /\ UNCHANGED storeVars
        BY <2>1 DEF Commit, CommitFails, FinalCommit, CommitPolled, CommitInDoubt, Accountable
    <2>3. i =< position[p]
        BY <1>3, <1>5, <2>2
    <2>4. Shows(v, r)
        BY <1>2, <1>5, <2>2, <2>3 DEF LatestHeld
    <2>5. buffer = <<>> /\ batch = <<>>
        BY <1>1, <2>1 DEF BatchProgress, Commit, CommitFails, FinalCommit
    <2>6. RowsAmong(Work, v) = {}
        BY <2>5 DEF Work, RowsAmong
    <2> QED
        BY <2>2, <2>4, <2>6 DEF Shows, Settled
<1> QED
    BY <1>3, <1>4, <1>5

LEMMA StepLatest ==
    IInv /\ HeldUnacked /\ KeyedByVessel /\ LatestHeld /\ [Next]_vars => LatestHeld'
<1> SUFFICES ASSUME IInv, HeldUnacked, KeyedByVessel, LatestHeld, [Next]_vars, Untorn',
                    NEW v \in Vessel, NEW i \in RowsOf(v)', IsLast(RowsOf(v)', i)
             PROVE  /\ i =< committed'[PartitionOf[v]] =>
                           Settled(v, log[PartitionOf[v]][i])'
                    /\ /\ Accountable' /\ committed'[PartitionOf[v]] < i
                       /\ i =< position'[PartitionOf[v]]
                       => Shows(v, log[PartitionOf[v]][i])'
    BY DEF LatestHeld
<1> DEFINE p == PartitionOf[v]
           r == log'[p][i]
<1>1. TypeOK /\ OffsetsInRange /\ p \in Partition
    BY TopicAssumption DEF IInv
<1>2. OffsetsInRange' /\ TypeOK'
    BY <1>1, StepOffsets, StepTyped DEF IInv, BatchProgress
<1>3. ASSUME i =< position'[p]
      PROVE  i \in RowsOf(v) /\ IsLast(RowsOf(v), i) /\ r = log[p][i]
    BY <1>1, <1>3, LastStep
<1>4. committed'[p] \in Nat /\ position'[p] \in Nat /\ committed'[p] =< position'[p] /\ i \in Nat
    <2>1. DOMAIN log'[p] = 1..Len(log'[p])
        BY <1>1, <1>2, LenProperties DEF TypeOK
    <2> QED
        BY <1>1, <1>2, <2>1 DEF TypeOK, OffsetsInRange, RowsOf
<1>5. ASSUME i =< committed'[p] PROVE Settled(v, log[p][i])'
    <2>1. i =< position'[p]
        BY <1>4, <1>5
    <2>2. i \in RowsOf(v) /\ IsLast(RowsOf(v), i) /\ r = log[p][i]
        BY <1>3, <2>1
    <2>3. \A x : x = log[p][i] => Settled(v, x)'
        BY <1>5, <2>2, AckedShown
    <2> QED
        BY <2>2, <2>3 DEF Settled
<1>6. ASSUME Accountable', committed'[p] < i, i =< position'[p] PROVE Shows(v, log[p][i])'
    <2>1. i \in RowsOf(v) /\ IsLast(RowsOf(v), i) /\ r = log[p][i]
        BY <1>3, <1>6
    <2>2. \A x : x = log[p][i] => Shows(v, x)'
        BY <1>6, <2>1, FetchedShows
    <2> QED
        BY <2>1, <2>2 DEF Shows, Settled
<1> QED
    BY <1>5, <1>6

\* LatestInLog: once the group has caught up, vessel_current_state shows the last
\* event of each vessel in the log, for any number of vessels, partitions,
\* retries, rejoins and restarts.
THEOREM LatestIsShown == Spec => []LatestInLog
<1> DEFINE LInv == HeldUnacked /\ KeyedByVessel /\ LatestHeld
<1>1. Init => LInv
    <2> SUFFICES ASSUME Init PROVE LInv
        OBVIOUS
    <2>1. \A p \in Partition : log[p] = <<>>
        BY DEF Init
    <2>2. Held = {}
        BY DEF Init, Held, Range
    <2>3. \A v \in Vessel : RowsOf(v) = {}
        <3>1. \A v \in Vessel : PartitionOf[v] \in Partition
            BY TopicAssumption
        <3> QED
            BY <2>1, <3>1 DEF RowsOf
    <2> QED
        BY <2>1, <2>2, <2>3 DEF HeldUnacked, KeyedByVessel, LatestHeld
<1>2. IInv /\ LInv /\ [Next]_vars => LInv'
    BY StepUnacked, StepKeyed, StepLatest DEF IInv
<1>3. IInv /\ LInv => LatestInLog
    <2> SUFFICES ASSUME IInv, LInv, Untorn, CaughtUp, NEW v \in Vessel, NEW i \in RowsOf(v),
                        \A j \in RowsOf(v) : j =< i
                 PROVE  state[v] = log[PartitionOf[v]][i]
                           \/ log[PartitionOf[v]][i] \in dlq \union dropped
        BY DEF LatestInLog
    <2>1. PartitionOf[v] \in Partition
        BY TopicAssumption
    <2>2. log[PartitionOf[v]] \in Seq(Event) /\ i \in 1..Len(log[PartitionOf[v]])
        BY <2>1, LenProperties DEF IInv, TypeOK, RowsOf
    <2>3. i =< committed[PartitionOf[v]]
        BY <2>1, <2>2 DEF CaughtUp
    <2> QED
        BY <2>3 DEF LatestHeld, IsLast, Settled
<1> QED
    BY <1>1, <1>2, <1>3, Invariance, PTL DEF Spec
=============================================================================
