--------------------------- MODULE StreamProcessor ---------------------------
(***************************************************************************)
(* The stream_processor service: one consumer of the topic ais.raw that    *)
(* materialises AIS events into PostGIS (vessel_track, one row per event,  *)
(* and vessel_current_state, one row per vessel) and commits its offsets   *)
(* by hand.                                                                *)
(*                                                                         *)
(* One step is one stretch of the run loop between two interactions with   *)
(* the outside: a poll, a database transaction, a dead-letter send, an     *)
(* offset commit, a reconnection.  Between any two of them the database,   *)
(* the broker or the process itself may fail; each kind of failure has a   *)
(* budget (MaxFaults).                                                     *)
(***************************************************************************)
EXTENDS RawTopic, FiniteSets

CONSTANTS NoEvent,           \* a vessel without a row in vessel_current_state
          KindOf,            \* what build_rows and PostGIS make of it, see Kind
          FlushRows,         \* state_flush_rows
          MaxRetainRetries,  \* MAX_RETAIN_RETRIES
          MaxFaults          \* bound: failures of each kind

(***************************************************************************)
(* "ok"          a row that PostGIS accepts                                *)
(* "rejected"    a row whose insert fails (a NUL in the ship name)         *)
(* "skipped"     no row: build_rows passes over it (no position, no mmsi)  *)
(* "unbuildable" build_rows raises                                         *)
(***************************************************************************)
Kind == {"ok", "rejected", "skipped", "unbuildable"}

(***************************************************************************)
(* "db" the database goes away, "broker" a Kafka call fails, "dlq" a dead- *)
(* letter send fails, "crash" the process is killed, "interrupt" Ctrl-C,   *)
(* "torn" Ctrl-C between a poll and the last append to the buffer.         *)
(***************************************************************************)
FaultKind == {"db", "broker", "dlq", "crash", "interrupt", "torn"}

ASSUME EventAssumption == KindOf \in [Event -> Kind] /\ NoEvent \notin Event
ASSUME LimitAssumption == /\ FlushRows \in Nat \ {0}
                          /\ MaxRetainRetries \in Nat \ {0}
                          /\ MaxFaults \in [FaultKind -> Nat]

VARIABLES
    \* PostGIS and the dead-letter topic
    track,      \* the events with a row in vessel_track
    state,      \* state[v]: the event vessel_current_state shows for v
    dlq,        \* the events in ais.dlq
    dropped,    \* history: events let go with neither a row nor a dead letter
    dbUp,       \* the database accepts connections
    \* the process
    pc,         \* where the run loop is
    conn,       \* psycopg2 connection: "open", "lost" (not yet noticed), "closed"
    buffer,     \* self.buffer
    timer,      \* self._first_event_at: "off" (None), "running", "expired"
    failures,   \* self.failures
    batch,      \* the local `events' of _isolate_poison
    next,       \* the index in batch of the event being isolated
    faults      \* failures so far, by kind

kafkaVars   == <<log, committed>>
storeVars   == <<track, state, dlq, dropped>>
processVars == <<buffer, timer, failures, batch, next>>
vars == <<topicVars, storeVars, processVars, dbUp, pc, conn, faults>>

(***************************************************************************)
(* "run"         top of the loop           "commit"      consumer.commit() *)
(* "event"       isolating batch[next]     "commitEmpty" its early variant *)
(* "health"      _db_healthy() is next     "reconnect"   the except clause *)
(* "final"       the finally clause        "finalCommit" its commit        *)
(* "abort"       the finally clause, with the consumer closed              *)
(* "down"        no process                                                *)
(***************************************************************************)
Location == {"run", "event", "health", "commit", "commitEmpty", "reconnect",
             "final", "abort", "finalCommit", "down"}

TypeOK == /\ TopicTypeOK
          /\ track \in SUBSET Event
          /\ state \in [Vessel -> Event \union {NoEvent}]
          /\ dlq \in SUBSET Event
          /\ dropped \in SUBSET Event
          /\ dbUp \in BOOLEAN
          /\ pc \in Location
          /\ conn \in {"open", "lost", "closed"}
          /\ buffer \in Seq(Event)
          /\ timer \in {"off", "running", "expired"}
          /\ failures \in Nat
          /\ batch \in Seq(Event)
          /\ next \in Nat \ {0}
          /\ faults \in [FaultKind -> Nat]

Init == /\ TopicInit
        /\ track = {}
        /\ state = [v \in Vessel |-> NoEvent]
        /\ dlq = {}
        /\ dropped = {}
        /\ dbUp = TRUE
        /\ pc = "run"
        /\ conn = "open"
        /\ buffer = <<>>
        /\ timer = "off"
        /\ failures = 0
        /\ batch = <<>>
        /\ next = 1
        /\ faults = [k \in FaultKind |-> 0]

\* One more failure of kind k, while its budget lasts.
Fault(k) == /\ faults[k] < MaxFaults[k]
            /\ faults' = [faults EXCEPT ![k] = @ + 1]

-----------------------------------------------------------------------------
(* db.py: rows and the batch transaction                                   *)

OfKind(es, k) == {e \in Range(es) : KindOf[e] = k}
HasRow(e) == KindOf[e] \in {"ok", "rejected"}

\* build_rows raises for the whole batch if it raises for one event.
Builds(es) == OfKind(es, "unbuildable") = {}
NoRows(es) == \A e \in Range(es) : KindOf[e] = "skipped"

\* executemany upserts the state rows in batch order: the last one stays.
UpsertedFirst(st, es) ==
    {st2 \in [Vessel -> Event \union {NoEvent}] :
        \A v \in Vessel :
            LET hits == {i \in DOMAIN es : HasRow(es[i]) /\ VesselOf[es[i]] = v}
            IN  IF hits = {} THEN st2[v] = st[v]
                ELSE \E i \in hits : (\A j \in hits : i =< j) /\ st2[v] = es[i]}
Upserted(st, es) ==
    {st2 \in [Vessel -> Event \union {NoEvent}] :
        \A v \in Vessel :
            LET hits == {i \in DOMAIN es : HasRow(es[i]) /\ VesselOf[es[i]] = v}
            IN  IF hits = {} THEN st2[v] = st[v]
                ELSE \E i \in hits : (\A j \in hits : j =< i) /\ st2[v] = es[i]}

\* The transaction of apply_batch: tracks (ON CONFLICT DO NOTHING) and state.
Written(es) == /\ track' = track \union OfKind(es, "ok")
               /\ state' \in Upserted(state, es)

\* After a failed transaction _apply_rows calls _ensure_conn.
ConnAfterFailure(up) == IF up THEN "open" ELSE "closed"

Applied(es) ==
    /\ conn = "open"
    /\ OfKind(es, "rejected") = {}
    /\ Written(es)
    /\ UNCHANGED <<conn, dbUp, faults>>

NotApplied(es) ==
    /\ conn # "open" \/ OfKind(es, "rejected") # {}
    /\ conn' = ConnAfterFailure(dbUp)
    /\ UNCHANGED <<track, state, dbUp, faults>>

\* The server commits and fails before the client hears of it.
Unacknowledged(es) ==
    /\ conn = "open"
    /\ OfKind(es, "rejected") = {}
    /\ Fault("db")
    /\ Written(es)
    /\ dbUp' \in BOOLEAN
    /\ conn' = ConnAfterFailure(dbUp')

-----------------------------------------------------------------------------
(* The run loop: polling                                                   *)

ShouldFlush == /\ buffer # <<>>
               /\ Len(buffer) >= FlushRows \/ timer = "expired"

\* The loop over the polled messages; the first one starts the timer.
Collect(es) == /\ buffer' = buffer \o es
               /\ timer' = IF buffer = <<>> /\ es # <<>> THEN "running" ELSE timer

Poll ==
    /\ pc = "run"
    /\ ~ShouldFlush
    /\ \E q \in Ahead : \E o \in Orders(q) : position' = q /\ Collect(EventsOf(o))
    /\ UNCHANGED <<kafkaVars, storeVars, dbUp, pc, conn, failures, batch, next, faults>>

\* Ctrl-C before all the polled events are in the buffer.
TornPoll ==
    /\ pc = "run"
    /\ ~ShouldFlush
    /\ Fault("torn")
    /\ \E q \in Ahead : \E o \in Orders(q) : \E n \in 0..(Len(o) - 1) :
          position' = q /\ Collect(SubSeq(EventsOf(o), 1, n))
    /\ pc' = "final"
    /\ UNCHANGED <<kafkaVars, storeVars, dbUp, conn, failures, batch, next>>

PollFails ==
    /\ pc = "run"
    /\ ~ShouldFlush
    /\ Fault("broker")
    /\ pc' = "reconnect"
    /\ UNCHANGED <<topicVars, storeVars, processVars, dbUp, conn>>

\* Inside poll() the consumer rejoins its group and restarts at the offsets.
Rejoin ==
    /\ pc = "run"
    /\ ~ShouldFlush
    /\ Fault("broker")
    /\ Rewind
    /\ UNCHANGED <<storeVars, processVars, dbUp, pc, conn>>

\* _reconnect replaces the consumer and keeps the buffer.
Reconnect ==
    /\ pc = "reconnect"
    /\ Rewind
    /\ pc' = "run"
    /\ UNCHANGED <<storeVars, processVars, dbUp, conn, faults>>

\* The new KafkaConsumer finds no broker: the exception leaves the loop.
ReconnectFails ==
    /\ pc = "reconnect"
    /\ Fault("broker")
    /\ pc' = "abort"
    /\ UNCHANGED <<topicVars, storeVars, processVars, dbUp, conn>>

\* state_flush_seconds after the first event of the buffer.
Tick ==
    /\ timer = "running"
    /\ timer' = "expired"
    /\ UNCHANGED <<topicVars, storeVars, dbUp, pc, conn, buffer, failures,
                   batch, next, faults>>

-----------------------------------------------------------------------------
(* The run loop: flushing                                                  *)

EmptyBuffer == buffer' = <<>> /\ timer' = "off"

\* Events without a row leave no trace once their batch is through.
PassOver(es) == dropped' = dropped \union OfKind(es, "skipped")

\* A flush returned False: run counts it and may start to isolate.
\* Seeded fault: the threshold is off by one.
FlushFailedEarly(t) ==
    /\ failures' = failures + 1
    /\ IF failures + 2 >= MaxRetainRetries
          THEN batch' = buffer /\ next' = 1 /\ EmptyBuffer /\ pc' = "event"
          ELSE timer' = t /\ UNCHANGED <<buffer, batch, next, pc>>
FlushFailed(t) ==
    /\ failures' = failures + 1
    /\ IF failures + 1 >= MaxRetainRetries
          THEN /\ batch' = buffer
               /\ next' = 1
               /\ EmptyBuffer
               /\ pc' = "event"
          ELSE /\ timer' = t
               /\ UNCHANGED <<buffer, batch, next, pc>>

\* build_rows raises: the batch is kept, but _first_event_at stays None.
FlushUnbuildable ==
    /\ pc = "run"
    /\ ShouldFlush
    /\ ~Builds(buffer)
    /\ FlushFailed("off")
    /\ UNCHANGED <<topicVars, storeVars, dbUp, conn, faults>>

FlushNoRows ==
    /\ pc = "run"
    /\ ShouldFlush
    /\ NoRows(buffer)
    /\ PassOver(buffer)
    /\ EmptyBuffer
    /\ pc' = "commitEmpty"
    /\ UNCHANGED <<topicVars, track, state, dlq, dbUp, conn, failures,
                   batch, next, faults>>

FlushApplied ==
    /\ pc = "run"
    /\ ShouldFlush
    /\ Builds(buffer)
    /\ ~NoRows(buffer)
    /\ Applied(buffer)
    /\ PassOver(buffer)
    /\ EmptyBuffer
    /\ pc' = "commit"
    /\ UNCHANGED <<topicVars, dlq, failures, batch, next>>

\* Seeded fault: the offsets are committed although the batch is kept.
FlushNotAppliedCommits ==
    /\ pc = "run" /\ ShouldFlush /\ Builds(buffer) /\ ~NoRows(buffer)
    /\ NotApplied(buffer) \/ Unacknowledged(buffer)
    /\ timer' = "running"
    /\ pc' = "commit"
    /\ UNCHANGED <<topicVars, dlq, dropped, failures, buffer, batch, next>>
FlushNotApplied ==
    /\ pc = "run"
    /\ ShouldFlush
    /\ Builds(buffer)
    /\ ~NoRows(buffer)
    /\ NotApplied(buffer) \/ Unacknowledged(buffer)
    /\ FlushFailed("running")
    /\ UNCHANGED <<topicVars, dlq, dropped>>

Commit ==
    /\ pc \in {"commit", "commitEmpty"}
    /\ CommitPolled
    /\ failures' = IF pc = "commit" THEN 0 ELSE failures
    /\ pc' = "run"
    /\ UNCHANGED <<storeVars, dbUp, conn, buffer, timer, batch, next, faults>>

\* The broker may have taken the offsets nonetheless.
CommitFails ==
    /\ pc \in {"commit", "commitEmpty"}
    /\ Fault("broker")
    /\ CommitInDoubt
    /\ pc' = "reconnect"
    /\ UNCHANGED <<storeVars, processVars, dbUp, conn>>

-----------------------------------------------------------------------------
(* The run loop: isolating poison events                                   *)

Isolating == pc = "event" /\ next =< Len(batch)

\* _send_poison: send_to_dlq swallows every failure.
DeadLetter(e) == \/ /\ dlq' = dlq \union {e}
                    /\ UNCHANGED <<dropped, faults>>
                 \/ /\ Fault("dlq")
                    /\ dropped' = dropped \union {e}
                    /\ UNCHANGED dlq

\* Seeded fault: the event that cannot be built is passed over.
IsolateUnbuildableSilently ==
    /\ Isolating /\ KindOf[batch[next]] = "unbuildable"
    /\ dropped' = dropped \union {batch[next]}
    /\ next' = next + 1
    /\ UNCHANGED <<topicVars, track, state, dlq, dbUp, pc, conn, buffer,
                   timer, failures, batch, faults>>
IsolateUnbuildable ==
    /\ Isolating
    /\ KindOf[batch[next]] = "unbuildable"
    /\ DeadLetter(batch[next])
    /\ next' = next + 1
    /\ UNCHANGED <<topicVars, track, state, dbUp, pc, conn, buffer, timer,
                   failures, batch>>

\* A transaction without statements succeeds on any connection not closed.
IsolateSkipped ==
    /\ Isolating
    /\ KindOf[batch[next]] = "skipped"
    /\ conn # "closed"
    /\ PassOver(<<batch[next]>>)
    /\ next' = next + 1
    /\ UNCHANGED <<topicVars, track, state, dlq, dbUp, pc, conn, buffer,
                   timer, failures, batch, faults>>

\* Seeded fault: no `continue' after an event that was applied.
IsolateAppliedFallsThrough ==
    /\ Isolating /\ HasRow(batch[next]) /\ Applied(<<batch[next]>>)
    /\ pc' = "health"
    /\ UNCHANGED <<topicVars, dlq, dropped, processVars>>
IsolateApplied ==
    /\ Isolating
    /\ HasRow(batch[next])
    /\ Applied(<<batch[next]>>)
    /\ next' = next + 1
    /\ UNCHANGED <<topicVars, dlq, dropped, pc, buffer, timer, failures,
                   batch>>

IsolateNotApplied ==
    /\ Isolating
    /\ \/ KindOf[batch[next]] # "unbuildable" /\ NotApplied(<<batch[next]>>)
       \/ HasRow(batch[next]) /\ Unacknowledged(<<batch[next]>>)
    /\ pc' = "health"
    /\ UNCHANGED <<topicVars, dlq, dropped, processVars>>

\* _db_healthy holds after a failed insert: the event takes the blame.
Healthy ==
    /\ pc = "health"
    /\ conn = "open"
    /\ DeadLetter(batch[next])
    /\ next' = next + 1
    /\ pc' = "event"
    /\ UNCHANGED <<topicVars, track, state, dbUp, conn, buffer, timer,
                   failures, batch>>

\* The whole batch goes back to the buffer, and the count starts again.
\* Seeded faults: the batch is forgotten; the timer is left as it was.
UnhealthyForgets ==
    /\ pc = "health" /\ conn # "open"
    /\ conn' = "closed" /\ failures' = 0
    /\ batch' = <<>> /\ next' = 1 /\ pc' = "run"
    /\ UNCHANGED <<topicVars, storeVars, dbUp, faults, buffer, timer>>
UnhealthyUntimed ==
    /\ pc = "health" /\ conn # "open"
    /\ conn' = "closed" /\ failures' = 0
    /\ buffer' = batch \o buffer
    /\ batch' = <<>> /\ next' = 1 /\ pc' = "run"
    /\ UNCHANGED <<topicVars, storeVars, dbUp, faults, timer>>
Unhealthy ==
    /\ pc = "health"
    /\ conn # "open"
    /\ conn' = "closed"
    /\ buffer' = batch \o buffer
    /\ timer' = "running"
    /\ failures' = 0
    /\ batch' = <<>>
    /\ next' = 1
    /\ pc' = "run"
    /\ UNCHANGED <<topicVars, storeVars, dbUp, faults>>

\* Seeded fault: no commit at the end.
IsolationDoneUncommitted ==
    /\ pc = "event" /\ next > Len(batch)
    /\ batch' = <<>> /\ next' = 1 /\ pc' = "run" /\ failures' = 0
    /\ UNCHANGED <<topicVars, storeVars, dbUp, conn, buffer, timer, faults>>
IsolationDone ==
    /\ pc = "event"
    /\ next > Len(batch)
    /\ batch' = <<>>
    /\ next' = 1
    /\ pc' = "commit"
    /\ UNCHANGED <<topicVars, storeVars, dbUp, conn, buffer, timer,
                   failures, faults>>

-----------------------------------------------------------------------------
(* Stopping, crashing and starting again                                   *)

\* Whatever the process held in memory is gone.
Stopped == /\ pc' = "down"
           /\ conn' = "closed"
           /\ EmptyBuffer
           /\ failures' = 0
           /\ batch' = <<>>
           /\ next' = 1
           /\ position' = committed'

\* Ctrl-C anywhere else: what the call in progress held is lost.
Interrupt ==
    /\ pc \in {"run", "event", "health", "commit", "commitEmpty", "reconnect"}
    /\ Fault("interrupt")
    /\ batch' = <<>>
    /\ next' = 1
    /\ pc' = IF pc = "reconnect" THEN "abort" ELSE "final"
    /\ UNCHANGED <<topicVars, storeVars, dbUp, conn, buffer, timer, failures>>

\* The last flush; its commit is refused when the consumer is closed.
FinalFlush ==
    /\ pc \in {"final", "abort"}
    /\ buffer # <<>>
    /\ Builds(buffer)
    /\ IF NoRows(buffer) THEN UNCHANGED <<track, state, conn, dbUp, faults>>
                         ELSE Applied(buffer)
    /\ PassOver(buffer)
    /\ EmptyBuffer
    /\ failures' = 0
    /\ pc' = IF pc = "final" THEN "finalCommit" ELSE "down"
    /\ UNCHANGED <<topicVars, dlq, batch, next>>

FinalFlushFails ==
    /\ pc \in {"final", "abort"}
    /\ \/ buffer = <<>>
       \/ ~Builds(buffer)
       \/ ~NoRows(buffer) /\ (conn # "open" \/ OfKind(buffer, "rejected") # {})
    /\ UNCHANGED <<kafkaVars, storeVars, dbUp, faults>>
    /\ Stopped

FinalCommit ==
    /\ pc = "finalCommit"
    /\ \/ committed' = position /\ UNCHANGED faults
       \/ committed' = committed /\ Fault("broker")
    /\ Stopped
    /\ UNCHANGED <<log, storeVars, dbUp>>

\* Killed: systemd stops the service with SIGTERM, which it does not handle.
Crash ==
    /\ pc # "down"
    /\ Fault("crash")
    /\ UNCHANGED <<kafkaVars, storeVars, dbUp>>
    /\ Stopped

\* systemd starts it again; main ends at once as long as PostGIS is away.
Restart ==
    /\ pc = "down"
    /\ dbUp
    /\ pc' = "run"
    /\ conn' = "open"
    /\ Rewind
    /\ UNCHANGED <<storeVars, processVars, dbUp, faults>>

DbDown ==
    /\ dbUp
    /\ Fault("db")
    /\ dbUp' = FALSE
    /\ conn' = IF conn = "open" THEN "lost" ELSE conn
    /\ UNCHANGED <<topicVars, storeVars, processVars, pc>>

DbUp ==
    /\ ~dbUp
    /\ dbUp' = TRUE
    /\ UNCHANGED <<topicVars, storeVars, processVars, pc, conn, faults>>

-----------------------------------------------------------------------------
Produce(e) == /\ Publish(e)
              /\ UNCHANGED <<storeVars, processVars, dbUp, pc, conn, faults>>

\* What the process does on its own.
Step == \/ Poll \/ Reconnect
        \/ FlushUnbuildable \/ FlushNoRows \/ FlushApplied \/ FlushNotApplied
        \/ Commit
        \/ IsolateUnbuildable \/ IsolateSkipped \/ IsolateApplied
        \/ IsolateNotApplied \/ Healthy \/ Unhealthy \/ IsolationDone
        \/ FinalFlush \/ FinalFlushFails \/ FinalCommit
        \/ Restart

\* What goes wrong around it.
Failure == \/ TornPoll \/ PollFails \/ Rejoin \/ ReconnectFails \/ CommitFails
           \/ Interrupt \/ Crash \/ DbDown

Next == \/ Step
        \/ Failure
        \/ Tick
        \/ DbUp
        \/ \E e \in Event : Produce(e)

Spec == Init /\ [][Next]_vars

(***************************************************************************)
(* The loop takes its next step, time passes, the database comes back and  *)
(* systemd restarts the service.  Nothing is assumed of the producer, and  *)
(* only the budgets limit the failures.                                    *)
(***************************************************************************)
Fairness == WF_vars(Step) /\ WF_vars(Tick) /\ WF_vars(DbUp)
FairSpec == Spec /\ Fairness

-----------------------------------------------------------------------------
(* Properties                                                              *)

\* An event the service has disposed of, in whichever way.
Handled == track \union dlq \union dropped

\* Every record below the committed offset, which nobody will read again, has
\* its row, its dead letter, or was let go by decision of the code.
CommittedHandled == \A p \in Partition : \A i \in 1..committed[p] :
                        log[p][i] \in Handled

\* Unless Ctrl-C hit the loop over the polled messages, offsets are committed
\* after the flush only, across retries, isolation, reconnections, crashes and
\* restarts.
Untorn == faults["torn"] = 0
AtLeastOnce == Untorn => CommittedHandled

(***************************************************************************)
(* Why that is so.  consumer.commit() commits every record polled so far,  *)
(* whatever batch was just written.  It is right because the buffer always *)
(* holds every polled record that is not disposed of, and is empty when    *)
(* the offsets are committed.                                              *)
(***************************************************************************)
Held == Range(buffer) \union Range(batch)
Accountable ==
    \/ pc \in {"run", "event", "health", "commit", "commitEmpty", "reconnect",
               "finalCommit"}
    \/ pc = "final" /\ buffer # <<>>
PolledAccounted ==
    Untorn /\ Accountable =>
        \A p \in Partition : \A i \in (committed[p] + 1)..position[p] :
            log[p][i] \in Handled \union Held

\* The health check is made for an event of the batch.
HealthOfCurrent == pc = "health" => next =< Len(batch)

\* The part of the batch before `next' is disposed of; outside of an isolation
\* there is no batch, and during one, and at a commit, there is no buffer.
BatchProgress ==
    /\ next =< Len(batch) + 1
    /\ \A j \in 1..(next - 1) : batch[j] \in Handled
    /\ HealthOfCurrent
    /\ pc \notin {"event", "health"} => batch = <<>> /\ next = 1
    /\ pc \in {"event", "health", "commit", "commitEmpty", "finalCommit"} => buffer = <<>>

\* What the process holds in memory came from the log.
HeldIsLogged == Held \subseteq Logged

\* The inductive invariant behind AtLeastOnce and the implementation of Delivery.
IInv == TypeOK /\ OffsetsInRange /\ BatchProgress /\ HeldIsLogged
               /\ PolledAccounted /\ AtLeastOnce

\* The service implements at-least-once delivery: each of its steps is a step
\* of the abstract consumer, which never rewinds an offset or acknowledges a
\* record it did not dispose of.
Abstract == INSTANCE Delivery WITH handled <- Handled
ImplementsDelivery == Abstract!Spec

\* However long the database stays away, a poll never adds to a buffer that is
\* due, so that memory is bounded by one batch and one poll.
BufferBounded == Len(buffer) + Len(batch) =< FlushRows - 1 + MaxPoll

\* Only an event that the database refuses or that cannot be built ends up in
\* the dead-letter topic (the docstring of _isolate_poison: "DB healthy but a
\* batch keeps failing: push individual poison events to DLQ")...
QuarantineOnlyPoison == \A e \in dlq : KindOf[e] \in {"rejected", "unbuildable"}
\* ... which holds as long as the database has not gone away: a poison event
\* takes none of its neighbours with it.
NeighboursSpared == faults["db"] = 0 => QuarantineOnlyPoison

\* No event is dead-lettered before MAX_RETAIN_RETRIES flushes have failed
\* (README.md, "poison-event isolation after MAX_RETAIN_RETRIES=3").  They need
\* not be flushes of its own batch: a commit that fails leaves the count as it
\* was for the batch that comes next.
RetriedBeforeQuarantine ==
    [][dlq' # dlq => failures >= MaxRetainRetries]_vars

\* Records of a vessel whose event has a row, in the partition of its key.
RowsOf(v) == LET p == PartitionOf[v]
             IN  {i \in DOMAIN log[p] : VesselOf[log[p][i]] = v /\ KindOf[log[p][i]] = "ok"}

\* Once the group has caught up, vessel_current_state shows the last event of
\* each vessel in the log, unless that one was dead-lettered: replays after a
\* crash or a rejoin rewrite older rows, yet never have the last word.
LatestInLog ==
    Untorn /\ CaughtUp => \A v \in Vessel : \A i \in RowsOf(v) :
        LET e == log[PartitionOf[v]][i]
        IN  (\A j \in RowsOf(v) : j =< i) => state[v] = e \/ e \in dlq \union dropped

\* "Quarantined instead of silently dropped" (README.md): while the dead-letter
\* topic takes its messages, an acknowledged event has its row or its dead
\* letter, unless it is one that build_rows passes over.
NoSilentDrop ==
    Untorn /\ faults["dlq"] = 0 =>
        \A p \in Partition : \A i \in 1..committed[p] :
            log[p][i] \in track \union dlq \/ KindOf[log[p][i]] = "skipped"

\* Every event published on ais.raw is eventually disposed of, through outages,
\* retries and restarts.
EverythingHandled == \A e \in Event :
    (\E p \in Partition : \E i \in DOMAIN log[p] : log[p][i] = e) ~> e \in Handled

\* The group's lag goes back to zero once the producer stops.
EventuallyCaughtUp == <>[]CaughtUp
=============================================================================
