------------------------------ MODULE RawSink ------------------------------
(***************************************************************************)
(* The raw_sink service: one consumer of the topic ais.raw that buffers    *)
(* events, writes them to S3 as Parquet objects, one per hour of event     *)
(* time, dead-letters the events Parquet cannot hold, and commits its      *)
(* offsets by hand.  A circuit breaker counts its consecutive failures.    *)
(*                                                                         *)
(* One step is one stretch of the run loop between two interactions with   *)
(* the outside: a poll, an upload, a dead-letter send, an offset commit, a *)
(* reconnection.  Each kind of failure has a budget (MaxFaults).           *)
(***************************************************************************)
EXTENDS RawTopic, FiniteSets

CONSTANTS HourOf,      \* the dt/HH partition of an event, from its event_time
          KindOf,      \* what the buffer and Parquet make of it, see Kind
          MaxRows,     \* parquet_max_rows
          MinRows,     \* parquet_min_rows
          Threshold,   \* CIRCUIT_BREAKER_THRESHOLD
          MaxFaults    \* bound: failures of each kind

\* "ok"; "poison", which cannot be written as Parquet; and "unkeyed", for which
\* the buffer cannot compute a partition: drain raises.
Kind == {"ok", "poison", "unkeyed"}

(***************************************************************************)
(* "s3" an upload fails, "broker" a Kafka call fails, "dlq" a dead-letter  *)
(* send fails, "crash" the process is killed, "interrupt" Ctrl-C, "torn"   *)
(* Ctrl-C between a poll and the last addition to the buffer.              *)
(***************************************************************************)
FaultKind == {"s3", "broker", "dlq", "crash", "interrupt", "torn"}

ASSUME SinkEventAssumption == KindOf \in [Event -> Kind] /\ HourOf \in [Event -> Nat]
ASSUME SinkLimitAssumption == /\ MaxRows \in Nat \ {0}
                              /\ MinRows \in Nat
                              /\ Threshold \in Nat \ {0}
                              /\ MaxFaults \in [FaultKind -> Nat]

VARIABLES
    \* S3 and the dead-letter topic
    archive,     \* the objects; each tells how often it holds an event
    dlq,         \* the events in ais.dlq
    dropped,     \* history: events whose upload or dead letter failed
    \* the process
    pc,          \* where the run loop is
    closing,     \* the finally clause: "no", or with its consumer "open", "closed"
    buffer,      \* BatchBuffer._events
    timer,       \* BatchBuffer._first_event_at: "off" (None), "running", "expired"
    batch,       \* the drained events of _flush
    todo,        \* the hours of the batch not flushed yet
    quarantine,  \* indices of the group's poison events not dead-lettered yet
    uploaded,    \* uploaded_keys > 0
    infraFailed, \* infra_failed
    failures,    \* consecutive_failures
    faults       \* failures so far, by kind

storeVars == <<archive, dlq, dropped>>
flushVars == <<batch, todo, quarantine, uploaded, infraFailed>>
bufferVars == <<buffer, timer>>
vars == <<topicVars, storeVars, flushVars, bufferVars, pc, closing, failures, faults>>

(***************************************************************************)
(* "run"      top of the loop               "commit"     consumer.commit() *)
(* "put"      the loop over the groups      "reconnect"  the except clause *)
(* "isolate"  _handle_poison_group          "down"       no process        *)
(***************************************************************************)
Location == {"run", "put", "isolate", "commit", "reconnect", "down"}

TypeOK == /\ TopicTypeOK
          /\ archive \subseteq [Event -> Nat]
          /\ dlq \in SUBSET Event
          /\ dropped \in SUBSET Event
          /\ pc \in Location
          /\ closing \in {"no", "open", "closed"}
          /\ buffer \in Seq(Event)
          /\ timer \in {"off", "running", "expired"}
          /\ batch \in Seq(Event)
          /\ todo \in SUBSET Nat
          /\ quarantine \in SUBSET Nat
          /\ uploaded \in BOOLEAN
          /\ infraFailed \in BOOLEAN
          /\ failures \in 0..Threshold
          /\ faults \in [FaultKind -> Nat]

Init == /\ TopicInit
        /\ archive = {} /\ dlq = {} /\ dropped = {}
        /\ pc = "run"
        /\ closing = "no"
        /\ buffer = <<>> /\ timer = "off"
        /\ batch = <<>> /\ todo = {} /\ quarantine = {}
        /\ uploaded = FALSE /\ infraFailed = FALSE
        /\ failures = 0
        /\ faults = [k \in FaultKind |-> 0]

\* One more failure of kind k, while its budget lasts.
Fault(k) == /\ faults[k] < MaxFaults[k]
            /\ faults' = [faults EXCEPT ![k] = @ + 1]

BreakerOpen == failures >= Threshold

-----------------------------------------------------------------------------
(* The buffer                                                              *)

\* drain computes the partition of each event before it empties the buffer.
Keyed(es) == \A e \in Range(es) : KindOf[e] # "unkeyed"

\* add: the first event starts the timer.
TimerAfter(es) == IF buffer = <<>> /\ es # <<>> THEN "running" ELSE timer

\* should_flush, for the buffered events es and the timer t.
\* Seeded fault: parquet_min_rows events are not enough yet.
ShouldFlushAboveMin(es, t) ==
    /\ es # <<>>
    /\ Len(es) >= MaxRows \/ (t = "expired" /\ Len(es) > MinRows)
ShouldFlush(es, t) ==
    /\ es # <<>>
    /\ Len(es) >= MaxRows \/ (t = "expired" /\ Len(es) >= MinRows)

NoFlush == /\ batch' = <<>>
           /\ todo' = {}
           /\ quarantine' = {}
           /\ uploaded' = FALSE
           /\ infraFailed' = FALSE

\* _flush drains the buffer into groups, one per hour.
Drain(es) == /\ batch' = es
             /\ todo' = {HourOf[e] : e \in Range(es)}
             /\ quarantine' = {}
             /\ uploaded' = FALSE
             /\ infraFailed' = FALSE
             /\ buffer' = <<>>
             /\ timer' = "off"
             /\ pc' = "put"

\* Whatever the process held in memory is gone.
Stopped == /\ pc' = "down"
           /\ closing' = "no"
           /\ buffer' = <<>>
           /\ timer' = "off"
           /\ NoFlush
           /\ failures' = 0
           /\ position' = committed'

\* The finally clause with es buffered: it flushes, unless there is nothing to
\* flush or drain raises, and the process ends.
Finally(es, q, consumer) ==
    \/ /\ es # <<>> /\ Keyed(es)
       /\ Drain(es)
       /\ closing' = consumer
       /\ position' = q
       /\ UNCHANGED failures
    \/ /\ es = <<>> \/ ~Keyed(es)
       /\ Stopped

-----------------------------------------------------------------------------
(* The run loop: polling                                                   *)

\* The breaker is looked at before each poll.
Polling == pc = "run" /\ ~BreakerOpen

\* The poll, the loop over its messages, should_flush and drain.
Poll ==
    /\ Polling
    /\ UNCHANGED <<log, committed, storeVars, closing, failures, faults>>
    /\ \E q \in Ahead : \E o \in Orders(q) :
          LET es == buffer \o EventsOf(o)
              t  == TimerAfter(EventsOf(o))
          IN  /\ position' = q
              /\ \/ /\ ~ShouldFlush(es, t)
                    /\ buffer' = es /\ timer' = t
                    /\ UNCHANGED <<flushVars, pc>>
                 \/ /\ ShouldFlush(es, t) /\ Keyed(es)
                    /\ Drain(es)
                 \/ /\ ShouldFlush(es, t) /\ ~Keyed(es)
                    /\ buffer' = es /\ timer' = t
                    /\ pc' = "reconnect"
                    /\ UNCHANGED flushVars

\* Ctrl-C before all the polled events are in the buffer.
TornPoll ==
    /\ Polling
    /\ Fault("torn")
    /\ UNCHANGED <<log, committed, storeVars>>
    /\ \E q \in Ahead : \E o \in Orders(q) : \E n \in 0..(Len(o) - 1) :
          Finally(buffer \o SubSeq(EventsOf(o), 1, n), q, "open")

PollFails ==
    /\ Polling
    /\ Fault("broker")
    /\ pc' = "reconnect"
    /\ UNCHANGED <<topicVars, storeVars, flushVars, bufferVars, closing, failures>>

\* Inside poll() the consumer rejoins its group and restarts at the offsets.
Rejoin ==
    /\ Polling
    /\ Fault("broker")
    /\ Rewind
    /\ UNCHANGED <<storeVars, flushVars, bufferVars, pc, closing, failures>>

\* The except clause: a new consumer, the buffer as it was, one more failure.
\* Seeded fault: the failure is not counted.
ReconnectUncounted ==
    /\ pc = "reconnect"
    /\ Rewind
    /\ pc' = "run"
    /\ UNCHANGED <<storeVars, flushVars, bufferVars, closing, failures, faults>>
Reconnect ==
    /\ pc = "reconnect"
    /\ Rewind
    /\ failures' = failures + 1
    /\ pc' = "run"
    /\ UNCHANGED <<storeVars, flushVars, bufferVars, closing, faults>>

\* The new KafkaConsumer finds no broker: the exception leaves the loop.
ReconnectFails ==
    /\ pc = "reconnect"
    /\ Fault("broker")
    /\ UNCHANGED <<log, committed, storeVars>>
    /\ Finally(buffer, position, "closed")

\* parquet_max_seconds after the first event of the buffer.
Tick ==
    /\ timer = "running"
    /\ timer' = "expired"
    /\ UNCHANGED <<topicVars, storeVars, flushVars, buffer, pc, closing, failures, faults>>

\* With the breaker open the loop only sleeps and looks at the counter again.
Pause ==
    /\ pc = "run"
    /\ BreakerOpen
    /\ UNCHANGED vars

-----------------------------------------------------------------------------
(* The run loop: flushing                                                  *)

\* The rows of an hour, and the hours in the order of their first events.
Group(h) == {i \in DOMAIN batch : HourOf[batch[i]] = h}
Current(h) == /\ h \in todo
              /\ \E i \in Group(h) : \A j \in 1..(i - 1) : HourOf[batch[j]] \notin todo

IsPoison(i) == KindOf[batch[i]] = "poison"

(***************************************************************************)
(* The object of a set of rows.  Its key is a digest of the hour and of    *)
(* the sorted event ids, so that the same rows make the same object.       *)
(***************************************************************************)
Object(rows) == [e \in Event |-> Cardinality({i \in rows : batch[i] = e})]
Rows(rows) == {batch[i] : i \in rows}

\* put_parquet returns; or it raises, and S3 may hold the object nonetheless.
PutSucceeds(rows) == /\ archive' = archive \union {Object(rows)}
                     /\ UNCHANGED <<dropped, faults>>
PutFails(rows) == /\ Fault("s3")
                  /\ archive' \in {archive, archive \union {Object(rows)}}
                  /\ dropped' = dropped \union Rows(rows)

\* _flush_group for a group that Parquet can hold.
Upload ==
    /\ pc = "put"
    /\ \E h \in todo :
          /\ Current(h)
          /\ \A i \in Group(h) : ~IsPoison(i)
          /\ \/ PutSucceeds(Group(h)) /\ uploaded' = TRUE /\ UNCHANGED infraFailed
             \/ PutFails(Group(h)) /\ infraFailed' = TRUE /\ UNCHANGED uploaded
          /\ todo' = todo \ {h}
    /\ UNCHANGED <<topicVars, dlq, bufferVars, batch, quarantine, pc, closing, failures>>

\* write_parquet_bytes raises for a group with a poison event.
FindPoison ==
    /\ pc = "put"
    /\ \E h \in todo :
          /\ Current(h)
          /\ \E i \in Group(h) : IsPoison(i)
          /\ quarantine' = {i \in Group(h) : IsPoison(i)}
    /\ pc' = "isolate"
    /\ UNCHANGED <<topicVars, storeVars, bufferVars, batch, todo, uploaded,
                   infraFailed, closing, failures, faults>>

\* send_to_dlq swallows every failure.
DeadLetter ==
    /\ pc = "isolate"
    /\ \E i \in quarantine :
          /\ \A j \in quarantine : i =< j
          /\ quarantine' = quarantine \ {i}
          /\ \/ /\ dlq' = dlq \union {batch[i]}
                /\ UNCHANGED <<dropped, faults>>
             \/ /\ Fault("dlq")
                /\ dropped' = dropped \union {batch[i]}
                /\ UNCHANGED dlq
    /\ UNCHANGED <<topicVars, archive, bufferVars, batch, todo, uploaded,
                   infraFailed, pc, closing, failures>>

\* The rest of the group is uploaded; the group counts as uploaded either way.
\* Seeded fault: the rest is forgotten.
UploadRestForgets ==
    /\ pc = "isolate" /\ quarantine = {}
    /\ \E h \in todo : Current(h) /\ todo' = todo \ {h}
    /\ uploaded' = TRUE /\ pc' = "put"
    /\ UNCHANGED <<topicVars, storeVars, bufferVars, batch, quarantine, infraFailed,
                   closing, failures, faults>>
UploadRest ==
    /\ pc = "isolate"
    /\ quarantine = {}
    /\ \E h \in todo :
          LET rest == {i \in Group(h) : ~IsPoison(i)}
          IN  /\ Current(h)
              /\ \/ rest = {} /\ UNCHANGED <<archive, dropped, faults>>
                 \/ rest # {} /\ PutSucceeds(rest)
                 \/ rest # {} /\ PutFails(rest)
              /\ todo' = todo \ {h}
    /\ uploaded' = TRUE
    /\ pc' = "put"
    /\ UNCHANGED <<topicVars, dlq, bufferVars, batch, quarantine, infraFailed,
                   closing, failures>>

\* After the last group: something was uploaded and the offsets are committed ...
\* Seeded fault: they are not committed.
FlushUploadedUncommitted ==
    /\ pc = "put" /\ todo = {} /\ uploaded
    /\ closing = "no" /\ NoFlush /\ failures' = 0 /\ pc' = "run"
    /\ UNCHANGED <<topicVars, storeVars, bufferVars, closing, faults>>
FlushUploaded ==
    /\ pc = "put"
    /\ todo = {}
    /\ uploaded
    /\ batch' = <<>>
    /\ pc' = "commit"
    /\ UNCHANGED <<topicVars, storeVars, bufferVars, todo, quarantine, uploaded,
                   infraFailed, closing, failures, faults>>

\* ... or nothing was, and _flush returns False.  Its events stay drained.
\* Seeded fault: they go back to the buffer, stored or not.
FlushFailedKeeps ==
    /\ pc = "put" /\ todo = {} /\ ~uploaded /\ closing = "no"
    /\ failures' = failures + 1 /\ NoFlush /\ pc' = "run"
    /\ buffer' = batch /\ timer' = "running"
    /\ UNCHANGED <<topicVars, storeVars, closing, faults>>
FlushFailed ==
    /\ pc = "put"
    /\ todo = {}
    /\ ~uploaded
    /\ UNCHANGED <<log, committed, storeVars, faults>>
    /\ \/ /\ closing = "no"
          /\ failures' = failures + 1
          /\ NoFlush
          /\ pc' = "run"
          /\ UNCHANGED <<position, bufferVars, closing>>
       \/ /\ closing # "no"
          /\ Stopped

Commit ==
    /\ pc = "commit"
    /\ closing = "no"
    /\ CommitPolled
    /\ failures' = IF infraFailed THEN failures + 1 ELSE 0
    /\ NoFlush
    /\ pc' = "run"
    /\ UNCHANGED <<storeVars, bufferVars, closing, faults>>

CommitFails ==
    /\ pc = "commit"
    /\ closing = "no"
    /\ Fault("broker")
    /\ CommitInDoubt
    /\ NoFlush
    /\ pc' = "reconnect"
    /\ UNCHANGED <<storeVars, bufferVars, closing, failures>>

\* In the finally clause the process ends whatever comes of the commit.
FinalCommit ==
    /\ pc = "commit"
    /\ closing # "no"
    /\ \/ closing = "open" /\ committed' = position /\ UNCHANGED faults
       \/ closing = "open" /\ committed' \in {committed, position} /\ Fault("broker")
       \/ closing = "closed" /\ UNCHANGED <<committed, faults>>
    /\ Stopped
    /\ UNCHANGED <<log, storeVars>>

-----------------------------------------------------------------------------
(* Stopping, crashing and starting again                                   *)

\* Ctrl-C anywhere else.  What _flush has drained is lost, and the finally
\* clause flushes what is in the buffer.
\* Seeded fault: the consumer commits its position as it closes.
InterruptCommits ==
    /\ pc # "down" /\ closing = "no" /\ Fault("interrupt")
    /\ committed' = position
    /\ UNCHANGED <<log, storeVars>>
    /\ Stopped
Interrupt ==
    /\ pc # "down"
    /\ closing = "no"
    /\ Fault("interrupt")
    /\ UNCHANGED <<log, committed, storeVars>>
    /\ Finally(buffer, position, IF pc = "reconnect" THEN "closed" ELSE "open")

\* Killed: systemd stops the service with SIGTERM, which it does not handle.
Crash ==
    /\ pc # "down"
    /\ Fault("crash")
    /\ UNCHANGED <<log, committed, storeVars>>
    /\ Stopped

\* systemd starts it again.
Restart ==
    /\ pc = "down"
    /\ pc' = "run"
    /\ Rewind
    /\ UNCHANGED <<storeVars, flushVars, bufferVars, closing, failures, faults>>

-----------------------------------------------------------------------------
Produce(e) == /\ Publish(e)
              /\ UNCHANGED <<storeVars, flushVars, bufferVars, pc, closing, failures, faults>>

\* What the process does on its own.
Step == \/ Poll \/ Reconnect \/ Pause
        \/ Upload \/ FindPoison \/ DeadLetter \/ UploadRest
        \/ FlushUploaded \/ FlushFailed \/ Commit \/ FinalCommit
        \/ Restart

\* What goes wrong around it.
Failure == TornPoll \/ PollFails \/ Rejoin \/ ReconnectFails \/ CommitFails
           \/ Interrupt \/ Crash

Next == \/ Step
        \/ Failure
        \/ Tick
        \/ \E e \in Event : Produce(e)

Spec == Init /\ [][Next]_vars

\* The loop takes its next step, time passes, and systemd restarts the service.
Fairness == WF_vars(Step) /\ WF_vars(Tick)
FairSpec == Spec /\ Fairness
-----------------------------------------------------------------------------
(* Properties                                                              *)

Archived == {e \in Event : \E object \in archive : object[e] > 0}

\* An event the service has disposed of, in whichever way.
Handled == Archived \union dlq \union dropped

CommittedHandled == \A p \in Partition : \A i \in 1..committed[p] :
                        log[p][i] \in Handled

\* Unless Ctrl-C hit the loop over the polled messages, offsets are committed
\* only past events whose upload or dead letter was tried, across failed
\* flushes, poison groups, reconnections, the finally clause and restarts.
Untorn == faults["torn"] = 0
AtLeastOnce == Untorn => CommittedHandled

(***************************************************************************)
(* Why that is so.  consumer.commit() commits every record polled so far,  *)
(* whatever groups were just flushed.  It is right because the buffer and  *)
(* the batch hold every polled record that is not disposed of, and both    *)
(* are empty when the offsets are committed.                               *)
(***************************************************************************)
Held == Range(buffer) \union Range(batch)
PolledAccounted ==
    Untorn => \A p \in Partition : \A i \in (committed[p] + 1)..position[p] :
                  log[p][i] \in Handled \union Held

\* The flushed groups are disposed of, and the poison events of the current one.
\* Outside of a flush there is no batch; in one and at its commit, no buffer.
FlushProgress ==
    /\ \A i \in DOMAIN batch : HourOf[batch[i]] \notin todo => batch[i] \in Handled
    /\ pc = "isolate" => \A h \in todo : Current(h) =>
           \A i \in Group(h) \ quarantine : IsPoison(i) => batch[i] \in Handled
    /\ quarantine \subseteq DOMAIN batch
    /\ pc # "isolate" => quarantine = {}
    /\ pc \notin {"put", "isolate"} => batch = <<>>
    /\ pc \in {"put", "isolate", "commit"} => buffer = <<>>
    /\ closing # "no" => pc \in {"put", "isolate", "commit"}

\* The counter stays below the threshold while the loop is at work.
BreakerCount == pc # "run" /\ closing = "no" => failures < Threshold

\* What the process holds in memory came from the log.
HeldIsLogged == Held \subseteq Logged

\* The inductive invariant behind AtLeastOnce and the implementation of Delivery.
IInv == TypeOK /\ OffsetsInRange /\ FlushProgress /\ BreakerCount /\ HeldIsLogged
               /\ PolledAccounted /\ AtLeastOnce

\* The service implements at-least-once delivery, if an event whose upload was
\* tried in vain counts as disposed of.
Abstract == INSTANCE Delivery WITH handled <- Handled
ImplementsDelivery == Abstract!Spec

\* It never does so (README.md, "quarantined instead of silently dropped") as
\* long as S3 and the dead-letter topic answer: an acknowledged event is in an
\* object or in the dead-letter topic.
CommittedStored == \A p \in Partition : \A i \in 1..committed[p] :
                       log[p][i] \in Archived \union dlq
NoSilentDrop ==
    Untorn /\ faults["s3"] = 0 /\ faults["dlq"] = 0 => CommittedStored

\* The buffer is bounded by one batch and a poll for each failure the breaker
\* allows ("never builds unbounded memory", README.md): a reconnection keeps
\* the buffer and reads its events again.
BufferBounded == Len(buffer) + Len(batch) =< MaxRows - 1 + MaxPoll * Threshold

\* How often the archive holds an event, and how often the log does.
CopiesOf(e) == UNION {{object} \X (1..object[e]) : object \in archive}
Copies(e) == Cardinality(CopiesOf(e))
Occurrences(e) ==
    Cardinality({r \in Partition \X (1..MaxLog) :
                    r[2] =< Len(log[r[1]]) /\ log[r[1]][r[2]] = e})

\* Replay is idempotent "at the storage layer" (README.md): no event is in more
\* objects than there are records of it.  Not so after a replay, which groups
\* the records by other limits.
ArchivedOnce == \A e \in Event : Copies(e) =< Occurrences(e)

\* That holds as long as nothing makes the group read its records again, no
\* matter which uploads fail or are reported as failed.
Unreplayed == \A k \in FaultKind \ {"s3", "dlq"} : faults[k] = 0
ArchivedOnceUnlessReplayed == Unreplayed => ArchivedOnce

\* A record of ais.raw waits for parquet_min_rows - 1 later ones of its partition
\* at most: once there are as many, it reaches the archive or the dead-letter
\* topic, through broker failures, crashes and stops, unless an upload or a
\* dead-letter send fails (buffer.py:28-40).
EverythingStored == \A p \in Partition : \A i \in 1..MaxLog :
    i =< Len(log[p]) /\ MinRows =< Len(log[p]) - i + 1
        ~> i =< Len(log[p]) /\ log[p][i] \in Archived \union dlq

\* The group's lag, as <<partition, index>>.
Unacknowledged == {r \in Partition \X (1..MaxLog) :
                      committed[r[1]] < r[2] /\ r[2] =< Len(log[r[1]])}

\* Once the producer stops, the lag falls below parquet_min_rows, which the age
\* alone does not flush ("never fragments into trivial files", README.md:86).
EventuallyBelowMinRows ==
    <>[](Unacknowledged = {} \/ Cardinality(Unacknowledged) < MinRows)

\* With S3 back the breaker closes and consumption resumes ("paused with
\* exponential backoff up to a cap", README.md).
ConsumptionResumes == (BreakerOpen ~> ~BreakerOpen)
=============================================================================
