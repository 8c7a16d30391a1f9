----------------------------- MODULE Ingestion -----------------------------
(***************************************************************************)
(* The ingestion service: one asyncio task reads AIS frames from the       *)
(* provider's websocket and decides on them one at a time: it skips a      *)
(* frame, dead-letters it, or publishes it on ais.raw and waits up to ten  *)
(* seconds for the broker's answer.  A closed connection, and any          *)
(* exception a frame causes, lead to a new connection after a pause.       *)
(*                                                                         *)
(* One step is one stretch of the task between two of its awaits or calls  *)
(* of the outside.  The Kafka producer delivers on a thread of its own.    *)
(***************************************************************************)
EXTENDS Integers, FiniteSets, Sequences, Functions

CONSTANTS Frame,        \* distinct frames; the provider sends each at most once
          NoFrame,      \* no frame is being handled
          Vessel,       \* vessels, the keys of the records
          VesselOf,     \* the vessel a frame reports
          KindOf,       \* what the service makes of a frame, see Kind
          MaxExponent,  \* the largest retry for which 2 ** retry fits a float
          MaxWire,      \* the frames websockets receives ahead of their reader
          MaxFaults     \* bound: failures of each kind

(***************************************************************************)
(* "ok"       a position report that passes the validator and skew gate    *)
(* "refused"  one that does not pass: it is dead-lettered                  *)
(* "skipped"  not JSON, or not a position report                           *)
(* "raising"  not a JSON object, or the validator or normalizer raises     *)
(***************************************************************************)
Kind == {"ok", "refused", "skipped", "raising"}

(***************************************************************************)
(* "send" producer.send raises, "broker" the producer gives a record up,   *)
(* "retry" it sends one again, "dlq" a dead-letter send fails, "stop"      *)
(* SIGTERM or SIGKILL.  Connections and starts fail without a bound.       *)
(***************************************************************************)
FaultKind == {"send", "broker", "retry", "dlq", "stop"}

ASSUME FrameAssumption == /\ VesselOf \in [Frame -> Vessel]
                          /\ KindOf \in [Frame -> Kind]
                          /\ NoFrame \notin Frame
ASSUME BoundAssumption == /\ MaxExponent \in Nat
                          /\ MaxWire \in Nat \ {0}
                          /\ MaxFaults \in [FaultKind -> Nat]

VARIABLES
    \* the provider and its connection
    emitted,   \* the frames the provider has sent on some connection
    open,      \* the websocket is open
    wire,      \* frames received on it and not read yet
    \* the topics
    log,       \* log[v]: the records with key v, in the order of their partition
    dlq,       \* the frames in ais.dlq
    \* the process
    pc,        \* where the task is
    retry,     \* attempts since the last connection
    current,   \* the frame being handled
    received,  \* history: the frames read and not skipped, in that order
    timedOut,  \* history: frames whose future.get timed out
    inflight,  \* frames the producer has accepted and not answered
    givenUp,   \* frames it has answered with an error
    faults     \* failures so far, by kind

socketVars == <<emitted, open, wire>>
topicVars  == <<log, dlq>>
producerVars == <<inflight, givenUp>>
taskVars   == <<retry, current, received, timedOut>>
vars == <<socketVars, topicVars, producerVars, taskVars, pc, faults>>

(***************************************************************************)
(* "start"       the two KafkaProducers "wait"        future.get           *)
(* "connect"     websockets.connect     "deadletter"  send_to_dlq          *)
(* "listen"      the next frame         "delay"       after a connection   *)
(* "send"        producer.send          "stopping"    SIGTERM was handled  *)
(* "down"        no process                                                *)
(***************************************************************************)
Location == {"start", "connect", "listen", "send", "wait", "deadletter", "delay",
             "stopping", "down"}

TypeOK == /\ emitted \in SUBSET Frame
          /\ open \in BOOLEAN
          /\ wire \in Seq(Frame)
          /\ log \in [Vessel -> Seq(Frame)]
          /\ dlq \in SUBSET Frame
          /\ pc \in Location
          /\ retry \in 0..(MaxExponent + 1)
          /\ current \in Frame \union {NoFrame}
          /\ received \in Seq(Frame)
          /\ timedOut \in SUBSET Frame
          /\ inflight \in SUBSET Frame
          /\ givenUp \in SUBSET Frame
          /\ faults \in [FaultKind -> Nat]

Init == /\ emitted = {} /\ open = FALSE /\ wire = <<>>
        /\ log = [v \in Vessel |-> <<>>]
        /\ dlq = {}
        /\ pc = "start" /\ retry = 0
        /\ current = NoFrame
        /\ received = <<>> /\ timedOut = {}
        /\ inflight = {} /\ givenUp = {}
        /\ faults = [k \in FaultKind |-> 0]

\* One more failure of kind k, while its budget lasts.
Fault(k) == /\ faults[k] < MaxFaults[k]
            /\ faults' = [faults EXCEPT ![k] = @ + 1]

-----------------------------------------------------------------------------
(* The provider                                                            *)

Emit(f) ==
    /\ open
    /\ Len(wire) < MaxWire
    /\ f \notin emitted
    /\ emitted' = emitted \union {f}
    /\ wire' = Append(wire, f)
    /\ UNCHANGED <<open, topicVars, taskVars, pc, producerVars, faults>>

\* The connection closes.  Frames that had arrived may still be read.
Disconnect ==
    /\ open
    /\ open' = FALSE
    /\ \E n \in 0..Len(wire) : wire' = SubSeq(wire, 1, n)
    /\ UNCHANGED <<emitted, topicVars, taskVars, pc, producerVars, faults>>

-----------------------------------------------------------------------------
(* consume: connecting and reading                                         *)

HangUp == open' = FALSE /\ wire' = <<>> /\ UNCHANGED emitted

Connect ==
    /\ pc = "connect"
    /\ open' = TRUE
    /\ retry' = 0
    /\ pc' = "listen"
    /\ UNCHANGED <<emitted, wire, topicVars, current, received, timedOut, producerVars, faults>>

ConnectFails ==
    /\ pc = "connect"
    /\ pc' = "delay"
    /\ UNCHANGED <<socketVars, topicVars, taskVars, producerVars, faults>>

\* The first stretch of on_event, up to an await or a call of Kafka.
Read ==
    /\ pc = "listen"
    /\ wire # <<>>
    /\ LET f == Head(wire)
       IN  \/ /\ KindOf[f] = "skipped"
              /\ wire' = Tail(wire)
              /\ UNCHANGED <<emitted, open, current, received, pc>>
           \/ /\ KindOf[f] = "raising"
              /\ HangUp
              /\ received' = Append(received, f)
              /\ pc' = "delay"
              /\ UNCHANGED current
           \/ /\ KindOf[f] \in {"refused", "ok"}
              /\ wire' = Tail(wire)
              /\ received' = Append(received, f)
              /\ current' = f
              /\ pc' = IF KindOf[f] = "ok" THEN "send" ELSE "deadletter"
              /\ UNCHANGED <<emitted, open>>
    /\ UNCHANGED <<topicVars, retry, timedOut, producerVars, faults>>

EndOfStream ==
    /\ pc = "listen"
    /\ ~open
    /\ wire = <<>>
    /\ pc' = "delay"
    /\ UNCHANGED <<socketVars, topicVars, taskVars, producerVars, faults>>

\* The pause before the next attempt.
Delay ==
    /\ pc = "delay"
    /\ retry =< MaxExponent
    /\ retry' = retry + 1
    /\ pc' = "connect"
    /\ UNCHANGED <<socketVars, topicVars, current, received, timedOut, producerVars, faults>>

-----------------------------------------------------------------------------
(* _handle_event: publishing and dead-lettering                            *)

\* producer.send returns a future.  Seeded fault: nobody waits for it.
SendForgets ==
    /\ pc = "send"
    /\ inflight' = inflight \union {current}
    /\ current' = NoFrame /\ pc' = "listen"
    /\ UNCHANGED <<socketVars, topicVars, givenUp, retry, received, timedOut, faults>>
Send ==
    /\ pc = "send"
    /\ inflight' = inflight \union {current}
    /\ pc' = "wait"
    /\ UNCHANGED <<socketVars, topicVars, givenUp, taskVars, faults>>

\* producer.send raises, without metadata or with a full buffer: outside of the
\* try, the exception ends the connection.
SendRaises ==
    /\ pc = "send"
    /\ Fault("send")
    /\ HangUp
    /\ current' = NoFrame
    /\ pc' = "delay"
    /\ UNCHANGED <<topicVars, retry, received, timedOut, producerVars>>

\* future.get returns.  Seeded fault: the frame is dead-lettered all the same.
AcknowledgedLate ==
    /\ pc = "wait"
    /\ current \notin inflight \union givenUp
    /\ pc' = "deadletter"
    /\ UNCHANGED <<socketVars, topicVars, taskVars, producerVars, faults>>
Acknowledged ==
    /\ pc = "wait"
    /\ current \notin inflight \union givenUp
    /\ current' = NoFrame
    /\ pc' = "listen"
    /\ UNCHANGED <<socketVars, topicVars, retry, received, timedOut, producerVars, faults>>

\* future.get raises: the producer gave the record up, or ten seconds are over.
\* Seeded faults: the handler returns; there is no time limit.
PublishFailsSilently ==
    /\ pc = "wait" /\ current \in givenUp
    /\ current' = NoFrame /\ pc' = "listen"
    /\ UNCHANGED <<socketVars, topicVars, retry, received, timedOut, producerVars, faults>>
PublishFails ==
    /\ pc = "wait"
    /\ current \in givenUp
    /\ pc' = "deadletter"
    /\ UNCHANGED <<socketVars, topicVars, taskVars, producerVars, faults>>

NeverTimesOut == FALSE /\ UNCHANGED vars
TimesOut ==
    /\ pc = "wait"
    /\ current \in inflight
    /\ timedOut' = timedOut \union {current}
    /\ pc' = "deadletter"
    /\ UNCHANGED <<socketVars, topicVars, retry, current, received, producerVars, faults>>

\* send_to_dlq swallows every failure.
DeadLetter ==
    /\ pc = "deadletter"
    /\ \/ dlq' = dlq \union {current} /\ UNCHANGED faults
       \/ UNCHANGED dlq /\ Fault("dlq")
    /\ current' = NoFrame
    /\ pc' = "listen"
    /\ UNCHANGED <<socketVars, log, retry, received, timedOut, producerVars>>

-----------------------------------------------------------------------------
(* The producer's thread                                                   *)

Appended(f) == log' = [log EXCEPT ![VesselOf[f]] = Append(@, f)]

Deliver(f) ==
    /\ f \in inflight
    /\ Appended(f)
    /\ inflight' = inflight \ {f}
    /\ UNCHANGED <<socketVars, dlq, givenUp, taskVars, pc, faults>>

\* The broker's answer is lost, and the producer will send the record again.
DeliverUnanswered(f) ==
    /\ f \in inflight
    /\ Fault("retry")
    /\ Appended(f)
    /\ UNCHANGED <<socketVars, dlq, taskVars, pc, producerVars>>

GiveUp(f) ==
    /\ f \in inflight
    /\ Fault("broker")
    /\ inflight' = inflight \ {f}
    /\ givenUp' = givenUp \union {f}
    /\ UNCHANGED <<socketVars, topicVars, taskVars, pc>>

-----------------------------------------------------------------------------
(* Stopping, crashing and starting again                                   *)

\* Whatever the process held in memory is gone.
Stopped == /\ HangUp
           /\ current' = NoFrame
           /\ retry' = 0
           /\ inflight' = {}
           /\ givenUp' = {}
           /\ pc' = "down"

\* 2 ** retry is too large to convert to a float: the exception leaves consume.
Overflow ==
    /\ pc = "delay"
    /\ retry > MaxExponent
    /\ Stopped
    /\ UNCHANGED <<topicVars, received, timedOut, faults>>

\* _shutdown cancels the task at its await.  The end of the main task ends
\* asyncio.run and with it _shutdown, before it closes the producers.
Stop ==
    /\ pc \in {"connect", "listen", "wait", "delay"}
    /\ Fault("stop")
    /\ HangUp
    /\ current' = NoFrame
    /\ pc' = "stopping"
    /\ UNCHANGED <<topicVars, retry, received, timedOut, producerVars>>

Exit ==
    /\ pc = "stopping"
    /\ Stopped
    /\ UNCHANGED <<topicVars, received, timedOut, faults>>

Crash ==
    /\ pc # "down"
    /\ Fault("stop")
    /\ Stopped
    /\ UNCHANGED <<topicVars, received, timedOut>>

Restart ==
    /\ pc = "down"
    /\ pc' = "start"
    /\ UNCHANGED <<socketVars, topicVars, taskVars, producerVars, faults>>

\* main builds both producers before it connects to the provider.
Start ==
    /\ pc = "start"
    /\ pc' = "connect"
    /\ UNCHANGED <<socketVars, topicVars, taskVars, producerVars, faults>>

\* A KafkaProducer finds no broker: the exception ends the process.
StartFails ==
    /\ pc = "start"
    /\ Stopped
    /\ UNCHANGED <<topicVars, received, timedOut, faults>>

-----------------------------------------------------------------------------
\* What the process does on its own.
Step == \/ Connect \/ Read \/ EndOfStream \/ Delay
        \/ Send \/ Acknowledged \/ PublishFails \/ TimesOut \/ DeadLetter
        \/ Overflow \/ Exit \/ Restart \/ Start

\* What the producer's thread does with a record.
Produce == \E f \in Frame : Deliver(f) \/ DeliverUnanswered(f) \/ GiveUp(f)

\* What goes wrong around it.
Failure == Disconnect \/ ConnectFails \/ SendRaises \/ StartFails \/ Stop \/ Crash

Next == Step \/ Produce \/ Failure \/ \E f \in Frame : Emit(f)

Spec == Init /\ [][Next]_vars

\* The task takes its next step, its timeout included, and systemd restarts the
\* service.  The provider may refuse any number of connections, and the broker
\* be away at any number of starts, but not at all of them.
Fairness == WF_vars(Step) /\ SF_vars(Connect) /\ SF_vars(Start)
FairSpec == Spec /\ Fairness
-----------------------------------------------------------------------------
(* Properties                                                              *)

Published == {f \in Frame : f \in Range(log[VesselOf[f]])}

\* What becomes of a frame that is not skipped: it is dead-lettered, or Kafka
\* has it or is still trying.
Outcome(f) == f \in dlq \union Published \union inflight

\* "Every failure path has an explicit outcome (skip, DLQ, publish)" (README.md):
\* no frame that was read and is not being handled is without one, across
\* time-outs, late and repeated deliveries, refused records and lost connections,
\* as long as the calls do not raise and the process lives.
Undisturbed == \A k \in {"send", "dlq", "stop"} : faults[k] = 0
NoFrameLost ==
    Undisturbed => \A f \in Range(received) :
        f = current \/ KindOf[f] = "raising" \/ Outcome(f)

\* A stop or crash costs one frame at most, the one being handled: what the
\* producers hold when nobody closes them was answered, dead-lettered or that
\* frame (main.py:86-93).
Lost == {f \in Range(received) : f # current /\ KindOf[f] # "raising" /\ ~Outcome(f)}
StopLosesOne ==
    faults["send"] = 0 /\ faults["dlq"] = 0 => Cardinality(Lost) <= faults["stop"]

\* The records of a vessel are in the order in which its frames were received,
\* repeated ones included, unless the earlier one timed out.  The consumers'
\* latest state rests on it.
OrderKept ==
    \A v \in Vessel : \A a, b \in DOMAIN log[v] : \A i, j \in DOMAIN received :
        /\ received[i] = log[v][a] /\ received[j] = log[v][b]
        /\ i < j /\ received[i] \notin timedOut
        => a < b

\* A frame is both published and dead-lettered only if its time-out ran against
\* a late delivery, or the answer to a delivery was lost.
PublishedOrQuarantined ==
    faults["retry"] = 0 => dlq \cap Published \subseteq timedOut

\* The connection and the history know each frame once.
Reception ==
    /\ \A i, j \in DOMAIN received : received[i] = received[j] => i = j
    /\ \A i, j \in DOMAIN wire : wire[i] = wire[j] => i = j
    /\ Range(received) \cap Range(wire) = {}
    /\ Range(received) \union Range(wire) \subseteq emitted
    /\ \A v \in Vessel : Range(log[v]) \subseteq Range(received)
    /\ inflight \union givenUp \union timedOut \union dlq \subseteq Range(received)

\* The task waits for each record: one in flight that has not timed out is of
\* the frame received last, and the task is waiting for it or was cancelled.
Awaited ==
    /\ current = NoFrame <=> pc \notin {"send", "wait", "deadletter"}
    /\ current # NoFrame => received # <<>> /\ current = received[Len(received)]
    /\ \A f \in inflight \ timedOut : /\ pc \in {"wait", "stopping"}
                                      /\ f = received[Len(received)]
                                      /\ f \notin dlq
    /\ pc = "send" => current \notin inflight \union givenUp \union timedOut \union dlq \union Published
    /\ pc = "wait" => current \notin timedOut \union dlq

\* How the producer answers decides what the task does with the frame.
Answered ==
    /\ inflight \cap givenUp = {}
    /\ pc = "wait" => current \in inflight \union givenUp \union Published
    /\ faults["retry"] = 0 =>
          /\ (inflight \union givenUp) \cap Published = {}
          /\ pc = "deadletter" /\ current \in Published => current \in timedOut
    /\ pc = "stopping" => faults["stop"] > 0
    /\ Undisturbed => timedOut \subseteq dlq \union {current}

\* The inductive invariant behind NoFrameLost, OrderKept and
\* PublishedOrQuarantined.
IInv == TypeOK /\ Reception /\ Awaited /\ Answered

\* However many connections the provider refuses or closes, and however often
\* the broker is away at a start or does not answer, the service listens again,
\* as long as neither of them is gone for good (ais_client.py:29-56, main.py:105-130).
ListensAgain == []<>(pc = "listen")
=============================================================================
