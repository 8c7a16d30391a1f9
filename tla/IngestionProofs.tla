--------------------------- MODULE IngestionProofs ---------------------------
(***************************************************************************)
(* Proofs about Ingestion, for any frames, vessels and failures: type      *)
(* correctness, the inductive invariant IInv, and from it that no frame is *)
(* lost without a cause and at most one with each stop, that records keep  *)
(* the order of their frames, and that a frame is published or quarantined.*)
(***************************************************************************)
EXTENDS Ingestion, SequenceTheorems, FiniteSetTheorems, TLAPS

USE DEF socketVars, topicVars, producerVars, taskVars

-----------------------------------------------------------------------------
(* Lemmas about sequences                                                  *)

\* Appending adds one element, at the end.
LEMMA AppendRange ==
    ASSUME NEW S, NEW s \in Seq(S), NEW e \in S
    PROVE  /\ Append(s, e) \in Seq(S)
           /\ Len(s) \in Nat
           /\ DOMAIN s = 1..Len(s)
           /\ DOMAIN Append(s, e) = 1..(Len(s) + 1)
           /\ \A i \in 1..Len(s) : Append(s, e)[i] = s[i]
           /\ Append(s, e)[Len(s) + 1] = e
           /\ Range(Append(s, e)) = Range(s) \union {e}
<1>1. /\ Append(s, e) \in Seq(S)
      /\ Len(s) \in Nat
      /\ DOMAIN s = 1..Len(s)
      /\ DOMAIN Append(s, e) = 1..(Len(s) + 1)
      /\ \A i \in 1..Len(s) : Append(s, e)[i] = s[i]
      /\ Append(s, e)[Len(s) + 1] = e
    BY AppendProperties, LenProperties
<1>2. \A x : x \in Range(Append(s, e)) <=> x \in Range(s) \/ x = e
    <2> HIDE DEF Range
    <2>1. Range(Append(s, e)) = {Append(s, e)[i] : i \in 1..(Len(s) + 1)}
        BY <1>1 DEF Range
    <2>2. Range(s) = {s[i] : i \in 1..Len(s)}
        BY <1>1 DEF Range
    <2>3. 1..(Len(s) + 1) = 1..Len(s) \union {Len(s) + 1}
        BY <1>1
    <2> QED
        BY <2>1, <2>2, <2>3, <1>1
<1> QED
    BY <1>1, <1>2

\* The rest of a non-empty sequence without repetitions lacks its head.
LEMMA TailRange ==
    ASSUME NEW S, NEW s \in Seq(S), s # <<>>
    PROVE  /\ Head(s) \in S /\ Tail(s) \in Seq(S)
           /\ Head(s) \in Range(s)
           /\ Range(Tail(s)) \subseteq Range(s)
           /\ (\A i, j \in DOMAIN s : s[i] = s[j] => i = j) =>
                 /\ Head(s) \notin Range(Tail(s))
                 /\ \A i, j \in DOMAIN Tail(s) : Tail(s)[i] = Tail(s)[j] => i = j
<1>1. /\ Head(s) \in S /\ Tail(s) \in Seq(S)
      /\ Len(Tail(s)) = Len(s) - 1
      /\ \A i \in 1..Len(Tail(s)) : Tail(s)[i] = s[i + 1]
    BY HeadTailProperties
<1>2. /\ Len(s) \in Nat \ {0} /\ Head(s) = s[1]
      /\ DOMAIN s = 1..Len(s) /\ DOMAIN Tail(s) = 1..(Len(s) - 1)
    BY <1>1, LenProperties, EmptySeq
<1>3. \A i \in DOMAIN Tail(s) : i + 1 \in DOMAIN s /\ Tail(s)[i] = s[i + 1] /\ i + 1 # 1
    BY <1>1, <1>2
<1>4. Range(Tail(s)) = {Tail(s)[i] : i \in DOMAIN Tail(s)} /\ Range(s) = {s[i] : i \in DOMAIN s}
    BY DEF Range
<1>5. 1 \in DOMAIN s
    BY <1>2
<1>6. Head(s) \in Range(s) /\ Range(Tail(s)) \subseteq Range(s)
    BY <1>2, <1>3, <1>4, <1>5
<1>7. ASSUME \A i, j \in DOMAIN s : s[i] = s[j] => i = j
      PROVE  /\ Head(s) \notin Range(Tail(s))
             /\ \A i, j \in DOMAIN Tail(s) : Tail(s)[i] = Tail(s)[j] => i = j
    <2>1. Head(s) \notin Range(Tail(s))
        BY <1>7, <1>2, <1>3, <1>4, <1>5
    <2>2. \A i, j \in DOMAIN Tail(s) : Tail(s)[i] = Tail(s)[j] => i = j
        <3> SUFFICES ASSUME NEW i \in DOMAIN Tail(s), NEW j \in DOMAIN Tail(s),
                            Tail(s)[i] = Tail(s)[j]
                     PROVE  i = j
            OBVIOUS
        <3>1. i + 1 = j + 1
            BY <1>3, <1>7
        <3> QED
            BY <3>1, <1>2
    <2> QED
        BY <2>1, <2>2
<1> QED
    BY <1>1, <1>6, <1>7

\* A prefix holds elements of the sequence, at their places.
LEMMA PrefixRange ==
    ASSUME NEW S, NEW s \in Seq(S), NEW n \in 0..Len(s)
    PROVE  /\ SubSeq(s, 1, n) \in Seq(S)
           /\ DOMAIN SubSeq(s, 1, n) \subseteq DOMAIN s
           /\ \A i \in DOMAIN SubSeq(s, 1, n) : SubSeq(s, 1, n)[i] = s[i]
           /\ Range(SubSeq(s, 1, n)) \subseteq Range(s)
<1> DEFINE t == SubSeq(s, 1, n)
<1>1. Len(s) \in Nat /\ DOMAIN s = 1..Len(s)
    BY LenProperties
<1>2. /\ t \in Seq(S) /\ Len(t) = n
      /\ \A i \in 1..n : t[i] = s[i]
    BY <1>1, SubSeqProperties
<1>3. DOMAIN t = 1..n
    BY <1>2, LenProperties
<1>4. 1..n \subseteq 1..Len(s)
    BY <1>1
<1> HIDE DEF t
<1>5. Range(t) \subseteq Range(s)
    BY <1>1, <1>2, <1>3, <1>4 DEF Range
<1>6. /\ t \in Seq(S) /\ DOMAIN t \subseteq DOMAIN s
      /\ \A i \in DOMAIN t : t[i] = s[i]
      /\ Range(t) \subseteq Range(s)
    BY <1>1, <1>2, <1>3, <1>4, <1>5
<1> QED
    BY <1>6 DEF t

-----------------------------------------------------------------------------
(* Type correctness                                                        *)

\* A failure keeps the count of failures a function to the naturals, and
\* forgets none.
LEMMA FaultTyped ==
    ASSUME TypeOK, NEW k \in FaultKind, Fault(k)
    PROVE  /\ faults' \in [FaultKind -> Nat]
           /\ faults'[k] = faults[k] + 1
           /\ \A l \in FaultKind : l # k => faults'[l] = faults[l]
BY DEF TypeOK, Fault

LEMMA InitTypeOK == Init => TypeOK
<1> SUFFICES ASSUME Init PROVE TypeOK
    OBVIOUS
<1>1. <<>> \in Seq(Frame) /\ 0 \in 0..(MaxExponent + 1)
    BY EmptySeq, BoundAssumption
<1> QED
    BY <1>1 DEF Init, TypeOK, Location, FaultKind

\* While a frame is being handled, current is a frame.
LEMMA CurrentTyped ==
    ASSUME TypeOK, Awaited, pc \in {"send", "wait", "deadletter"}
    PROVE  current \in Frame
BY DEF TypeOK, Awaited

\* Every step of the process keeps the types.
LEMMA StepTypeOK == TypeOK /\ Awaited /\ Step => TypeOK'
<1> SUFFICES ASSUME TypeOK, Awaited, Step PROVE TypeOK'
    OBVIOUS
<1>0. pc \in {"send", "wait", "deadletter"} => current \in Frame
    BY CurrentTyped
<1> USE DEF TypeOK, Location, HangUp, Stopped
<1>1. <<>> \in Seq(Frame) /\ 0 \in 0..(MaxExponent + 1)
    BY EmptySeq, BoundAssumption
<1>2. CASE Connect
    BY <1>1, <1>2 DEF Connect
<1>3. CASE Read
    <2>1. /\ wire # <<>>
          /\ Head(wire) \in Frame /\ Tail(wire) \in Seq(Frame)
        BY <1>3, TailRange DEF Read
    <2>2. Append(received, Head(wire)) \in Seq(Frame)
        BY <2>1, AppendRange
    <2> QED
        BY <1>1, <1>3, <2>1, <2>2 DEF Read
<1>4. CASE EndOfStream \/ Acknowledged \/ PublishFails \/ Restart \/ Start
    BY <1>4 DEF EndOfStream, Acknowledged, PublishFails, Restart, Start
<1>5. CASE Delay
    <2>1. retry + 1 \in 0..(MaxExponent + 1)
        BY <1>5, BoundAssumption DEF Delay
    <2> QED
        BY <1>5, <2>1 DEF Delay
<1>6. CASE Send \/ TimesOut
    BY <1>0, <1>6 DEF Send, TimesOut
<1>7. CASE DeadLetter
    <2>1. faults' \in [FaultKind -> Nat]
        BY <1>7, FaultTyped DEF DeadLetter, FaultKind
    <2> QED
        BY <1>0, <1>7, <2>1 DEF DeadLetter
<1>8. CASE Overflow \/ Exit
    BY <1>1, <1>8 DEF Overflow, Exit
<1> QED
    BY <1>2, <1>3, <1>4, <1>5, <1>6, <1>7, <1>8 DEF Step

\* So does the producer.
LEMMA ProduceTypeOK == TypeOK /\ Produce => TypeOK'
<1> SUFFICES ASSUME TypeOK, NEW f \in Frame, Deliver(f) \/ DeliverUnanswered(f) \/ GiveUp(f)
             PROVE  TypeOK'
    BY DEF Produce
<1>1. VesselOf[f] \in Vessel
    BY FrameAssumption
<1>2. log[VesselOf[f]] \in Seq(Frame)
    BY <1>1 DEF TypeOK
<1>3. Append(log[VesselOf[f]], f) \in Seq(Frame)
    BY <1>2, AppendRange
<1>4. Appended(f) => log' \in [Vessel -> Seq(Frame)]
    BY <1>1, <1>3 DEF Appended, TypeOK
<1>5. CASE Deliver(f)
    BY <1>4, <1>5 DEF Deliver, TypeOK
<1>6. CASE DeliverUnanswered(f)
    <2>1. faults' \in [FaultKind -> Nat]
        BY <1>6, FaultTyped DEF DeliverUnanswered, FaultKind
    <2> QED
        BY <1>4, <1>6, <2>1 DEF DeliverUnanswered, TypeOK
<1>7. CASE GiveUp(f)
    <2>1. faults' \in [FaultKind -> Nat]
        BY <1>7, FaultTyped DEF GiveUp, FaultKind
    <2> QED
        BY <1>7, <2>1 DEF GiveUp, TypeOK
<1> QED
    BY <1>5, <1>6, <1>7

\* And so do the failures and the provider.
LEMMA FailureTypeOK == TypeOK /\ Failure => TypeOK'
<1> SUFFICES ASSUME TypeOK, Failure PROVE TypeOK'
    OBVIOUS
<1>1. <<>> \in Seq(Frame) /\ 0 \in 0..(MaxExponent + 1)
    BY EmptySeq, BoundAssumption
<1>2. faults' \in [FaultKind -> Nat]
    BY FaultTyped
       DEF TypeOK, Failure, Disconnect, ConnectFails, SendRaises, StartFails, Stop, Crash, FaultKind
<1>3. CASE Disconnect
    <2>1. wire \in Seq(Frame)
        BY DEF TypeOK
    <2>2. wire' \in Seq(Frame)
        BY <1>3, <2>1, PrefixRange DEF Disconnect
    <2> QED
        BY <1>2, <1>3, <2>2 DEF Disconnect, TypeOK
<1>4. CASE ConnectFails \/ SendRaises \/ StartFails \/ Stop \/ Crash
    BY <1>1, <1>2, <1>4
       DEF ConnectFails, SendRaises, StartFails, Stop, Crash, HangUp, Stopped, TypeOK, Location
<1> QED
    BY <1>3, <1>4 DEF Failure

LEMMA EmitTypeOK == ASSUME TypeOK, NEW f \in Frame, Emit(f) PROVE TypeOK'
<1>1. Append(wire, f) \in Seq(Frame)
    BY AppendRange DEF TypeOK
<1> QED
    BY <1>1 DEF Emit, TypeOK

-----------------------------------------------------------------------------
(* Reception: the connection and the history know each frame once          *)

LEMMA EmptyRange == Range(<<>>) = {} /\ DOMAIN <<>> = {}
BY DEF Range

\* The last element of a sequence is one of its elements.
LEMMA LastInRange ==
    ASSUME NEW S, NEW s \in Seq(S), s # <<>>
    PROVE  Len(s) \in DOMAIN s /\ s[Len(s)] \in Range(s)
<1>1. Len(s) \in Nat \ {0} /\ DOMAIN s = 1..Len(s)
    BY LenProperties, EmptySeq
<1> QED
    BY <1>1 DEF Range

\* A frame being handled has been received.
LEMMA CurrentReceived ==
    ASSUME TypeOK, Awaited, pc \in {"send", "wait", "deadletter"}
    PROVE  current \in Range(received)
<1>1. received \in Seq(Frame) /\ received # <<>> /\ current = received[Len(received)]
    BY DEF TypeOK, Awaited
<1> QED
    BY <1>1, LastInRange

\* Reading a frame moves it from the connection to the history.
LEMMA ReadReception == TypeOK /\ Reception /\ Read => Reception'
<1> SUFFICES ASSUME TypeOK, Reception, Read PROVE Reception'
    OBVIOUS
<1> DEFINE f == Head(wire)
           longer == Append(received, f)
<1>1. wire \in Seq(Frame) /\ received \in Seq(Frame) /\ wire # <<>>
    BY DEF TypeOK, Read
<1>2. /\ f \in Frame /\ f \in Range(wire)
      /\ Range(Tail(wire)) \subseteq Range(wire)
      /\ f \notin Range(Tail(wire))
      /\ \A i, j \in DOMAIN Tail(wire) : Tail(wire)[i] = Tail(wire)[j] => i = j
    BY <1>1, TailRange DEF Reception
<1>3. f \notin Range(received)
    BY <1>2 DEF Reception
<1>4. /\ Len(received) \in Nat
      /\ DOMAIN received = 1..Len(received)
      /\ DOMAIN longer = 1..(Len(received) + 1)
      /\ \A i \in 1..Len(received) : longer[i] = received[i]
      /\ longer[Len(received) + 1] = f
      /\ Range(longer) = Range(received) \union {f}
    BY <1>1, <1>2, AppendRange
<1>5. \A i \in DOMAIN received : received[i] \in Range(received)
    BY DEF Range
<1> HIDE DEF f, longer
<1>6. \A i, j \in DOMAIN longer : longer[i] = longer[j] => i = j
    BY <1>3, <1>4, <1>5 DEF Reception
<1>7. /\ UNCHANGED <<emitted, log, dlq, timedOut, inflight, givenUp>>
      /\ \/ wire' = Tail(wire) /\ (received' = received \/ received' = longer)
         \/ wire' = <<>> /\ received' = longer
    BY DEF Read, HangUp, f, longer
<1>8. CASE wire' = Tail(wire) /\ received' = received
    BY <1>2, <1>7, <1>8 DEF Reception
<1>9. CASE wire' = Tail(wire) /\ received' = longer
    BY <1>2, <1>4, <1>6, <1>7, <1>9 DEF Reception
<1>10. CASE wire' = <<>> /\ received' = longer
    BY <1>2, <1>4, <1>6, <1>7, <1>10, EmptyRange DEF Reception
<1> QED
    BY <1>7, <1>8, <1>9, <1>10

\* The rest of the process records only frames that were received.
LEMMA StepReception == TypeOK /\ Reception /\ Awaited /\ Step => Reception'
<1> SUFFICES ASSUME TypeOK, Reception, Awaited, Step PROVE Reception'
    OBVIOUS
<1>0. pc \in {"send", "wait", "deadletter"} => current \in Range(received)
    BY CurrentReceived
<1>1. CASE Read
    BY <1>1, ReadReception
<1>2. CASE Connect \/ EndOfStream \/ Delay \/ Acknowledged \/ PublishFails \/ Restart \/ Start
    BY <1>2 DEF Reception, Connect, EndOfStream, Delay, Acknowledged, PublishFails, Restart, Start
<1>3. CASE Send \/ TimesOut \/ DeadLetter
    BY <1>0, <1>3 DEF Reception, Send, TimesOut, DeadLetter
<1>4. CASE Overflow \/ Exit
    BY <1>4, EmptyRange DEF Reception, Overflow, Exit, Stopped, HangUp
<1> QED
    BY <1>1, <1>2, <1>3, <1>4 DEF Step

\* The log of a vessel after a delivery of one of its frames.
LEMMA AppendedLog ==
    ASSUME TypeOK, NEW f \in Frame, Appended(f), NEW v \in Vessel
    PROVE  /\ log[v] \in Seq(Frame)
           /\ v # VesselOf[f] => log'[v] = log[v]
           /\ v = VesselOf[f] => /\ log'[v] = Append(log[v], f)
                                 /\ Range(log'[v]) = Range(log[v]) \union {f}
<1>1. /\ log[v] \in Seq(Frame)
      /\ v = VesselOf[f] => log'[v] = Append(log[v], f)
      /\ v # VesselOf[f] => log'[v] = log[v]
    BY FrameAssumption DEF TypeOK, Appended
<1>2. Range(Append(log[v], f)) = Range(log[v]) \union {f}
    BY <1>1, AppendRange
<1> QED
    BY <1>1, <1>2

LEMMA ProduceReception == TypeOK /\ Reception /\ Produce => Reception'
<1> SUFFICES ASSUME TypeOK, Reception,
                    NEW f \in Frame, Deliver(f) \/ DeliverUnanswered(f) \/ GiveUp(f)
             PROVE  Reception'
    BY DEF Produce
<1>1. CASE Deliver(f) \/ DeliverUnanswered(f)
    <2>1. Appended(f) /\ f \in Range(received)
        BY <1>1 DEF Deliver, DeliverUnanswered, Reception
    <2>2. \A v \in Vessel : Range(log'[v]) \subseteq Range(received)
        BY <2>1, AppendedLog DEF Reception
    <2> QED
        BY <1>1, <2>2 DEF Deliver, DeliverUnanswered, Reception
<1>2. CASE GiveUp(f)
    BY <1>2 DEF GiveUp, Reception
<1> QED
    BY <1>1, <1>2

LEMMA FailureReception == TypeOK /\ Reception /\ Failure => Reception'
<1> SUFFICES ASSUME TypeOK, Reception, Failure PROVE Reception'
    OBVIOUS
<1>1. CASE Disconnect
    <2>1. wire \in Seq(Frame)
        BY DEF TypeOK
    <2>2. /\ DOMAIN wire' \subseteq DOMAIN wire
          /\ \A i \in DOMAIN wire' : wire'[i] = wire[i]
          /\ Range(wire') \subseteq Range(wire)
        BY <1>1, <2>1, PrefixRange DEF Disconnect
    <2>3. \A i, j \in DOMAIN wire' : wire'[i] = wire'[j] => i = j
        BY <2>2 DEF Reception
    <2> QED
        BY <1>1, <2>2, <2>3 DEF Disconnect, Reception
<1>2. CASE ConnectFails \/ SendRaises \/ StartFails \/ Stop \/ Crash
    BY <1>2, EmptyRange DEF ConnectFails, SendRaises, StartFails, Stop, Crash, HangUp, Stopped, Reception
<1> QED
    BY <1>1, <1>2 DEF Failure

LEMMA EmitReception ==
    ASSUME TypeOK, Reception, NEW f \in Frame, Emit(f)
    PROVE  Reception'
<1> DEFINE longer == Append(wire, f)
<1>1. /\ Len(wire) \in Nat
      /\ DOMAIN wire = 1..Len(wire)
      /\ DOMAIN longer = 1..(Len(wire) + 1)
      /\ \A i \in 1..Len(wire) : longer[i] = wire[i]
      /\ longer[Len(wire) + 1] = f
      /\ Range(longer) = Range(wire) \union {f}
    BY AppendRange DEF TypeOK
<1>2. \A i \in DOMAIN wire : wire[i] \in Range(wire)
    BY DEF Range
<1>3. f \notin Range(wire) /\ f \notin Range(received)
    BY DEF Emit, Reception
<1>4. wire' = longer
    BY DEF Emit
<1> HIDE DEF longer
<1>5. \A i, j \in DOMAIN longer : longer[i] = longer[j] => i = j
    BY <1>1, <1>2, <1>3 DEF Reception
<1> QED
    BY <1>1, <1>3, <1>4, <1>5 DEF Emit, Reception

-----------------------------------------------------------------------------
(* What is published                                                       *)

LEMMA PublishedReceived == Reception => Published \subseteq Range(received)
BY FrameAssumption DEF Reception, Published

LEMMA PublishedKept == log' = log => Published' = Published
<1> SUFFICES ASSUME log' = log
             PROVE  \A g \in Frame : log'[VesselOf[g]] = log[VesselOf[g]]
    BY DEF Published
<1> QED
    OBVIOUS

\* A delivery publishes its frame and no other.
LEMMA PublishedMore ==
    ASSUME TypeOK, NEW f \in Frame, Appended(f)
    PROVE  Published' = Published \union {f}
<1>1. ASSUME NEW v \in Vessel, v = VesselOf[f]
      PROVE  Range(log'[v]) = Range(log[v]) \union {f}
    BY <1>1, AppendedLog
<1>2. ASSUME NEW v \in Vessel, v # VesselOf[f]
      PROVE  log'[v] = log[v]
    BY <1>2, AppendedLog
<1>3. ASSUME NEW g \in Frame
      PROVE  g \in Range(log'[VesselOf[g]]) <=> g \in Range(log[VesselOf[g]]) \/ g = f
    <2>1. VesselOf[g] \in Vessel
        BY FrameAssumption
    <2>2. CASE VesselOf[g] = VesselOf[f]
        BY <1>1, <2>1, <2>2
    <2>3. CASE VesselOf[g] # VesselOf[f]
        BY <1>2, <2>1, <2>3
    <2> QED
        BY <2>2, <2>3
<1>4. f \in Range(log'[VesselOf[f]])
    BY <1>3
<1> QED
    BY <1>3, <1>4 DEF Published

-----------------------------------------------------------------------------
(* Awaited: the task waits for each record                                 *)

\* Nothing but a frame that has timed out is in flight while the task does
\* not wait for an answer.
LEMMA NothingAwaited ==
    ASSUME Awaited, pc \notin {"wait", "stopping"}
    PROVE  inflight \subseteq timedOut
BY DEF Awaited

\* While it waits, nothing but the frame it waits for.
LEMMA OneAwaited ==
    ASSUME Awaited, pc = "wait"
    PROVE  inflight \subseteq timedOut \union {current} /\ current # NoFrame
BY DEF Awaited

LEMMA ReadAwaited == TypeOK /\ Reception /\ Awaited /\ Read => Awaited'
<1> SUFFICES ASSUME TypeOK, Reception, Awaited, Read PROVE Awaited'
    OBVIOUS
<1> DEFINE f == Head(wire)
           longer == Append(received, f)
<1>1. wire \in Seq(Frame) /\ received \in Seq(Frame) /\ wire # <<>>
    BY DEF TypeOK, Read
<1>2. f \in Frame /\ f \in Range(wire) /\ f # NoFrame
    BY <1>1, TailRange, FrameAssumption
<1>3. f \notin inflight \union givenUp \union timedOut \union dlq \union Published
    BY <1>2, PublishedReceived DEF Reception
<1>4. longer # <<>> /\ longer[Len(longer)] = f
    BY <1>1, <1>2, AppendProperties
<1>5. inflight \subseteq timedOut
    BY NothingAwaited DEF Read
<1> HIDE DEF f, longer
<1>6. /\ UNCHANGED <<dlq, timedOut, inflight, givenUp>>
      /\ Published' = Published
      /\ current = NoFrame
      /\ \/ pc' \in {"listen", "delay"} /\ current' = current
         \/ pc' \in {"send", "deadletter"} /\ current' = f /\ received' = longer
    BY PublishedKept DEF Read, HangUp, Awaited, f, longer
<1> QED
    BY <1>2, <1>3, <1>4, <1>5, <1>6 DEF Awaited

LEMMA StepAwaited == IInv /\ Step => Awaited'
<1> SUFFICES ASSUME IInv, Step PROVE Awaited'
    OBVIOUS
<1> USE DEF IInv
<1>1. CASE Read
    BY <1>1, ReadAwaited
<1>2. CASE Connect \/ EndOfStream \/ Delay \/ Restart \/ Start
    BY <1>2, PublishedKept DEF Awaited, Connect, EndOfStream, Delay, Restart, Start
<1>3. CASE Send
    <2>1. inflight \subseteq timedOut
        BY <1>3, NothingAwaited DEF Send
    <2> QED
        BY <1>3, <2>1, PublishedKept DEF Awaited, Send
<1>4. CASE Acknowledged
    <2>1. inflight \subseteq timedOut
        BY <1>4, OneAwaited DEF Acknowledged
    <2> QED
        BY <1>4, <2>1, PublishedKept DEF Awaited, Acknowledged
<1>5. CASE PublishFails
    <2>1. inflight \subseteq timedOut
        BY <1>5, OneAwaited DEF PublishFails, Answered
    <2> QED
        BY <1>5, <2>1, PublishedKept DEF Awaited, PublishFails
<1>6. CASE TimesOut
    <2>1. inflight \subseteq timedOut'
        BY <1>6, OneAwaited DEF TimesOut
    <2> QED
        BY <1>6, <2>1, PublishedKept DEF Awaited, TimesOut
<1>7. CASE DeadLetter
    <2>1. inflight \subseteq timedOut
        BY <1>7, NothingAwaited DEF DeadLetter
    <2> QED
        BY <1>7, <2>1, PublishedKept DEF Awaited, DeadLetter
<1>8. CASE Overflow \/ Exit
    BY <1>8 DEF Awaited, Overflow, Exit, Stopped, HangUp
<1> QED
    BY <1>1, <1>2, <1>3, <1>4, <1>5, <1>6, <1>7, <1>8 DEF Step

LEMMA ProduceAwaited == TypeOK /\ Awaited /\ Produce => Awaited'
<1> SUFFICES ASSUME TypeOK, Awaited,
                    NEW f \in Frame, Deliver(f) \/ DeliverUnanswered(f) \/ GiveUp(f)
             PROVE  Awaited'
    BY DEF Produce
<1>1. CASE Deliver(f)
    <2>1. Published' = Published \union {f}
        BY <1>1, PublishedMore DEF Deliver
    <2> QED
        BY <1>1, <2>1 DEF Deliver, Awaited
<1>2. CASE DeliverUnanswered(f)
    <2>1. Published' = Published \union {f}
        BY <1>2, PublishedMore DEF DeliverUnanswered
    <2> QED
        BY <1>2, <2>1 DEF DeliverUnanswered, Awaited
<1>3. CASE GiveUp(f)
    BY <1>3, PublishedKept DEF GiveUp, Awaited
<1> QED
    BY <1>1, <1>2, <1>3

LEMMA FailureAwaited == Awaited /\ Failure => Awaited'
<1> SUFFICES ASSUME Awaited, Failure PROVE Awaited'
    OBVIOUS
<1>1. CASE Disconnect \/ ConnectFails
    BY <1>1, PublishedKept DEF Disconnect, ConnectFails, Awaited
<1>2. CASE SendRaises
    <2>1. inflight \subseteq timedOut
        BY <1>2, NothingAwaited DEF SendRaises
    <2> QED
        BY <1>2, <2>1 DEF SendRaises, HangUp, Awaited
<1>3. CASE Stop
    BY <1>3 DEF Stop, HangUp, Awaited
<1>4. CASE Crash \/ StartFails
    BY <1>4 DEF Crash, StartFails, HangUp, Stopped, Awaited
<1> QED
    BY <1>1, <1>2, <1>3, <1>4 DEF Failure

-----------------------------------------------------------------------------
(* Answered: how the producer answers decides what the task does           *)

LEMMA StepAnswered == IInv /\ Step => Answered'
<1> SUFFICES ASSUME IInv, Step PROVE Answered'
    OBVIOUS
<1> USE DEF IInv, Undisturbed
<1>0. NoFrame \notin timedOut
    BY FrameAssumption DEF TypeOK
<1>1. CASE Read
    <2>1. Head(wire) \notin Published
        BY <1>1, TailRange, PublishedReceived DEF Read, Reception, TypeOK
    <2> QED
        BY <1>0, <1>1, <2>1, PublishedKept DEF Read, HangUp, Awaited, Answered
<1>2. CASE Connect \/ EndOfStream \/ Delay \/ Restart \/ Start
    BY <1>2, PublishedKept DEF Answered, Connect, EndOfStream, Delay, Restart, Start
<1>3. CASE Send
    BY <1>3, PublishedKept DEF Awaited, Answered, Send
<1>4. CASE Acknowledged \/ PublishFails \/ TimesOut
    BY <1>4, PublishedKept DEF Awaited, Answered, Acknowledged, PublishFails, TimesOut
<1>5. CASE DeadLetter
    <2>1. \/ dlq' = dlq \union {current} /\ UNCHANGED faults
          \/ ~Undisturbed' /\ (faults'["retry"] = 0 => faults["retry"] = 0)
        BY <1>5, FaultTyped DEF DeadLetter, FaultKind, TypeOK
    <2> QED
        BY <1>5, <2>1, PublishedKept DEF Answered, DeadLetter
<1>6. CASE Overflow
    BY <1>6, PublishedKept DEF Awaited, Answered, Overflow, Stopped, HangUp
<1>7. CASE Exit
    BY <1>7, PublishedKept DEF Answered, Exit, Stopped, HangUp
<1> QED
    BY <1>1, <1>2, <1>3, <1>4, <1>5, <1>6, <1>7 DEF Step

LEMMA ProduceAnswered == IInv /\ Produce => Answered'
<1> SUFFICES ASSUME IInv,
                    NEW f \in Frame, Deliver(f) \/ DeliverUnanswered(f) \/ GiveUp(f)
             PROVE  Answered'
    BY DEF Produce
<1> USE DEF IInv, Undisturbed
<1>1. CASE Deliver(f)
    <2>1. Published' = Published \union {f}
        BY <1>1, PublishedMore DEF Deliver
    <2>2. pc = "deadletter" /\ current = f => f \in timedOut
        BY <1>1, NothingAwaited DEF Deliver
    <2> QED
        BY <1>1, <2>1, <2>2 DEF Deliver, Answered
<1>2. CASE DeliverUnanswered(f)
    <2>1. Published' = Published \union {f}
        BY <1>2, PublishedMore DEF DeliverUnanswered
    <2>2. /\ faults'["retry"] # 0 /\ faults'["stop"] = faults["stop"]
          /\ Undisturbed' => Undisturbed
        BY <1>2, FaultTyped DEF DeliverUnanswered, FaultKind, TypeOK
    <2> QED
        BY <1>2, <2>1, <2>2 DEF DeliverUnanswered, Answered
<1>3. CASE GiveUp(f)
    <2>1. /\ faults'["retry"] = faults["retry"] /\ faults'["stop"] = faults["stop"]
          /\ Undisturbed' => Undisturbed
        BY <1>3, FaultTyped DEF GiveUp, FaultKind
    <2> QED
        BY <1>3, <2>1, PublishedKept DEF GiveUp, Answered
<1> QED
    BY <1>1, <1>2, <1>3

LEMMA FailureAnswered == IInv /\ Failure => Answered'
<1> SUFFICES ASSUME IInv, Failure PROVE Answered'
    OBVIOUS
<1> USE DEF IInv, Undisturbed
<1>1. CASE Disconnect \/ ConnectFails
    BY <1>1, PublishedKept DEF Disconnect, ConnectFails, Answered
<1>2. CASE SendRaises
    <2>1. /\ faults'["send"] # 0
          /\ faults'["retry"] = faults["retry"]
        BY <1>2, FaultTyped DEF SendRaises, FaultKind, TypeOK
    <2> QED
        BY <1>2, <2>1, PublishedKept DEF SendRaises, HangUp, Answered
<1>3. CASE Stop \/ Crash
    <2>1. /\ faults'["stop"] > 0
          /\ faults'["retry"] = faults["retry"]
        BY <1>3, FaultTyped DEF Stop, Crash, FaultKind, TypeOK
    <2> QED
        BY <1>3, <2>1, PublishedKept DEF Stop, Crash, HangUp, Stopped, Answered
<1>4. CASE StartFails
    <2>1. current = NoFrame
        BY <1>4 DEF StartFails, Awaited
    <2> QED
        BY <1>4, <2>1, PublishedKept DEF StartFails, HangUp, Stopped, Answered
<1> QED
    BY <1>1, <1>2, <1>3, <1>4 DEF Failure

-----------------------------------------------------------------------------
(* The invariant                                                           *)

LEMMA InitIInv == Init => IInv
<1> SUFFICES ASSUME Init PROVE IInv
    OBVIOUS
<1>1. TypeOK
    BY InitTypeOK
<1>2. \A v \in Vessel : log[v] = <<>>
    BY DEF Init
<1>3. Published = {}
    BY <1>2, EmptyRange, FrameAssumption DEF Published
<1>4. Reception
    BY <1>2, EmptyRange DEF Init, Reception
<1>5. Awaited
    BY <1>3 DEF Init, Awaited
<1>6. Answered
    BY <1>3 DEF Init, Answered
<1> QED
    BY <1>1, <1>4, <1>5, <1>6 DEF IInv

LEMMA EmitIInv == ASSUME IInv, NEW f \in Frame, Emit(f) PROVE IInv'
<1>1. TypeOK' /\ Reception'
    BY EmitTypeOK, EmitReception DEF IInv
<1>2. Awaited'
    BY PublishedKept DEF IInv, Emit, Awaited
<1>3. Answered'
    BY PublishedKept DEF IInv, Emit, Answered, Undisturbed
<1> QED
    BY <1>1, <1>2, <1>3 DEF IInv

\* Every step keeps the invariant.
LEMMA NextIInv == IInv /\ [Next]_vars => IInv'
<1> SUFFICES ASSUME IInv, [Next]_vars PROVE IInv'
    OBVIOUS
<1>1. CASE Step
    BY <1>1, StepTypeOK, StepReception, StepAwaited, StepAnswered DEF IInv
<1>2. CASE Produce
    BY <1>2, ProduceTypeOK, ProduceReception, ProduceAwaited, ProduceAnswered DEF IInv
<1>3. CASE Failure
    BY <1>3, FailureTypeOK, FailureReception, FailureAwaited, FailureAnswered DEF IInv
<1>4. CASE \E f \in Frame : Emit(f)
    BY <1>4, EmitIInv
<1>5. CASE UNCHANGED vars
    <2>1. Published' = Published
        BY <1>5, PublishedKept DEF vars
    <2> QED
        BY <1>5, <2>1 DEF vars, IInv, TypeOK, Reception, Awaited, Answered, Undisturbed
<1> QED
    BY <1>1, <1>2, <1>3, <1>4, <1>5 DEF Next

\* IInv: the history of frames, the records in flight, the topics and the
\* place of the task agree in every reachable state.
THEOREM Invariance == Spec => []IInv
BY InitIInv, NextIInv, PTL DEF Spec

\* TypeOK: every variable keeps its type; the exponent of the pause stays
\* below the first power of two that is no float.
THEOREM TypeCorrect == Spec => []TypeOK
<1>1. IInv => TypeOK
    BY DEF IInv
<1> QED
    BY <1>1, Invariance, PTL

-----------------------------------------------------------------------------
(* No frame is lost without a cause                                        *)

\* The part of NoFrameLost that a step of the process could break.
LEMMA StepNoFrameLost == IInv /\ NoFrameLost /\ Step => NoFrameLost'
<1> SUFFICES ASSUME IInv, NoFrameLost, Step, Undisturbed',
                    NEW g \in Range(received'),
                    g # current', KindOf[g] # "raising"
             PROVE  Outcome(g)'
    BY DEF NoFrameLost
<1> USE DEF IInv, Outcome
<1>0. received \in Seq(Frame) /\ NoFrame \notin Frame /\ NoFrame \notin Range(received)
    BY FrameAssumption DEF TypeOK, Range
<1>1. Undisturbed
    BY FaultTyped DEF Undisturbed, FaultKind, Step, Connect, Read, EndOfStream, Delay, Send,
       Acknowledged, PublishFails, TimesOut, DeadLetter, Overflow, Exit, Restart, Start, TypeOK
<1>2. g \in Range(received) /\ g # current => g \in dlq \union Published \union inflight
    BY <1>1 DEF NoFrameLost
<1>3. CASE Read
    <2>1. current = NoFrame
        BY <1>3 DEF Read, Awaited
    <2>2. Head(wire) \in Frame
        BY <1>3, TailRange DEF Read, TypeOK
    <2>3. Range(Append(received, Head(wire))) = Range(received) \union {Head(wire)}
        BY <1>0, <2>2, AppendRange
    <2>4. \/ received' = received
          \/ /\ received' = Append(received, Head(wire))
             /\ Head(wire) = current' \/ KindOf[Head(wire)] = "raising"
        BY <1>3 DEF Read
    <2>5. g \in Range(received)
        BY <2>3, <2>4
    <2> QED
        BY <1>0, <1>2, <1>3, <2>1, <2>5, PublishedKept DEF Read, HangUp
<1>4. CASE Connect \/ EndOfStream \/ Delay \/ PublishFails \/ TimesOut \/ Send \/ Restart \/ Start
    BY <1>2, <1>4, PublishedKept
       DEF Connect, EndOfStream, Delay, PublishFails, TimesOut, Send, Restart, Start
<1>5. CASE Acknowledged
    <2>1. current \in Published
        BY <1>5 DEF Acknowledged, Answered
    <2> QED
        BY <1>2, <1>5, <2>1, PublishedKept DEF Acknowledged
<1>6. CASE DeadLetter
    <2>1. dlq' = dlq \union {current}
        BY <1>6, FaultTyped DEF DeadLetter, FaultKind, Undisturbed, TypeOK
    <2> QED
        BY <1>2, <1>6, <2>1, PublishedKept DEF DeadLetter
<1>7. CASE Overflow
    <2>1. current = NoFrame /\ inflight \subseteq timedOut
        BY <1>7, NothingAwaited DEF Overflow, Awaited
    <2>2. inflight \subseteq dlq \union {NoFrame}
        BY <1>1, <2>1 DEF Answered
    <2> QED
        BY <1>0, <1>2, <1>7, <2>1, <2>2, PublishedKept DEF Overflow, Stopped, HangUp
<1>8. CASE Exit
    BY <1>1, <1>8 DEF Exit, Answered, Undisturbed
<1> QED
    BY <1>3, <1>4, <1>5, <1>6, <1>7, <1>8 DEF Step

\* The part that the producer could break: a record that is given up was in
\* flight, so that the task waits for it or has dead-lettered its frame.
LEMMA ProduceNoFrameLost == IInv /\ NoFrameLost /\ Produce => NoFrameLost'
<1> SUFFICES ASSUME IInv, NoFrameLost, Undisturbed',
                    NEW f \in Frame, Deliver(f) \/ DeliverUnanswered(f) \/ GiveUp(f),
                    NEW g \in Range(received'),
                    g # current', KindOf[g] # "raising"
             PROVE  Outcome(g)'
    BY DEF Produce, NoFrameLost
<1> USE DEF IInv, Outcome
<1>1. Undisturbed
    BY FaultTyped DEF Undisturbed, FaultKind, Deliver, DeliverUnanswered, GiveUp
<1>2. UNCHANGED <<received, current, dlq>>
    BY DEF Deliver, DeliverUnanswered, GiveUp
<1>3. g \in dlq \union Published \union inflight
    BY <1>1, <1>2 DEF NoFrameLost
<1>4. CASE Deliver(f) \/ DeliverUnanswered(f)
    <2>1. Published' = Published \union {f}
        BY <1>4, PublishedMore DEF Deliver, DeliverUnanswered
    <2> QED
        BY <1>2, <1>3, <1>4, <2>1 DEF Deliver, DeliverUnanswered
<1>5. CASE GiveUp(f)
    <2>1. Published' = Published /\ inflight' = inflight \ {f} /\ f \in inflight
        BY <1>5, PublishedKept DEF GiveUp
    <2>2. f \in dlq \union {current}
        <3>1. CASE f \in timedOut
            BY <1>1, <3>1 DEF Answered
        <3>2. CASE f \notin timedOut
            <4>1. pc = "wait"
                BY <1>1, <2>1, <3>2 DEF Awaited, Answered, Undisturbed
            <4> QED
                BY <2>1, <3>2, <4>1, OneAwaited
        <3> QED
            BY <3>1, <3>2
    <2> QED
        BY <1>2, <1>3, <2>1, <2>2
<1> QED
    BY <1>4, <1>5

\* The failures that NoFrameLost admits, and the rest.
LEMMA OtherNoFrameLost ==
    ASSUME IInv, NoFrameLost,
           Failure \/ (\E f \in Frame : Emit(f)) \/ UNCHANGED vars
    PROVE  NoFrameLost'
<1>1. CASE Disconnect \/ ConnectFails \/ (\E f \in Frame : Emit(f)) \/ UNCHANGED vars
    <2>1. UNCHANGED <<received, current, dlq, log, inflight>>
        BY <1>1 DEF Disconnect, ConnectFails, Emit, vars
    <2>2. Undisturbed' => Undisturbed
        BY <1>1 DEF Disconnect, ConnectFails, Emit, vars, Undisturbed
    <2> QED
        BY <2>1, <2>2, PublishedKept DEF NoFrameLost, Outcome
<1>2. CASE SendRaises \/ Stop \/ Crash
    <2>1. ~Undisturbed'
        BY <1>2, FaultTyped
           DEF SendRaises, Stop, Crash, FaultKind, Undisturbed, IInv, TypeOK
    <2> QED
        BY <2>1 DEF NoFrameLost
<1>3. CASE StartFails
    <2>1. current = NoFrame /\ inflight \subseteq timedOut
        BY <1>3, NothingAwaited DEF StartFails, Awaited, IInv
    <2>2. ASSUME Undisturbed' PROVE Undisturbed /\ inflight \subseteq dlq \union {NoFrame}
        BY <1>3, <2>1, <2>2 DEF StartFails, Undisturbed, Answered, IInv
    <2>3. NoFrame \notin Range(received)
        BY FrameAssumption DEF IInv, TypeOK, Range
    <2> QED
        BY <1>3, <2>1, <2>2, <2>3, PublishedKept DEF StartFails, Stopped, HangUp, NoFrameLost, Outcome
<1> QED
    BY <1>1, <1>2, <1>3 DEF Failure

\* NoFrameLost: unless producer.send raises, a dead letter is lost or the
\* process is killed, no frame that was read is without an outcome.
THEOREM NothingLost == Spec => []NoFrameLost
<1>1. Init => NoFrameLost
    BY EmptyRange DEF Init, NoFrameLost
<1>2. IInv /\ NoFrameLost /\ [Next]_vars => NoFrameLost'
    BY StepNoFrameLost, ProduceNoFrameLost, OtherNoFrameLost DEF Next
<1> QED
    BY <1>1, <1>2, Invariance, PTL DEF Spec

-----------------------------------------------------------------------------
(* A frame is published or quarantined                                     *)

\* PublishedOrQuarantined: without a lost answer, a frame that is in both
\* topics has timed out.
THEOREM Quarantined == Spec => []PublishedOrQuarantined
<1>1. Init => PublishedOrQuarantined
    BY DEF Init, PublishedOrQuarantined
<1>2. IInv /\ PublishedOrQuarantined /\ [Next]_vars => PublishedOrQuarantined'
    <2> SUFFICES ASSUME IInv, PublishedOrQuarantined, [Next]_vars, faults'["retry"] = 0
                 PROVE  dlq' \cap Published' \subseteq timedOut'
        BY DEF PublishedOrQuarantined
    <2> USE DEF IInv
    <2>1. faults["retry"] = 0
        BY FaultTyped DEF Next, vars, Step, Produce, Failure, FaultKind, TypeOK,
           Connect, Read, EndOfStream, Delay, Send, Acknowledged, PublishFails, TimesOut,
           DeadLetter, Overflow, Exit, Restart, Start, Deliver, DeliverUnanswered, GiveUp,
           Disconnect, ConnectFails, SendRaises, StartFails, Stop, Crash, Emit
    <2>2. dlq \cap Published \subseteq timedOut
        BY <2>1 DEF PublishedOrQuarantined
    <2>3. CASE DeadLetter
        BY <2>1, <2>2, <2>3, PublishedKept DEF DeadLetter, Answered
    <2>4. CASE \E f \in Frame : Deliver(f) \/ DeliverUnanswered(f)
        <3> PICK f \in Frame : Deliver(f) \/ DeliverUnanswered(f)
            BY <2>4
        <3>1. Published' = Published \union {f}
            BY PublishedMore DEF Deliver, DeliverUnanswered
        <3> QED
            BY <2>2, <3>1 DEF Deliver, DeliverUnanswered, Awaited
    <2>5. CASE dlq' = dlq /\ log' = log /\ timedOut \subseteq timedOut'
        BY <2>2, <2>5, PublishedKept
    <2> QED
        BY <2>3, <2>4, <2>5 DEF Next, vars, Step, Produce, Failure,
           Connect, Read, EndOfStream, Delay, Send, Acknowledged, PublishFails, TimesOut,
           Overflow, Exit, Restart, Start, GiveUp, Disconnect, ConnectFails, SendRaises, StartFails, Stop,
           Crash, Stopped, HangUp, Emit
<1> QED
    BY <1>1, <1>2, Invariance, PTL DEF Spec

-----------------------------------------------------------------------------
(* The records of a vessel keep the order of its frames                    *)

LEMMA ReadOrderKept == IInv /\ OrderKept /\ Read => OrderKept'
<1> SUFFICES ASSUME IInv, OrderKept, Read PROVE OrderKept'
    OBVIOUS
<1> USE DEF IInv
<1> DEFINE f == Head(wire)
           longer == Append(received, f)
<1>1. wire \in Seq(Frame) /\ received \in Seq(Frame) /\ wire # <<>>
    BY DEF TypeOK, Read
<1>2. f \in Frame /\ f \notin Range(received)
    BY <1>1, TailRange DEF Reception
<1>3. /\ Len(received) \in Nat
      /\ DOMAIN received = 1..Len(received)
      /\ DOMAIN longer = 1..(Len(received) + 1)
      /\ \A i \in 1..Len(received) : longer[i] = received[i]
      /\ longer[Len(received) + 1] = f
    BY <1>1, <1>2, AppendRange
<1> HIDE DEF f, longer
<1>4. UNCHANGED <<log, timedOut>> /\ (received' = received \/ received' = longer)
    BY DEF Read, HangUp, f, longer
<1>5. CASE received' = received
    BY <1>4, <1>5 DEF OrderKept
<1>6. CASE received' = longer
    <2>1. \A v \in Vessel : \A a \in DOMAIN log[v] : log[v][a] # f
        BY <1>2 DEF Reception, Range
    <2> SUFFICES ASSUME NEW v \in Vessel, NEW a \in DOMAIN log[v], NEW b \in DOMAIN log[v],
                        NEW i \in DOMAIN longer, NEW j \in DOMAIN longer,
                        longer[i] = log[v][a], longer[j] = log[v][b],
                        i < j, longer[i] \notin timedOut
                 PROVE  a < b
        BY <1>4, <1>6 DEF OrderKept
    <2>2. longer[i] # f /\ longer[j] # f
        BY <2>1
    <2>3. i \in DOMAIN received /\ j \in DOMAIN received
        BY <1>3, <2>2
    <2> QED
        BY <1>3, <2>3 DEF OrderKept
<1> QED
    BY <1>4, <1>5, <1>6

LEMMA ProduceOrderKept ==
    ASSUME IInv, OrderKept, NEW f \in Frame, Deliver(f) \/ DeliverUnanswered(f)
    PROVE  OrderKept'
<1> USE DEF IInv
<1>1. UNCHANGED <<received, timedOut>> /\ Appended(f) /\ f \in inflight
    BY DEF Deliver, DeliverUnanswered
<1> SUFFICES ASSUME NEW v \in Vessel,
                    NEW a \in DOMAIN log'[v], NEW b \in DOMAIN log'[v],
                    NEW i \in DOMAIN received, NEW j \in DOMAIN received,
                    received[i] = log'[v][a], received[j] = log'[v][b],
                    i < j, received[i] \notin timedOut
             PROVE  a < b
    BY <1>1 DEF OrderKept
<1>2. CASE v # VesselOf[f]
    <2>1. log'[v] = log[v]
        BY <1>1, <1>2, AppendedLog
    <2> QED
        BY <2>1 DEF OrderKept
<1>3. CASE v = VesselOf[f]
    <2>1. log'[v] = Append(log[v], f) /\ log[v] \in Seq(Frame)
        BY <1>1, <1>3, AppendedLog
    <2>2. /\ Len(log[v]) \in Nat
          /\ DOMAIN log[v] = 1..Len(log[v])
          /\ DOMAIN log'[v] = 1..(Len(log[v]) + 1)
          /\ \A k \in 1..Len(log[v]) : log'[v][k] = log[v][k]
          /\ log'[v][Len(log[v]) + 1] = f
        BY <2>1, AppendRange
    <2>3. CASE a \in DOMAIN log[v] /\ b \in DOMAIN log[v]
        BY <2>2, <2>3 DEF OrderKept
    <2>4. CASE a \in DOMAIN log[v] /\ b = Len(log[v]) + 1
        BY <2>2, <2>4
    <2>5. CASE a = Len(log[v]) + 1
        <3>1. received[i] = f
            BY <2>2, <2>5
        <3>2. f = received[Len(received)]
            BY <1>1, <3>1 DEF Awaited
        <3>3. /\ DOMAIN received = 1..Len(received) /\ Len(received) \in Nat
            BY LenProperties DEF TypeOK
        <3>4. Len(received) \in DOMAIN received
            BY <3>3
        <3>5. i = Len(received)
            BY <3>1, <3>2, <3>4 DEF Reception
        <3> QED
            BY <3>3, <3>5
    <2> QED
        BY <2>2, <2>3, <2>4, <2>5
<1> QED
    BY <1>2, <1>3

\* OrderKept: the records of a vessel are in the order of its frames, but for
\* those whose time-out ran out first.
THEOREM InOrder == Spec => []OrderKept
<1>1. Init => OrderKept
    BY EmptyRange DEF Init, OrderKept
<1>2. IInv /\ OrderKept /\ [Next]_vars => OrderKept'
    <2> SUFFICES ASSUME IInv, OrderKept, [Next]_vars PROVE OrderKept'
        OBVIOUS
    <2>1. CASE Read
        BY <2>1, ReadOrderKept
    <2>2. CASE \E f \in Frame : Deliver(f) \/ DeliverUnanswered(f)
        BY <2>2, ProduceOrderKept
    <2>3. CASE received' = received /\ log' = log /\ timedOut \subseteq timedOut'
        BY <2>3 DEF OrderKept
    <2> QED
        BY <2>1, <2>2, <2>3 DEF Next, vars, Step, Produce, Failure,
           Connect, EndOfStream, Delay, Send, Acknowledged, PublishFails, TimesOut, DeadLetter,
           Overflow, Exit, Restart, Start, GiveUp, Disconnect, ConnectFails, SendRaises, StartFails, Stop,
           Crash, Stopped, HangUp, Emit
<1> QED
    BY <1>1, <1>2, Invariance, PTL DEF Spec

-----------------------------------------------------------------------------
(* What a stop costs                                                       *)

\* Frames that no topic has, whether or not the producer still tries.
Undecided == {f \in Range(received) : /\ f # current /\ KindOf[f] # "raising"
                                      /\ f \notin dlq \union Published}

\* Each of them takes a stop or a crash.
UndecidedFew ==
    /\ IsFiniteSet(Undecided)
    /\ faults["send"] = 0 /\ faults["dlq"] = 0 => Cardinality(Undecided) =< faults["stop"]

\* Every other step of the process leaves the frame in hand with an outcome.
LEMMA StepUndecided ==
    ASSUME IInv, Step
    PROVE  \/ Undecided' \subseteq Undecided /\ UNCHANGED faults
           \/ Undecided' \subseteq Undecided \union {current} /\ faults'["dlq"] > 0
<1> USE DEF IInv
<1>1. CASE Read
    <2>1. current = NoFrame /\ Head(wire) \in Frame /\ received \in Seq(Frame)
        BY <1>1, TailRange DEF Read, Awaited, TypeOK
    <2>2. Range(Append(received, Head(wire))) = Range(received) \union {Head(wire)}
        BY <2>1, AppendRange
    <2>3. \/ received' = received /\ current' = current
          \/ /\ received' = Append(received, Head(wire))
             /\ \/ Head(wire) = current'
                \/ KindOf[Head(wire)] = "raising" /\ current' = current
        BY <1>1 DEF Read
    <2>4. NoFrame \notin Range(received)
        BY <2>1, FrameAssumption DEF Range
    <2>5. Published' = Published /\ dlq' = dlq /\ UNCHANGED faults
        BY <1>1, PublishedKept DEF Read
    <2> QED
        BY <2>1, <2>2, <2>3, <2>4, <2>5 DEF Undecided
<1>2. CASE Connect \/ EndOfStream \/ Delay \/ PublishFails \/ TimesOut \/ Send \/ Restart \/ Start
    BY <1>2, PublishedKept DEF Undecided, Connect, EndOfStream, Delay, PublishFails, TimesOut,
       Send, Restart, Start
<1>3. CASE Acknowledged
    <2>1. current \in Published
        BY <1>3 DEF Acknowledged, Answered
    <2> QED
        BY <1>3, <2>1, PublishedKept DEF Acknowledged, Undecided
<1>4. CASE DeadLetter
    <2>1. \/ dlq' = dlq \union {current} /\ UNCHANGED faults
          \/ dlq' = dlq /\ faults'["dlq"] > 0
        BY <1>4, FaultTyped DEF DeadLetter, FaultKind, TypeOK
    <2> QED
        BY <1>4, <2>1, PublishedKept DEF DeadLetter, Undecided
<1>5. CASE Overflow \/ Exit
    <2>1. current = NoFrame /\ current' = NoFrame
        BY <1>5 DEF Overflow, Exit, Stopped, Awaited
    <2> QED
        BY <1>5, <2>1, PublishedKept DEF Overflow, Exit, Undecided
<1> QED
    BY <1>1, <1>2, <1>3, <1>4, <1>5 DEF Step

\* What the producer's thread does decides frames, or leaves them undecided.
LEMMA ProduceUndecided ==
    ASSUME IInv, Produce
    PROVE  Undecided' \subseteq Undecided /\ \A k \in {"send", "dlq", "stop"} : faults'[k] = faults[k]
<1> PICK f \in Frame : Deliver(f) \/ DeliverUnanswered(f) \/ GiveUp(f)
    BY DEF Produce
<1>1. Published \subseteq Published' /\ UNCHANGED <<received, current, dlq>>
    BY PublishedMore, PublishedKept DEF IInv, Deliver, DeliverUnanswered, GiveUp
<1>2. \A k \in {"send", "dlq", "stop"} : faults'[k] = faults[k]
    BY FaultTyped DEF IInv, Deliver, DeliverUnanswered, GiveUp, FaultKind
<1> QED
    BY <1>1, <1>2 DEF Undecided

\* A stop or crash leaves the frame in hand undecided, and counts as a failure.
LEMMA FailureUndecided ==
    ASSUME IInv, Failure
    PROVE  \/ Undecided' \subseteq Undecided /\ \A k \in {"send", "dlq", "stop"} : faults'[k] = faults[k]
           \/ Undecided' \subseteq Undecided \union {current} /\ faults'["send"] > 0
           \/ /\ Undecided' \subseteq Undecided \union {current}
              /\ faults'["stop"] = faults["stop"] + 1
              /\ faults'["send"] = faults["send"] /\ faults'["dlq"] = faults["dlq"]
<1> USE DEF IInv
<1>1. CASE Disconnect \/ ConnectFails
    BY <1>1, PublishedKept DEF Disconnect, ConnectFails, Undecided
<1>2. CASE SendRaises
    <2>1. faults'["send"] > 0
        BY <1>2, FaultTyped DEF SendRaises, FaultKind, TypeOK
    <2> QED
        BY <1>2, <2>1, PublishedKept DEF SendRaises, Undecided
<1>3. CASE Stop \/ Crash
    <2>1. /\ faults'["stop"] = faults["stop"] + 1
          /\ faults'["send"] = faults["send"] /\ faults'["dlq"] = faults["dlq"]
        BY <1>3, FaultTyped DEF Stop, Crash, FaultKind
    <2> QED
        BY <1>3, <2>1, PublishedKept DEF Stop, Crash, Stopped, Undecided
<1>4. CASE StartFails
    <2>1. current = NoFrame /\ current' = NoFrame
        BY <1>4 DEF StartFails, Stopped, Awaited
    <2> QED
        BY <1>4, <2>1, PublishedKept DEF StartFails, Undecided
<1> QED
    BY <1>1, <1>2, <1>3, <1>4 DEF Failure

\* Every step keeps the count of undecided frames below that of stops.
LEMMA NextUndecidedFew == IInv /\ UndecidedFew /\ [Next]_vars => UndecidedFew'
<1> SUFFICES ASSUME IInv, UndecidedFew, [Next]_vars PROVE UndecidedFew'
    OBVIOUS
<1>0. faults \in [FaultKind -> Nat] /\ faults["send"] \in Nat /\ faults["dlq"] \in Nat /\ faults["stop"] \in Nat
    BY DEF IInv, TypeOK, FaultKind
<1>1. \/ Undecided' \subseteq Undecided /\ \A k \in {"send", "dlq", "stop"} : faults'[k] = faults[k]
      \/ Undecided' \subseteq Undecided \union {current} /\ (faults'["send"] > 0 \/ faults'["dlq"] > 0)
      \/ /\ Undecided' \subseteq Undecided \union {current}
         /\ faults'["stop"] = faults["stop"] + 1
         /\ faults'["send"] = faults["send"] /\ faults'["dlq"] = faults["dlq"]
    <2>1. CASE Step
        BY <2>1, StepUndecided
    <2>2. CASE Produce \/ Failure
        BY <2>2, ProduceUndecided, FailureUndecided
    <2>3. CASE (\E f \in Frame : Emit(f)) \/ UNCHANGED vars
        BY <2>3, PublishedKept DEF Emit, vars, Undecided
    <2> QED
        BY <2>1, <2>2, <2>3 DEF Next
<1>2. /\ IsFiniteSet(Undecided) /\ Cardinality(Undecided) \in Nat
      /\ IsFiniteSet(Undecided \union {current})
      /\ Cardinality(Undecided \union {current}) =< Cardinality(Undecided) + 1
    BY FS_AddElement, FS_CardinalityType DEF UndecidedFew
<1>3. CASE Undecided' \subseteq Undecided
    <2>1. IsFiniteSet(Undecided') /\ Cardinality(Undecided') \in Nat
          /\ Cardinality(Undecided') =< Cardinality(Undecided)
        BY <1>2, <1>3, FS_Subset, FS_CardinalityType
    <2> QED
        BY <1>0, <1>1, <1>2, <2>1 DEF UndecidedFew
<1>4. CASE Undecided' \subseteq Undecided \union {current} /\ ~(Undecided' \subseteq Undecided)
    <2>1. IsFiniteSet(Undecided') /\ Cardinality(Undecided') \in Nat
          /\ Cardinality(Undecided') =< Cardinality(Undecided \union {current})
          /\ Cardinality(Undecided \union {current}) \in Nat
        BY <1>2, <1>4, FS_Subset, FS_CardinalityType
    <2> QED
        BY <1>0, <1>1, <1>2, <1>4, <2>1 DEF UndecidedFew
<1> QED
    BY <1>1, <1>3, <1>4

\* StopLosesOne: unless producer.send raises or a dead letter is lost, each stop
\* or crash costs the frame in hand and no other.
THEOREM StopsLoseOneEach == Spec => []StopLosesOne
<1>1. Init => UndecidedFew
    <2> SUFFICES ASSUME Init PROVE UndecidedFew
        OBVIOUS
    <2>1. Undecided = {}
        BY EmptyRange DEF Init, Undecided
    <2> QED
        BY <2>1, FS_EmptySet DEF UndecidedFew, Init, FaultKind
<1>2. IInv /\ UndecidedFew => StopLosesOne
    <2> SUFFICES ASSUME IInv, UndecidedFew, faults["send"] = 0, faults["dlq"] = 0
                 PROVE  Cardinality(Lost) =< faults["stop"]
        BY DEF StopLosesOne
    <2>1. Lost \subseteq Undecided
        BY DEF Lost, Undecided, Outcome
    <2>2. /\ Cardinality(Lost) \in Nat /\ Cardinality(Undecided) \in Nat
          /\ Cardinality(Lost) =< Cardinality(Undecided)
        BY <2>1, FS_Subset, FS_CardinalityType DEF UndecidedFew
    <2> QED
        BY <2>2 DEF UndecidedFew, IInv, TypeOK, FaultKind
<1> QED
    BY <1>1, <1>2, NextUndecidedFew, Invariance, PTL DEF Spec
=============================================================================
