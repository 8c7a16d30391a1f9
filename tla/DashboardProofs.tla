-------------------------- MODULE DashboardProofs --------------------------
(***************************************************************************)
(* Type correctness and safety of the dashboard, for any feeds, vessels,   *)
(* requests under way and failures: what the map draws, what a selection   *)
(* shows, and that a feed goes back only when its requests overlapped.     *)
(***************************************************************************)
EXTENDS Dashboard, SequenceTheorems, TLAPS

-----------------------------------------------------------------------------
(* Sequences                                                               *)

\* What is left of a sequence when an element is removed.
LEMMA Removed ==
    ASSUME NEW S, NEW s \in Seq(S), NEW i \in DOMAIN s
    PROVE  /\ RemoveAt(s, i) \in Seq(S)
           /\ Len(RemoveAt(s, i)) = Len(s) - 1
           /\ \A j \in DOMAIN RemoveAt(s, i) : \E k \in DOMAIN s : RemoveAt(s, i)[j] = s[k]
<1>1. Len(s) \in Nat /\ DOMAIN s = 1..Len(s) /\ i \in 1..Len(s)
    BY LenProperties
<1>2. /\ SubSeq(s, 1, i - 1) \in Seq(S)
      /\ Len(SubSeq(s, 1, i - 1)) = i - 1
      /\ \A j \in 1..(i - 1) : SubSeq(s, 1, i - 1)[j] = s[j]
    BY <1>1
<1>3. /\ SubSeq(s, i + 1, Len(s)) \in Seq(S)
      /\ Len(SubSeq(s, i + 1, Len(s))) = Len(s) - i
      /\ \A j \in 1..(Len(s) - i) : SubSeq(s, i + 1, Len(s))[j] = s[j + i]
    BY <1>1
<1>4. /\ RemoveAt(s, i) \in Seq(S)
      /\ Len(RemoveAt(s, i)) = Len(s) - 1
      /\ \A j \in 1..(Len(s) - 1) :
            RemoveAt(s, i)[j] = IF j <= i - 1 THEN SubSeq(s, 1, i - 1)[j]
                                ELSE SubSeq(s, i + 1, Len(s))[j - (i - 1)]
    <2> DEFINE a == SubSeq(s, 1, i - 1)
               b == SubSeq(s, i + 1, Len(s))
    <2>1. RemoveAt(s, i) = a \o b
        BY DEF RemoveAt
    <2>2. /\ a \in Seq(S) /\ b \in Seq(S)
          /\ Len(a) = i - 1 /\ Len(b) = Len(s) - i
        BY <1>2, <1>3
    <2> HIDE DEF a, b
    <2>3. /\ a \o b \in Seq(S)
          /\ Len(a \o b) = Len(a) + Len(b)
          /\ \A j \in 1..(Len(a) + Len(b)) :
                (a \o b)[j] = IF j <= Len(a) THEN a[j] ELSE b[j - Len(a)]
        BY <2>2, ConcatProperties
    <2>4. i - 1 + (Len(s) - i) = Len(s) - 1
        BY <1>1
    <2>5. /\ RemoveAt(s, i) \in Seq(S)
          /\ Len(RemoveAt(s, i)) = Len(s) - 1
          /\ \A j \in 1..(Len(s) - 1) :
                RemoveAt(s, i)[j] = IF j <= i - 1 THEN a[j] ELSE b[j - (i - 1)]
        BY <2>1, <2>2, <2>3, <2>4
    <2> QED
        BY <2>5 DEF a, b
<1>5. \A j \in 1..(Len(s) - 1) : \E k \in 1..Len(s) : RemoveAt(s, i)[j] = s[k]
    <2> SUFFICES ASSUME NEW j \in 1..(Len(s) - 1)
                 PROVE  \E k \in 1..Len(s) : RemoveAt(s, i)[j] = s[k]
        OBVIOUS
    <2>1. CASE j <= i - 1
        <3>1. j \in 1..(i - 1) /\ j \in 1..Len(s)
            BY <1>1, <2>1
        <3>2. RemoveAt(s, i)[j] = SubSeq(s, 1, i - 1)[j]
            BY <1>4, <2>1
        <3>3. SubSeq(s, 1, i - 1)[j] = s[j]
            BY <1>2, <3>1
        <3> QED
            BY <3>1, <3>2, <3>3
    <2>2. CASE ~(j <= i - 1)
        <3>1. j - (i - 1) \in 1..(Len(s) - i)
            BY <1>1, <2>2
        <3>2. RemoveAt(s, i)[j] = SubSeq(s, i + 1, Len(s))[j - (i - 1)]
            BY <1>4, <2>2
        <3>4. SubSeq(s, i + 1, Len(s))[j - (i - 1)] = s[j - (i - 1) + i]
            BY <1>3, <3>1
        <3>3. j - (i - 1) + i \in 1..Len(s)
            BY <1>1, <3>1
        <3> QED
            BY <3>2, <3>3, <3>4
    <2> QED
        BY <2>1, <2>2
<1>6. DOMAIN RemoveAt(s, i) = 1..(Len(s) - 1)
    BY <1>4
<1> QED
    BY <1>1, <1>4, <1>5, <1>6

\* One more request at the end of a sequence.
LEMMA Appended ==
    ASSUME NEW S, NEW s \in Seq(S), NEW e \in S
    PROVE  /\ Append(s, e) \in Seq(S)
           /\ Len(Append(s, e)) = Len(s) + 1
           /\ DOMAIN Append(s, e) = 1..(Len(s) + 1)
           /\ \A j \in DOMAIN s : Append(s, e)[j] = s[j]
           /\ Append(s, e)[Len(s) + 1] = e
    BY AppendProperties, LenProperties

-----------------------------------------------------------------------------
(* Types                                                                   *)

\* After a render the map draws what the application holds, if it is ready.
LEMMA DrawnCurrent ==
    ASSUME TypeOK, Drawn, UNCHANGED <<tab, map>>,
           shown' \in [Feed -> Nat], selected' \in VesselOrNone, track' \in VesselOrNone
    PROVE  /\ source' \in [fleet : Nat, selected : VesselOrNone]
           /\ line' \in VesselOrNone
           /\ MapCurrent'
<1>1. CASE map = "ready"
    <2>1. /\ source' = [fleet |-> shown'[Fleet], selected |-> selected']
          /\ line' = track'
        BY <1>1 DEF Drawn
    <2>2. shown'[Fleet] \in Nat
        BY FeedAssumption
    <2> QED
        BY <2>1, <2>2 DEF MapCurrent
<1>2. CASE map # "ready"
    <2>1. UNCHANGED <<source, line>>
        BY <1>2 DEF Drawn
    <2>2. map' # "ready"
        BY <1>2
    <2> QED
        BY <2>1, <2>2 DEF TypeOK, MapCurrent
<1> QED
    BY <1>1, <1>2

LEMMA InitTyped == Init => TypeOK /\ MapCurrent
<1> SUFFICES ASSUME Init PROVE TypeOK /\ MapCurrent
    OBVIOUS
<1>1. <<>> \in Seq(Call) /\ <<>> \in Seq(Vessel)
    BY EmptySeq
<1>2. /\ calls \in [Feed -> Seq(Call)]
      /\ shown \in [Feed -> Nat]
      /\ selects \in Seq(Vessel)
    BY <1>1 DEF Init
<1>3. None \in VesselOrNone
    BY DEF VesselOrNone
<1>4. source \in [fleet : Nat, selected : VesselOrNone]
    BY <1>3 DEF Init
<1>5. map = "style" /\ tab = "live"
    BY DEF Init
<1>6. version \in Nat \ {0} /\ failures \in Nat
    BY DEF Init
<1>7. bad = {} /\ overlapped = {} /\ selected = None /\ detail = None /\ track = None
      /\ raced = FALSE /\ line = None
    BY DEF Init
<1>8. map # "ready" /\ map \in IF tab = "live" THEN {"style", "image", "ready"} ELSE {"none"}
    BY <1>5
<1> QED
    BY <1>2, <1>3, <1>4, <1>5, <1>6, <1>7, <1>8, Zenon DEF TypeOK, MapCurrent

\* The type of a feed's requests after one of them has changed.
LEMMA CallsTyped ==
    ASSUME TypeOK, NEW f \in Feed
    PROVE  /\ calls[f] \in Seq(Call)
           /\ DOMAIN calls[f] = 1..Len(calls[f])
           /\ Len(calls[f]) \in Nat
           /\ \A i \in DOMAIN calls[f] : calls[f][i] \in Call
    BY LenProperties, ElementOfSeq DEF TypeOK

LEMMA TypeStep == TypeOK /\ MapCurrent /\ [Next]_vars => TypeOK' /\ MapCurrent'
<1> SUFFICES ASSUME TypeOK, MapCurrent, [Next]_vars
             PROVE  TypeOK' /\ MapCurrent'
    OBVIOUS
<1>u. CASE UNCHANGED vars
    BY <1>u DEF vars, feeds, selection, mapVars, TypeOK, MapCurrent
<1>1. CASE Write
    BY <1>1 DEF Write, feeds, selection, mapVars, TypeOK, MapCurrent
<1>2. CASE StyleLoads
    BY <1>2 DEF StyleLoads, feeds, selection, TypeOK, MapCurrent
<1>3. CASE ImageLoads
    <2>1. shown[Fleet] \in Nat
        BY FeedAssumption DEF TypeOK
    <2>2. tab = "live"
        BY <1>3 DEF ImageLoads, TypeOK
    <2> QED
        BY <1>3, <2>1, <2>2 DEF ImageLoads, feeds, selection, TypeOK, MapCurrent
<1>4. ASSUME NEW f \in Feed, Poll(f)
      PROVE  TypeOK' /\ MapCurrent'
    <2>1. Unanswered \in Call
        BY DEF Unanswered, Call
    <2>2. Append(calls[f], Unanswered) \in Seq(Call)
        BY <2>1, CallsTyped, Appended
    <2>3. calls' \in [Feed -> Seq(Call)]
        BY <1>4, <2>2 DEF Poll, TypeOK
    <2>4. overlapped' \in SUBSET Feed
        BY <1>4 DEF Poll, TypeOK
    <2> QED
        BY <1>4, <2>3, <2>4 DEF Poll, selection, mapVars, TypeOK, MapCurrent
<1>5. ASSUME NEW f \in Feed, NEW i \in DOMAIN calls[f], NEW got \in Nat,
             calls' = [calls EXCEPT ![f][i] = [done |-> TRUE, got |-> got]]
      PROVE  calls' \in [Feed -> Seq(Call)]
    <2>1. [done |-> TRUE, got |-> got] \in Call
        BY DEF Call
    <2>2. [calls[f] EXCEPT ![i] = [done |-> TRUE, got |-> got]] \in Seq(Call)
        BY <2>1, CallsTyped, ExceptSeq
    <2>3. calls' = [calls EXCEPT ![f] = [calls[f] EXCEPT ![i] = [done |-> TRUE, got |-> got]]]
        BY <1>5
    <2> QED
        BY <2>2, <2>3 DEF TypeOK
<1>6. ASSUME NEW f \in Feed, NEW i \in DOMAIN calls[f], Query(f, i)
      PROVE  TypeOK' /\ MapCurrent'
    <2>1. version \in Nat
        BY DEF TypeOK
    <2>2. calls' \in [Feed -> Seq(Call)]
        BY <1>5, <1>6, <2>1 DEF Query
    <2> QED
        BY <1>6, <2>2 DEF Query, selection, mapVars, TypeOK, MapCurrent
<1>7. ASSUME NEW f \in Feed, NEW i \in DOMAIN calls[f], QueryFails(f, i)
      PROVE  TypeOK' /\ MapCurrent'
    <2>1. calls' \in [Feed -> Seq(Call)]
        BY <1>5, <1>7 DEF QueryFails
    <2> QED
        BY <1>7, <2>1 DEF QueryFails, Fails, selection, mapVars, TypeOK, MapCurrent
<1>8. ASSUME NEW f \in Feed, NEW i \in DOMAIN calls[f],
             calls' = [calls EXCEPT ![f] = RemoveAt(@, i)]
      PROVE  calls' \in [Feed -> Seq(Call)]
    <2>1. RemoveAt(calls[f], i) \in Seq(Call)
        BY CallsTyped, Removed
    <2> QED
        BY <1>8, <2>1 DEF TypeOK
<1>9. ASSUME NEW f \in Feed, NEW i \in DOMAIN calls[f], Answer(f, i)
      PROVE  TypeOK' /\ MapCurrent'
    <2>1. calls' \in [Feed -> Seq(Call)]
        BY <1>8, <1>9 DEF Answer
    <2>2. calls[f][i].got \in Nat
        BY CallsTyped DEF Call
    <2>3. shown' \in [Feed -> Nat]
        BY <1>9, <2>2 DEF Answer, TypeOK
    <2>4. /\ source' \in [fleet : Nat, selected : VesselOrNone]
          /\ line' \in VesselOrNone
          /\ MapCurrent'
        BY <1>9, <2>3, DrawnCurrent DEF Answer, selection, TypeOK
    <2> QED
        BY <1>9, <2>1, <2>3, <2>4 DEF Answer, selection, TypeOK
<1>10. ASSUME NEW f \in Feed, NEW i \in DOMAIN calls[f], AnswerError(f, i)
       PROVE  TypeOK' /\ MapCurrent'
    <2>1. calls' \in [Feed -> Seq(Call)]
        BY <1>8, <1>10 DEF AnswerError
    <2> QED
        BY <1>10, <2>1 DEF AnswerError, selection, mapVars, TypeOK, MapCurrent
<1>11. CASE SwitchTab
    <2>1. <<>> \in Seq(Call)
        BY EmptySeq
    <2>2. calls' \in [Feed -> Seq(Call)]
        BY <1>11, <2>1 DEF SwitchTab, TypeOK
    <2>3. shown' \in [Feed -> Nat]
        BY <1>11 DEF SwitchTab, TypeOK
    <2>4. /\ tab' \in {"live", "intel"}
          /\ map' \in IF tab' = "live" THEN {"style", "image", "ready"} ELSE {"none"}
          /\ map' # "ready"
        BY <1>11 DEF SwitchTab, TypeOK
    <2>5. /\ source' \in [fleet : Nat, selected : VesselOrNone]
          /\ line' \in VesselOrNone
        BY <1>11 DEF SwitchTab, VesselOrNone
    <2> QED
        BY <1>11, <2>2, <2>3, <2>4, <2>5 DEF SwitchTab, selection, TypeOK, MapCurrent
<1>12. ASSUME NEW v \in Vessel, Select(v)
       PROVE  TypeOK' /\ MapCurrent'
    <2>1. selects' \in Seq(Vessel)
        BY <1>12, Appended DEF Select, TypeOK
    <2>2. selected' \in VesselOrNone
        BY <1>12 DEF Select, VesselOrNone
    <2>3. /\ source' \in [fleet : Nat, selected : VesselOrNone]
          /\ line' \in VesselOrNone
          /\ MapCurrent'
        BY <1>12, <2>2, DrawnCurrent DEF Select, feeds, TypeOK
    <2> QED
        BY <1>12, <2>1, <2>2, <2>3 DEF Select, feeds, TypeOK
<1>13. CASE Deselect
    <2>1. None \in VesselOrNone
        BY DEF VesselOrNone
    <2>2. /\ source' \in [fleet : Nat, selected : VesselOrNone]
          /\ line' \in VesselOrNone
          /\ MapCurrent'
        BY <1>13, <2>1, DrawnCurrent DEF Deselect, feeds, TypeOK
    <2> QED
        BY <1>13, <2>1, <2>2 DEF Deselect, feeds, TypeOK
<1>14. ASSUME NEW i \in DOMAIN selects, Selected(i) \/ SelectedError(i)
       PROVE  TypeOK' /\ MapCurrent'
    <2>1. selects[i] \in Vessel
        BY LenProperties, ElementOfSeq DEF TypeOK
    <2>2. detail' \in VesselOrNone /\ track' \in VesselOrNone
        BY <1>14, <2>1 DEF Selected, SelectedError, VesselOrNone
    <2>3. selects' \in Seq(Vessel)
        BY <1>14, Removed DEF Selected, SelectedError, TypeOK
    <2>4. failures' \in Nat
        BY <1>14 DEF Selected, SelectedError, Fails, TypeOK
    <2>5. UNCHANGED <<version, tab, feeds, selected, raced, map>> /\ Drawn
        BY <1>14 DEF Selected, SelectedError
    <2>6. /\ source' \in [fleet : Nat, selected : VesselOrNone]
          /\ line' \in VesselOrNone
          /\ MapCurrent'
        BY <2>2, <2>5, DrawnCurrent DEF feeds, TypeOK
    <2> QED
        BY <2>2, <2>3, <2>4, <2>5, <2>6 DEF feeds, TypeOK
<1> QED
    BY <1>u, <1>1, <1>2, <1>3, <1>4, <1>6, <1>7, <1>9, <1>10, <1>11, <1>12, <1>13, <1>14
       DEF Next, Settle, Finish

-----------------------------------------------------------------------------
(* The selection                                                           *)

LEMMA SelectionStep ==
    TypeOK /\ SelectionInOrder /\ SelectionShown /\ [Next]_vars
        => SelectionInOrder' /\ SelectionShown'
<1> SUFFICES ASSUME TypeOK, SelectionInOrder, SelectionShown, [Next]_vars
             PROVE  SelectionInOrder' /\ SelectionShown'
    OBVIOUS
<1>l. Len(selects) \in Nat /\ DOMAIN selects = 1..Len(selects)
    BY LenProperties DEF TypeOK
<1>1. CASE UNCHANGED selection
    BY <1>1 DEF selection, SelectionInOrder, SelectionShown
<1>2. ASSUME NEW v \in Vessel, Select(v)
      PROVE  SelectionInOrder' /\ SelectionShown'
    <2>1. /\ selects' = Append(selects, v) /\ selected' = v
          /\ raced' = (selects # <<>>)
          /\ UNCHANGED <<detail, track>>
        BY <1>2 DEF Select
    <2>2. Len(selects') = Len(selects) + 1 /\ selects'[Len(selects) + 1] = v
        BY <2>1, Appended DEF TypeOK
    <2>3. selects' # <<>>
        BY <1>l, <2>2
    <2>4. ASSUME ~raced'
          PROVE  Len(selects') <= 1 /\ selects'[1] = selected'
        <3>0. selects = <<>>
            BY <2>1, <2>4, Zenon
        <3>1. Len(selects) = 0
            BY <3>0
        <3> QED
            BY <2>1, <2>2, <3>1
    <2> QED
        BY <2>1, <2>3, <2>4 DEF SelectionInOrder, SelectionShown
<1>3. CASE Deselect
    <2>1. /\ selected' = None /\ detail' = None /\ track' = None
          /\ raced' = (selects # <<>>)
          /\ selects' = selects
        BY <1>3 DEF Deselect
    <2>2. ~raced' => Len(selects') = 0 /\ selects' = <<>>
        BY <2>1
    <2> QED
        BY <2>1, <2>2 DEF SelectionInOrder, SelectionShown
<1>4. ASSUME NEW i \in DOMAIN selects, Selected(i) \/ SelectedError(i)
      PROVE  SelectionInOrder' /\ SelectionShown'
    <2>1. /\ selects' = RemoveAt(selects, i)
          /\ UNCHANGED <<selected, raced>>
          /\ detail' \in {None, selects[i]} /\ track' = detail'
        BY <1>4 DEF Selected, SelectedError
    <2>2. Len(selects') = Len(selects) - 1
        BY <2>1, Removed DEF TypeOK
    <2>3. ASSUME ~raced
          PROVE  Len(selects') = 0 /\ selects' = <<>> /\ selects[i] = selected
        <3>1. selects # <<>>
            BY <1>l
        <3>2. Len(selects) = 1 /\ i = 1 /\ selects[1] = selected
            BY <1>l, <2>3, <3>1 DEF SelectionInOrder
        <3>3. selects' \in Seq(Vessel)
            BY <2>1, Removed DEF TypeOK
        <3> QED
            BY <2>2, <3>2, <3>3, EmptySeq
    <2> QED
        BY <2>1, <2>3 DEF SelectionInOrder, SelectionShown
<1>5. ASSUME NEW f \in Feed, NEW i \in DOMAIN calls[f],
             Query(f, i) \/ QueryFails(f, i) \/ Answer(f, i) \/ AnswerError(f, i)
      PROVE  UNCHANGED selection
    BY <1>5 DEF Query, QueryFails, Answer, AnswerError
<1>6. ASSUME NEW f \in Feed, Poll(f)
      PROVE  UNCHANGED selection
    BY <1>6 DEF Poll
<1>7. ASSUME Write \/ StyleLoads \/ ImageLoads \/ SwitchTab \/ UNCHANGED vars
      PROVE  UNCHANGED selection
    BY <1>7 DEF Write, StyleLoads, ImageLoads, SwitchTab, vars
<1> QED
    BY <1>1, <1>2, <1>3, <1>4, <1>5, <1>6, <1>7 DEF Next, Settle, Finish

-----------------------------------------------------------------------------
(* The feeds                                                               *)

\* FeedInOrder for one feed.
InOrder(f) ==
    /\ shown[f] <= version
    /\ \A i \in DOMAIN calls[f] : calls[f][i].got <= version
    /\ f \notin overlapped =>
          /\ Len(calls[f]) <= 1
          /\ \A i \in DOMAIN calls[f] : calls[f][i].got > 0 => calls[f][i].got >= shown[f]

\* A step leaves a feed and the database alone.
LEMMA Untouched ==
    ASSUME NEW f \in Feed, InOrder(f),
           shown'[f] = shown[f], calls'[f] = calls[f], version' = version,
           f \in overlapped' <=> f \in overlapped
    PROVE  InOrder(f)'
    BY DEF InOrder

\* A request is answered with the version of the database, or with an error.
LEMMA QueryInOrder ==
    ASSUME TypeOK, NEW f \in Feed, NEW g \in Feed, InOrder(g),
           NEW i \in DOMAIN calls[f], NEW got \in {0, version},
           calls' = [calls EXCEPT ![f][i] = [done |-> TRUE, got |-> got]],
           UNCHANGED <<version, shown, overlapped>>
    PROVE  InOrder(g)'
<1>1. CASE g # f
    BY <1>1, Untouched DEF TypeOK
<1>2. CASE g = f
    <2>1. /\ calls'[f] = [calls[f] EXCEPT ![i] = [done |-> TRUE, got |-> got]]
          /\ DOMAIN calls'[f] = DOMAIN calls[f]
        BY DEF TypeOK
    <2>2. [done |-> TRUE, got |-> got] \in Call
        BY DEF Call, TypeOK
    <2>3. Len(calls'[f]) = Len(calls[f])
        BY <2>1, <2>2, CallsTyped, ExceptSeq
    <2>4. \A j \in DOMAIN calls[f] : calls'[f][j].got \in {got, calls[f][j].got}
        BY <2>1
    <2>5. shown[f] \in Nat /\ version \in Nat
        BY DEF TypeOK
    <2>6. \A j \in DOMAIN calls[f] : calls'[f][j].got <= version
        BY <1>2, <2>4, <2>5 DEF InOrder
    <2>7. ASSUME f \notin overlapped, NEW j \in DOMAIN calls[f], calls'[f][j].got > 0
          PROVE  calls'[f][j].got >= shown[f]
        BY <1>2, <2>4, <2>5, <2>7 DEF InOrder
    <2> QED
        BY <1>2, <2>1, <2>3, <2>6, <2>7 DEF InOrder
<1> QED
    BY <1>1, <1>2

\* An answer arrives: the feed shows it, or goes on showing what it did.
LEMMA AnswerInOrder ==
    ASSUME TypeOK, NEW f \in Feed, NEW g \in Feed, InOrder(g),
           NEW i \in DOMAIN calls[f], NEW version2 \in {shown[f], calls[f][i].got},
           calls' = [calls EXCEPT ![f] = RemoveAt(@, i)],
           shown' = [shown EXCEPT ![f] = version2],
           UNCHANGED <<version, overlapped>>
    PROVE  InOrder(g)'
<1>1. CASE g # f
    BY <1>1, Untouched DEF TypeOK
<1>2. CASE g = f
    <2>1. calls'[f] = RemoveAt(calls[f], i) /\ shown'[f] = version2
        BY DEF TypeOK
    <2>2. /\ Len(calls'[f]) = Len(calls[f]) - 1
          /\ calls'[f] \in Seq(Call)
          /\ \A j \in DOMAIN calls'[f] : \E k \in DOMAIN calls[f] : calls'[f][j] = calls[f][k]
        BY <2>1, CallsTyped, Removed
    <2>3. shown'[f] <= version
        BY <1>2, <2>1 DEF InOrder
    <2>4. \A j \in DOMAIN calls'[f] : calls'[f][j].got <= version
        BY <1>2, <2>2 DEF InOrder
    <2>5. ASSUME f \notin overlapped
          PROVE  Len(calls'[f]) = 0 /\ DOMAIN calls'[f] = {}
        <3>1. Len(calls[f]) <= 1 /\ Len(calls[f]) \in Nat /\ Len(calls'[f]) \in Nat
            BY <1>2, <2>2, <2>5, CallsTyped, LenProperties DEF InOrder
        <3>2. Len(calls'[f]) = 0
            BY <2>2, <3>1
        <3> QED
            BY <2>2, <3>2, LenProperties
    <2> QED
        BY <1>2, <2>3, <2>4, <2>5 DEF InOrder
<1> QED
    BY <1>1, <1>2

LEMMA FeedStep == TypeOK /\ FeedInOrder /\ [Next]_vars => FeedInOrder'
<1> SUFFICES ASSUME TypeOK, [Next]_vars, NEW g \in Feed, InOrder(g)
             PROVE  InOrder(g)'
    BY DEF FeedInOrder, InOrder
<1>t. shown[g] \in Nat /\ version \in Nat
    BY DEF TypeOK
<1>1. CASE UNCHANGED <<version, feeds>>
    BY <1>1, Untouched DEF feeds
<1>2. CASE Write
    <2>1. UNCHANGED <<shown, calls, overlapped>> /\ version' = version + 1
        BY <1>2 DEF Write, feeds
    <2>2. \A i \in DOMAIN calls[g] : calls[g][i].got \in Nat
        BY CallsTyped DEF Call
    <2>3. \A i \in DOMAIN calls[g] : calls[g][i].got <= version + 1
        BY <1>t, <2>2 DEF InOrder
    <2> QED
        BY <1>t, <2>1, <2>3 DEF InOrder
<1>3. ASSUME NEW f \in Feed, Poll(f)
      PROVE  InOrder(g)'
    <2>1. CASE g # f
        BY <1>3, <2>1, Untouched DEF Poll, TypeOK
    <2>2. CASE g = f
        <3>1. /\ calls'[f] = Append(calls[f], Unanswered)
              /\ UNCHANGED <<version, shown>>
              /\ f \notin overlapped' <=> calls[f] = <<>>
            BY <1>3 DEF Poll, TypeOK
        <3>2. Unanswered \in Call /\ Unanswered.got = 0
            BY DEF Unanswered, Call
        <3>3. /\ Len(calls'[f]) = Len(calls[f]) + 1
              /\ DOMAIN calls'[f] = 1..(Len(calls[f]) + 1)
              /\ \A j \in DOMAIN calls[f] : calls'[f][j] = calls[f][j]
              /\ calls'[f][Len(calls[f]) + 1] = Unanswered
            BY <3>1, <3>2, CallsTyped, Appended
        <3>4. \A j \in DOMAIN calls'[f] : j \in DOMAIN calls[f] \/ j = Len(calls[f]) + 1
            BY <3>3, CallsTyped
        <3>5. \A j \in DOMAIN calls'[f] : calls'[f][j].got <= version
            BY <1>t, <2>2, <3>2, <3>3, <3>4 DEF InOrder
        <3>6. ASSUME f \notin overlapped'
              PROVE  /\ Len(calls'[f]) <= 1
                     /\ \A j \in DOMAIN calls'[f] : calls'[f][j].got = 0
            <4>1. Len(calls[f]) = 0
                BY <3>1, <3>6
            <4>2. \A j \in DOMAIN calls'[f] : j = 1
                BY <3>3, <4>1
            <4> QED
                BY <3>2, <3>3, <4>1, <4>2
        <3> QED
            BY <1>t, <2>2, <3>1, <3>5, <3>6 DEF InOrder
    <2> QED
        BY <2>1, <2>2
<1>4. ASSUME NEW f \in Feed, NEW i \in DOMAIN calls[f], Query(f, i) \/ QueryFails(f, i)
      PROVE  InOrder(g)'
    <2>1. PICK got \in {0, version} :
              calls' = [calls EXCEPT ![f][i] = [done |-> TRUE, got |-> got]]
        BY <1>4 DEF Query, QueryFails
    <2>2. UNCHANGED <<version, shown, overlapped>>
        BY <1>4 DEF Query, QueryFails
    <2> QED
        BY <2>1, <2>2, QueryInOrder
<1>5. ASSUME NEW f \in Feed, NEW i \in DOMAIN calls[f], Answer(f, i) \/ AnswerError(f, i)
      PROVE  InOrder(g)'
    <2>1. /\ calls' = [calls EXCEPT ![f] = RemoveAt(@, i)]
          /\ UNCHANGED <<version, overlapped>>
        BY <1>5 DEF Answer, AnswerError
    <2>2. PICK new \in {shown[f], calls[f][i].got} : shown' = [shown EXCEPT ![f] = new]
        <3>1. shown = [shown EXCEPT ![f] = shown[f]]
            BY DEF TypeOK
        <3> QED
            BY <1>5, <3>1 DEF Answer, AnswerError
    <2> QED
        BY <2>1, <2>2, AnswerInOrder
<1>6. CASE SwitchTab
    <2>1. CASE g = Fleet
        <3>1. UNCHANGED <<version, overlapped>> /\ shown'[g] = shown[g] /\ calls'[g] = calls[g]
            BY <1>6, <2>1 DEF SwitchTab
        <3> QED
            BY <3>1, Untouched
    <2>2. CASE g # Fleet
        <3>1. version' = version /\ shown'[g] = 0 /\ calls'[g] = <<>>
            BY <1>6, <2>2 DEF SwitchTab
        <3>2. DOMAIN calls'[g] = {} /\ Len(calls'[g]) = 0
            BY <3>1
        <3> QED
            BY <1>t, <3>1, <3>2 DEF InOrder
    <2> QED
        BY <2>1, <2>2
<1>7. ASSUME NEW v \in Vessel, Select(v)
      PROVE  UNCHANGED <<version, feeds>>
    BY <1>7 DEF Select
<1>8. ASSUME NEW i \in DOMAIN selects, Selected(i) \/ SelectedError(i)
      PROVE  UNCHANGED <<version, feeds>>
    BY <1>8 DEF Selected, SelectedError
<1>9. ASSUME StyleLoads \/ ImageLoads \/ Deselect \/ UNCHANGED vars
      PROVE  UNCHANGED <<version, feeds>>
    BY <1>9 DEF StyleLoads, ImageLoads, Deselect, vars
<1> QED
    BY <1>1, <1>2, <1>3, <1>4, <1>5, <1>6, <1>7, <1>8, <1>9 DEF Next, Settle, Finish

-----------------------------------------------------------------------------
(* Theorems                                                                *)

LEMMA InitInvariant == Init => IInv
<1> SUFFICES ASSUME Init PROVE IInv
    OBVIOUS
<1>1. TypeOK /\ MapCurrent
    BY InitTyped
<1>2. SelectionInOrder /\ SelectionShown
    BY DEF Init, SelectionInOrder, SelectionShown
<1>3. FeedInOrder
    <2> SUFFICES ASSUME NEW f \in Feed
                 PROVE  InOrder(f)
        BY DEF FeedInOrder, InOrder
    <2>1. shown[f] = 0 /\ version = 1 /\ calls[f] = <<>>
        BY DEF Init
    <2>2. DOMAIN calls[f] = {} /\ Len(calls[f]) = 0
        BY <2>1
    <2> QED
        BY <2>1, <2>2 DEF InOrder
<1> QED
    BY <1>1, <1>2, <1>3 DEF IInv

LEMMA StepInvariant == IInv /\ [Next]_vars => IInv'
    BY TypeStep, SelectionStep, FeedStep DEF IInv

\* The dashboard's requests, selection and map agree in every reachable state.
THEOREM Invariance == Spec => []IInv
    BY InitInvariant, StepInvariant, PTL DEF Spec

\* Every variable keeps its type; a map exists only in the live tab.
THEOREM TypeCorrect == Spec => []TypeOK
<1>1. IInv => TypeOK
    BY DEF IInv
<1> QED
    BY <1>1, Invariance, PTL

\* A map that has loaded draws what the application holds.
THEOREM MapIsCurrent == Spec => []MapCurrent
<1>1. IInv => MapCurrent
    BY DEF IInv
<1> QED
    BY <1>1, Invariance, PTL

\* When the selections have finished and did not overlap, panel and map show the
\* selected vessel.
THEOREM ShowsSelection == Spec => []SelectionShown
<1>1. IInv => SelectionShown
    BY DEF IInv
<1> QED
    BY <1>1, Invariance, PTL

\* A feed is replaced by something older only if its requests overlapped.
THEOREM GoesForward == Spec => NeverOlder
<1> DEFINE Forward == \A f \in Feed :
        shown'[f] < shown[f] => f \in overlapped \/ (f \in Section /\ tab' # tab)
<1>1. IInv /\ [Next]_vars => [Forward]_vars
    <2> SUFFICES ASSUME IInv, [Next]_vars, NEW g \in Feed, g \notin overlapped,
                        ~(g \in Section /\ tab' # tab)
                 PROVE  ~(shown'[g] < shown[g])
        OBVIOUS
    <2>t. TypeOK /\ InOrder(g) /\ shown[g] \in Nat
        BY DEF IInv, TypeOK, FeedInOrder, InOrder
    <2>1. CASE shown'[g] = shown[g]
        BY <2>1, <2>t
    <2>2. ASSUME NEW f \in Feed, NEW i \in DOMAIN calls[f], Answer(f, i)
          PROVE  ~(shown'[g] < shown[g])
        <3>1. CASE f # g
            BY <2>2, <2>t, <3>1 DEF Answer, TypeOK
        <3>2. CASE f = g
            <4>1. shown'[g] = calls[g][i].got /\ calls[g][i].got > 0
                BY <2>2, <2>t, <3>2 DEF Answer, TypeOK
            <4>2. calls[g][i].got >= shown[g]
                BY <2>2, <2>t, <3>2, <4>1 DEF InOrder
            <4>3. calls[g][i].got \in Nat
                BY <2>t, <2>2, <3>2, CallsTyped DEF Call
            <4> QED
                BY <2>t, <4>1, <4>2, <4>3
        <3> QED
            BY <3>1, <3>2
    <2>3. CASE SwitchTab
        <3>1. tab' # tab
            BY <2>3 DEF SwitchTab
        <3>2. g = Fleet
            BY <3>1 DEF Section
        <3> QED
            BY <2>1, <2>3, <3>2 DEF SwitchTab
    <2>4. ASSUME NEW f \in Feed, NEW i \in DOMAIN calls[f],
                 Query(f, i) \/ QueryFails(f, i) \/ AnswerError(f, i)
          PROVE  shown' = shown
        BY <2>4 DEF Query, QueryFails, AnswerError
    <2>5. ASSUME NEW f \in Feed, Poll(f)
          PROVE  shown' = shown
        BY <2>5 DEF Poll
    <2>6. ASSUME NEW v \in Vessel, Select(v)
          PROVE  shown' = shown
        BY <2>6 DEF Select, feeds
    <2>7. ASSUME NEW i \in DOMAIN selects, Selected(i) \/ SelectedError(i)
          PROVE  shown' = shown
        BY <2>7 DEF Selected, SelectedError, feeds
    <2>8. ASSUME Write \/ StyleLoads \/ ImageLoads \/ Deselect \/ UNCHANGED vars
          PROVE  shown' = shown
        BY <2>8 DEF Write, StyleLoads, ImageLoads, Deselect, vars, feeds
    <2> QED
        BY <2>1, <2>2, <2>3, <2>4, <2>5, <2>6, <2>7, <2>8 DEF Next, Settle, Finish
<1>2. Spec => [][Forward]_vars
    BY <1>1, Invariance, PTL DEF Spec
<1> QED
    BY <1>2 DEF NeverOlder
=============================================================================
