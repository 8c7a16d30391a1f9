----------------------------- MODULE Dashboard -----------------------------
(***************************************************************************)
(* The dashboard in the browser: feeds that are polled on a timer whether  *)
(* or not the last answer has come, the selection of a vessel with its two *)
(* requests, and the map, which is created with its tab and loads while    *)
(* answers arrive.  The API answers each request from the database as it   *)
(* is when the query runs; answers overtake each other.                    *)
(*                                                                         *)
(* A step is one callback of the browser with the render and the effects   *)
(* that follow it, or one query of the API.  The contents of an answer are *)
(* the version of the database it was read from.                           *)
(***************************************************************************)
EXTENDS Integers, Sequences, SequencesExt

CONSTANTS Feed,         \* what is polled: the fleet and the sections of Intelligence
          Fleet,        \* getVessels, polled in both tabs
          Vessel,
          None,         \* no vessel
          MaxVersion,   \* bound: versions of the database
          MaxPending,   \* bound: MaxPending[f] requests of f under way
          MaxSelects,   \* bound: unfinished selections
          MaxFailures   \* bound: failed requests

ASSUME FeedAssumption == Fleet \in Feed
ASSUME VesselAssumption == None \notin Vessel
ASSUME BoundAssumption == /\ MaxVersion \in Nat /\ MaxPending \in [Feed -> Nat]
                          /\ MaxSelects \in Nat /\ MaxFailures \in Nat

Section == Feed \ {Fleet}

VARIABLES
    version,    \* of the database
    failures,   \* failed requests so far
    tab,        \* "live" or "intel"
    \* the feeds
    shown,      \* shown[f]: the version on the screen, 0 before the first
    bad,        \* the feeds that show an error
    calls,      \* calls[f]: the requests under way, in the order they were sent
    overlapped, \* history: feeds with a request sent before the last was settled
    \* the selection
    selected, detail, track,
    selects,    \* the vessels of the calls of handleSelect that have not finished
    raced,      \* history: a selection made before the last one had finished
    \* the map
    map,        \* where it is with loading
    source,     \* what it draws: the fleet and the selected marker
    line        \* the track it draws

feeds == <<shown, bad, calls, overlapped>>
selection == <<selected, detail, track, selects, raced>>
mapVars == <<map, source, line>>
vars == <<version, failures, tab, feeds, selection, mapVars>>

(***************************************************************************)
(* A request is unanswered, or answered with a version; 0 is an error.     *)
(***************************************************************************)
Call == [done : BOOLEAN, got : Nat]
Unanswered == [done |-> FALSE, got |-> 0]

VesselOrNone == Vessel \union {None}

TypeOK == /\ version \in Nat \ {0}
          /\ failures \in Nat
          /\ tab \in {"live", "intel"}
          /\ shown \in [Feed -> Nat]
          /\ bad \in SUBSET Feed
          /\ calls \in [Feed -> Seq(Call)]
          /\ overlapped \in SUBSET Feed
          /\ selected \in VesselOrNone
          /\ detail \in VesselOrNone
          /\ track \in VesselOrNone
          /\ selects \in Seq(Vessel)
          /\ raced \in BOOLEAN
          /\ map \in IF tab = "live" THEN {"style", "image", "ready"} ELSE {"none"}
          /\ source \in [fleet : Nat, selected : VesselOrNone]
          /\ line \in VesselOrNone

Init == /\ version = 1 /\ failures = 0
        /\ tab = "live"
        /\ shown = [f \in Feed |-> 0] /\ bad = {}
        /\ calls = [f \in Feed |-> <<>>] /\ overlapped = {}
        /\ selected = None /\ detail = None /\ track = None
        /\ selects = <<>> /\ raced = FALSE
        /\ map = "style"
        /\ source = [fleet |-> 0, selected |-> None] /\ line = None

\* The pipeline commits; the API's next query sees it.
Write == /\ version < MaxVersion
         /\ version' = version + 1
         /\ UNCHANGED <<failures, tab, feeds, selection, mapVars>>

\* One more failure: no answer, or a 503 or 404 of the API.
Fails == /\ failures < MaxFailures
         /\ failures' = failures + 1

-----------------------------------------------------------------------------
(* The map                                                                 *)

\* The effects of VesselMap after a render: they reach a map that is ready.
Drawn == IF map = "ready"
         THEN /\ source' = [fleet |-> shown'[Fleet], selected |-> selected']
              /\ line' = track'
         ELSE UNCHANGED <<source, line>>

StyleLoads == /\ map = "style"
              /\ map' = "image"
              /\ UNCHANGED <<version, failures, tab, feeds, selection, source, line>>

\* Seeded fault: the sources are empty until the next change.
ImageLoadsEmpty ==
    /\ map = "image"
    /\ map' = "ready"
    /\ source' = [fleet |-> 0, selected |-> None]
    /\ line' = None
    /\ UNCHANGED <<version, failures, tab, feeds, selection>>

\* The sources are created from what the last render left in dataRef.
ImageLoads ==
    /\ map = "image"
    /\ map' = "ready"
    /\ source' = [fleet |-> shown[Fleet], selected |-> selected]
    /\ line' = track
    /\ UNCHANGED <<version, failures, tab, feeds, selection>>

-----------------------------------------------------------------------------
(* The feeds                                                               *)

Mounted(f) == f = Fleet \/ tab = "intel"

\* tick: at mount and then by setInterval, without regard to the last request.
Poll(f) ==
    /\ Mounted(f)
    /\ Len(calls[f]) < MaxPending[f]
    /\ calls' = [calls EXCEPT ![f] = Append(@, Unanswered)]
    /\ overlapped' = IF calls[f] = <<>> THEN overlapped \ {f} ELSE overlapped \union {f}
    /\ UNCHANGED <<version, failures, tab, shown, bad, selection, mapVars>>

Query(f, i) ==
    /\ ~calls[f][i].done
    /\ calls' = [calls EXCEPT ![f][i] = [done |-> TRUE, got |-> version]]
    /\ UNCHANGED <<version, failures, tab, shown, bad, overlapped, selection, mapVars>>

QueryFails(f, i) ==
    /\ ~calls[f][i].done
    /\ Fails
    /\ calls' = [calls EXCEPT ![f][i] = [done |-> TRUE, got |-> 0]]
    /\ UNCHANGED <<version, tab, shown, bad, overlapped, selection, mapVars>>

\* Seeded fault: the error stays on the screen.
AnswerKeepsError(f, i) ==
    /\ calls[f][i].done /\ calls[f][i].got > 0
    /\ calls' = [calls EXCEPT ![f] = RemoveAt(@, i)]
    /\ shown' = [shown EXCEPT ![f] = calls[f][i].got]
    /\ UNCHANGED <<version, failures, tab, bad, overlapped, selection, map>>
    /\ Drawn

Answer(f, i) ==
    /\ calls[f][i].done /\ calls[f][i].got > 0
    /\ calls' = [calls EXCEPT ![f] = RemoveAt(@, i)]
    /\ shown' = [shown EXCEPT ![f] = calls[f][i].got]
    /\ bad' = bad \ {f}
    /\ UNCHANGED <<version, failures, tab, overlapped, selection, map>>
    /\ Drawn

\* Seeded fault: an error empties the screen.
AnswerErrorBlanks(f, i) ==
    /\ calls[f][i].done /\ calls[f][i].got = 0
    /\ calls' = [calls EXCEPT ![f] = RemoveAt(@, i)]
    /\ shown' = [shown EXCEPT ![f] = 0]
    /\ bad' = bad \union {f}
    /\ UNCHANGED <<version, failures, tab, overlapped, selection, map>>
    /\ Drawn

AnswerError(f, i) ==
    /\ calls[f][i].done /\ calls[f][i].got = 0
    /\ calls' = [calls EXCEPT ![f] = RemoveAt(@, i)]
    /\ bad' = bad \union {f}
    /\ UNCHANGED <<version, failures, tab, shown, overlapped, selection, mapVars>>

\* The live map and the Intelligence hook exist only in their tab; what they
\* held is gone, and answers to the hook's requests are ignored.
SwitchTab ==
    /\ tab' = IF tab = "live" THEN "intel" ELSE "live"
    /\ map' = IF tab = "live" THEN "none" ELSE "style"
    /\ shown' = [f \in Feed |-> IF f = Fleet THEN shown[f] ELSE 0]
    /\ bad' = bad \intersect {Fleet}
    /\ calls' = [f \in Feed |-> IF f = Fleet THEN calls[f] ELSE <<>>]
    /\ source' = [fleet |-> 0, selected |-> None] /\ line' = None
    /\ UNCHANGED <<version, failures, overlapped, selection>>

-----------------------------------------------------------------------------
(* handleSelect                                                            *)

\* A click on a marker.  The detail of the last vessel stays for now.
Select(v) ==
    /\ map = "ready" /\ source.fleet > 0
    /\ Len(selects) < MaxSelects
    /\ selected' = v
    /\ selects' = Append(selects, v)
    /\ raced' = (selects # <<>>)
    /\ UNCHANGED <<version, failures, tab, feeds, detail, track, map>>
    /\ Drawn

\* A click beside the markers, or the panel is closed.
Deselect ==
    /\ tab = "live"
    /\ map = "ready" \/ selected # None
    /\ selected' = None /\ detail' = None /\ track' = None
    /\ raced' = (selects # <<>>)
    /\ UNCHANGED <<version, failures, tab, feeds, selects, map>>
    /\ Drawn

\* Promise.all: both requests are answered.
Selected(i) ==
    /\ detail' = selects[i]
    /\ track' = selects[i]
    /\ selects' = RemoveAt(selects, i)
    /\ UNCHANGED <<version, failures, tab, feeds, selected, raced, map>>
    /\ Drawn

\* Seeded fault: what was shown before stays.
SelectedErrorKeeps(i) ==
    /\ Fails
    /\ selects' = RemoveAt(selects, i)
    /\ UNCHANGED <<version, tab, feeds, selected, detail, track, raced, map>>
    /\ Drawn

\* One of them fails; the other is not waited for.
SelectedError(i) ==
    /\ Fails
    /\ detail' = None
    /\ track' = None
    /\ selects' = RemoveAt(selects, i)
    /\ UNCHANGED <<version, tab, feeds, selected, raced, map>>
    /\ Drawn

Settle(f) == \E i \in DOMAIN calls[f] : Query(f, i) \/ Answer(f, i) \/ AnswerError(f, i)
Finish == \E i \in DOMAIN selects : Selected(i) \/ SelectedError(i)

Next == \/ Write
        \/ StyleLoads \/ ImageLoads
        \/ \E f \in Feed : Poll(f) \/ Settle(f)
        \/ \E f \in Feed : \E i \in DOMAIN calls[f] : QueryFails(f, i)
        \/ SwitchTab
        \/ \E v \in Vessel : Select(v)
        \/ Deselect
        \/ Finish

Spec == Init /\ [][Next]_vars
FairSpec == /\ Spec
            /\ \A f \in Feed : WF_vars(Poll(f)) /\ WF_vars(Settle(f))
            /\ WF_vars(Finish)

-----------------------------------------------------------------------------
(* Properties                                                              *)

\* A map that has loaded draws what the application holds, whatever changed
\* while it was loading or while it did not exist (VesselMap.jsx:76-84, 97-161
\* and 188-196).
MapCurrent ==
    map = "ready" => /\ source = [fleet |-> shown[Fleet], selected |-> selected]
                     /\ line = track

\* Once selections have finished, panel and map show the selected vessel, or
\* no more than its marker, and detail and track come together; unless one was
\* made before the last had finished (App.jsx:39-55).
SelectionShown ==
    (selects = <<>> /\ ~raced) => /\ detail \in {None, selected}
                                  /\ track = detail

\* Both answers of a selection are stored together, and one that did not
\* overlap is of the vessel that is selected.
SelectionInOrder ==
    /\ track = detail
    /\ ~raced => /\ Len(selects) <= 1
                 /\ selects # <<>> => selects[1] = selected

\* Nothing is newer than the database, and the only request of a feed was
\* answered from a version no older than the one shown.
FeedInOrder ==
    \A f \in Feed :
        /\ shown[f] <= version
        /\ \A i \in DOMAIN calls[f] : calls[f][i].got <= version
        /\ f \notin overlapped =>
              /\ Len(calls[f]) <= 1
              /\ \A i \in DOMAIN calls[f] : calls[f][i].got > 0 => calls[f][i].got >= shown[f]

\* The inductive invariant of the three properties around it.
IInv == TypeOK /\ MapCurrent /\ SelectionInOrder /\ SelectionShown /\ FeedInOrder

\* What a feed shows is never replaced by something older, unless two of its
\* requests were under way at a time (App.jsx:18-37, Intelligence.jsx:33-59).
NeverOlder ==
    [][\A f \in Feed : shown'[f] < shown[f] =>
             f \in overlapped \/ (f \in Section /\ tab' # tab)]_vars

\* An error does not stay on the screen when the API answers again.
ErrorsClear == \A f \in Feed : []<>(f \notin bad)
=============================================================================
