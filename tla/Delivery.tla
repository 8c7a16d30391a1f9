------------------------------ MODULE Delivery ------------------------------
(***************************************************************************)
(* What a consumer group of the topic ais.raw promises to the rest of the  *)
(* pipeline, whatever it does with the events: at-least-once delivery      *)
(* (README.md, "Key design properties").  Events are appended to           *)
(* partitioned logs; the consumer disposes of events (a row, an object, a  *)
(* dead-letter message, a deliberate skip); and the group's committed      *)
(* offset never moves past a record whose event is not disposed of.        *)
(* StreamProcessor and RawSink are the detailed consumers.                 *)
(***************************************************************************)
EXTENDS Naturals, Sequences

CONSTANTS Partition,    \* partitions of the topic
          Event         \* the events that may be produced

VARIABLES log,          \* log[p]: the records of partition p, never rewritten
          handled,      \* the events the consumer has disposed of
          committed     \* committed[p]: records of p the group will not see again

deliveryVars == <<log, handled, committed>>

Init == /\ log = [p \in Partition |-> <<>>]
        /\ handled = {}
        /\ committed = [p \in Partition |-> 0]

Produce(p, e) == /\ log' = [log EXCEPT ![p] = Append(@, e)]
                 /\ UNCHANGED <<handled, committed>>

\* Events can only be disposed of once they are in a log.
Logged == {e \in Event : \E p \in Partition : \E i \in 1..Len(log[p]) : log[p][i] = e}

Handle == /\ handled \subseteq handled'
          /\ handled' \subseteq handled \union Logged
          /\ UNCHANGED <<log, committed>>

\* Offsets only grow, and only over records whose event is disposed of.
Acknowledge ==
    /\ committed' \in [Partition -> Nat]
    /\ \A p \in Partition :
          /\ committed[p] =< committed'[p]
          /\ committed'[p] =< Len(log[p])
          /\ \A i \in (committed[p] + 1)..committed'[p] : log[p][i] \in handled
    /\ UNCHANGED <<log, handled>>

Next == \/ \E p \in Partition, e \in Event : Produce(p, e)
        \/ Handle
        \/ Acknowledge

Spec == Init /\ [][Next]_deliveryVars
=============================================================================
