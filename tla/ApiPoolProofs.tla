-------------------------- MODULE ApiPoolProofs --------------------------
(***************************************************************************)
(* The connection pool keeps its inductive invariant: no connection has    *)
(* two holders, slots are lost only with broken connections, and the API   *)
(* stays within maxconn unless two handlers cross, for any number of       *)
(* threads, connections and outages.                                       *)
(***************************************************************************)
EXTENDS ApiPool, FiniteSetTheorems, TLAPS

USE NoneAssumption

\* Nobody refers to anything when the API starts (db.py:5).
LEMMA InitInv == Init => IInv
<1> USE DEF Init
<1>1. Init => TypeOK
    <2> SUFFICES ASSUME Init PROVE TypeOK
        OBVIOUS
    <2>1. "idle" \in Place /\ 0 \in 0..MaxOutages
        BY SizeAssumption DEF Place
    <2> QED
        BY <2>1 DEF TypeOK
<1>2. Init => Live = {}
    BY DEF Live
<1> QED
    BY <1>1, <1>2 DEF IInv, PlacesOK, CreatorsOK, SlotsOK, KeysOK, OneHolder, SlotsReturned,
        Holding, Recorded

-----------------------------------------------------------------------------
(* A step of a handler                                                     *)

\* A connection that is not open is in no place.
LEMMA NotOpen ==
    ASSUME TypeOK, NEW c \in Conn, c \notin Open
    PROVE  /\ \A p \in Live : c \notin idle[p] \union lost[p]
           /\ \A t \in Thread : conn[t] # c
    BY DEF Open

\* A request refers to _pool at most (db.py:10).
LEMMA ArriveInv == ASSUME IInv, NEW t \in Thread, Arrive(t) PROVE IInv'
<1> USE DEF IInv, TypeOK, PlacesOK, Holding, Arrive, Goes, Leaves, server
<1>1. TypeOK'
    BY DEF Place
<1>2. PlacesOK'
    BY <1>1
<1>3. CreatorsOK'
    BY <1>1, <1>2 DEF CreatorsOK, Live
<1>4. SlotsOK'
    BY <1>1, <1>2 DEF SlotsOK, Live
<1>5. KeysOK'
    BY <1>1, <1>2 DEF KeysOK, Recorded, OneHolder
<1>6. OneHolder'
    BY <1>1, <1>2 DEF OneHolder, Live, SlotsOK
<1>7. SlotsReturned'
    BY <1>1, <1>2 DEF SlotsReturned, Live
<1> QED
    BY <1>1, <1>2, <1>3, <1>4, <1>5, <1>6, <1>7

\* A handler that could not create a pool refers to nothing any more (db.py:11).
LEMMA CreateFailsInv == ASSUME IInv, NEW t \in Thread, CreateFails(t) PROVE IInv'
<1> USE DEF IInv, TypeOK, PlacesOK, Holding, CreateFails, Goes, Leaves, server
<1>1. TypeOK'
    BY DEF Place
<1>2. PlacesOK'
    BY <1>1
<1>3. CreatorsOK'
    BY <1>1, <1>2 DEF CreatorsOK, Live
<1>4. SlotsOK'
    BY <1>1, <1>2 DEF SlotsOK, Live
<1>5. KeysOK'
    BY <1>1, <1>2 DEF KeysOK, Recorded, OneHolder
<1>6. OneHolder'
    BY <1>1, <1>2 DEF OneHolder, Live, SlotsOK
<1>7. SlotsReturned'
    BY <1>1, <1>2 DEF SlotsReturned, Live
<1> QED
    BY <1>1, <1>2, <1>3, <1>4, <1>5, <1>6, <1>7

\* Entering a connection in _used names its holder in _rused (db.py:17).
LEMMA RecordInv == ASSUME IInv, NEW t \in Thread, Record(t) PROVE IInv'
<1> USE DEF IInv, TypeOK, PlacesOK, Holding, Record, Goes, Leaves, server
<1>1. TypeOK'
    BY DEF Place
<1>2. PlacesOK'
    BY <1>1
<1>3. CreatorsOK'
    BY <1>1, <1>2 DEF CreatorsOK, Live
<1>4. SlotsOK'
    BY <1>1, <1>2 DEF SlotsOK, Live
<1>5. KeysOK'
    BY <1>1, <1>2 DEF KeysOK, Recorded, OneHolder
<1>6. OneHolder'
    BY <1>1, <1>2 DEF OneHolder, Live, SlotsOK
<1>7. SlotsReturned'
    BY <1>1, <1>2 DEF SlotsReturned, Live
<1> QED
    BY <1>1, <1>2, <1>3, <1>4, <1>5, <1>6, <1>7

\* A refused handler refers to nothing any more (db.py:17).
LEMMA ExhaustedInv == ASSUME IInv, NEW t \in Thread, Exhausted(t) PROVE IInv'
<1> USE DEF IInv, TypeOK, PlacesOK, Holding, Exhausted, Goes, Leaves, server
<1>1. TypeOK'
    BY DEF Place
<1>2. PlacesOK'
    BY <1>1
<1>3. CreatorsOK'
    BY <1>1, <1>2 DEF CreatorsOK, Live
<1>4. SlotsOK'
    BY <1>1, <1>2 DEF SlotsOK, Live
<1>5. KeysOK'
    BY <1>1, <1>2 DEF KeysOK, Recorded, OneHolder
<1>6. OneHolder'
    BY <1>1, <1>2 DEF OneHolder, Live, SlotsOK
<1>7. SlotsReturned'
    BY <1>1, <1>2 DEF SlotsReturned, Live
<1> QED
    BY <1>1, <1>2, <1>3, <1>4, <1>5, <1>6, <1>7

\* Finding room moves no connection (db.py:17).
LEMMA HasRoomInv == ASSUME IInv, NEW t \in Thread, HasRoom(t) PROVE IInv'
<1> USE DEF IInv, TypeOK, PlacesOK, Holding, HasRoom, Goes, Leaves, server
<1>1. TypeOK'
    BY DEF Place
<1>2. PlacesOK'
    BY <1>1
<1>3. CreatorsOK'
    BY <1>1, <1>2 DEF CreatorsOK, Live
<1>4. SlotsOK'
    BY <1>1, <1>2 DEF SlotsOK, Live
<1>5. KeysOK'
    BY <1>1, <1>2 DEF KeysOK, Recorded, OneHolder
<1>6. OneHolder'
    BY <1>1, <1>2 DEF OneHolder, Live, SlotsOK
<1>7. SlotsReturned'
    BY <1>1, <1>2 DEF SlotsReturned, Live
<1> QED
    BY <1>1, <1>2, <1>3, <1>4, <1>5, <1>6, <1>7

\* A handler that could not connect refers to nothing any more (db.py:17).
LEMMA ConnectFailsInv == ASSUME IInv, NEW t \in Thread, ConnectFails(t) PROVE IInv'
<1> USE DEF IInv, TypeOK, PlacesOK, Holding, ConnectFails, Goes, Leaves, server
<1>1. TypeOK'
    BY DEF Place
<1>2. PlacesOK'
    BY <1>1
<1>3. CreatorsOK'
    BY <1>1, <1>2 DEF CreatorsOK, Live
<1>4. SlotsOK'
    BY <1>1, <1>2 DEF SlotsOK, Live
<1>5. KeysOK'
    BY <1>1, <1>2 DEF KeysOK, Recorded, OneHolder
<1>6. OneHolder'
    BY <1>1, <1>2 DEF OneHolder, Live, SlotsOK
<1>7. SlotsReturned'
    BY <1>1, <1>2 DEF SlotsReturned, Live
<1> QED
    BY <1>1, <1>2, <1>3, <1>4, <1>5, <1>6, <1>7

\* A query leaves its connection where it is (db.py:19-21).
LEMMA QueryOkInv == ASSUME IInv, NEW t \in Thread, QueryOk(t) PROVE IInv'
<1> USE DEF IInv, TypeOK, PlacesOK, Holding, QueryOk, Goes, Leaves, server
<1>1. TypeOK'
    BY DEF Place
<1>2. PlacesOK'
    BY <1>1
<1>3. CreatorsOK'
    BY <1>1, <1>2 DEF CreatorsOK, Live
<1>4. SlotsOK'
    BY <1>1, <1>2 DEF SlotsOK, Live
<1>5. KeysOK'
    BY <1>1, <1>2 DEF KeysOK, Recorded, OneHolder
<1>6. OneHolder'
    BY <1>1, <1>2 DEF OneHolder, Live, SlotsOK
<1>7. SlotsReturned'
    BY <1>1, <1>2 DEF SlotsReturned, Live
<1> QED
    BY <1>1, <1>2, <1>3, <1>4, <1>5, <1>6, <1>7

\* A failing query leaves its connection where it is (db.py:22).
LEMMA QueryFailsInv == ASSUME IInv, NEW t \in Thread, QueryFails(t) PROVE IInv'
<1> USE DEF IInv, TypeOK, PlacesOK, Holding, QueryFails, Goes, Leaves, server
<1>1. TypeOK'
    BY DEF Place
<1>2. PlacesOK'
    BY <1>1
<1>3. CreatorsOK'
    BY <1>1, <1>2 DEF CreatorsOK, Live
<1>4. SlotsOK'
    BY <1>1, <1>2 DEF SlotsOK, Live
<1>5. KeysOK'
    BY <1>1, <1>2 DEF KeysOK, Recorded, OneHolder
<1>6. OneHolder'
    BY <1>1, <1>2 DEF OneHolder, Live, SlotsOK
<1>7. SlotsReturned'
    BY <1>1, <1>2 DEF SlotsReturned, Live
<1> QED
    BY <1>1, <1>2, <1>3, <1>4, <1>5, <1>6, <1>7

\* A connection _rused has forgotten stays in _used (db.py:23, 27).
LEMMA PutUnkeyedInv == ASSUME IInv, NEW t \in Thread, PutUnkeyed(t) PROVE IInv'
<1> USE DEF IInv, TypeOK, PlacesOK, Holding, PutUnkeyed, Goes, Leaves, server, Loses
<1>0. my[t] \in Live /\ conn[t] \in Conn /\ pc[t] \in Holding
    BY DEF Live
<1>1. TypeOK'
    BY DEF Place
<1>2. PlacesOK'
    BY <1>1
<1>3. CreatorsOK'
    BY <1>1, <1>2 DEF CreatorsOK, Live
<1>4. SlotsOK'
    BY <1>0, <1>1, <1>2 DEF SlotsOK, Live, OneHolder
<1>5. KeysOK'
    BY <1>1, <1>2 DEF KeysOK, Recorded, OneHolder
<1>6. OneHolder'
    BY <1>1, <1>2 DEF OneHolder, Live, SlotsOK
<1>7. SlotsReturned'
    <2>1. snatched
        BY <1>0 DEF KeysOK, Recorded
    <2> QED
        BY <2>1 DEF SlotsReturned
<1> QED
    BY <1>1, <1>2, <1>3, <1>4, <1>5, <1>6, <1>7

\* A closed connection is nowhere (db.py:23, 27).
LEMMA DiscardInv == ASSUME IInv, NEW t \in Thread, Discard(t) PROVE IInv'
<1> USE DEF IInv, TypeOK, PlacesOK, Holding, Discard, Goes, Leaves, server
<1>1. TypeOK'
    BY DEF Place
<1>2. PlacesOK'
    BY <1>1
<1>3. CreatorsOK'
    BY <1>1, <1>2 DEF CreatorsOK, Live
<1>4. SlotsOK'
    BY <1>1, <1>2 DEF SlotsOK, Live
<1>5. KeysOK'
    BY <1>1, <1>2 DEF KeysOK, Recorded, OneHolder
<1>6. OneHolder'
    BY <1>1, <1>2 DEF OneHolder, Live, SlotsOK
<1>7. SlotsReturned'
    BY <1>1, <1>2 DEF SlotsReturned, Live
<1> QED
    BY <1>1, <1>2, <1>3, <1>4, <1>5, <1>6, <1>7

\* Deciding to keep a connection does not move it (db.py:27).
LEMMA KeepInv == ASSUME IInv, NEW t \in Thread, Keep(t) PROVE IInv'
<1> USE DEF IInv, TypeOK, PlacesOK, Holding, Keep, Goes, Leaves, server
<1>1. TypeOK'
    BY DEF Place
<1>2. PlacesOK'
    BY <1>1
<1>3. CreatorsOK'
    BY <1>1, <1>2 DEF CreatorsOK, Live
<1>4. SlotsOK'
    BY <1>1, <1>2 DEF SlotsOK, Live
<1>5. KeysOK'
    BY <1>1, <1>2 DEF KeysOK, Recorded, OneHolder
<1>6. OneHolder'
    BY <1>1, <1>2 DEF OneHolder, Live, SlotsOK
<1>7. SlotsReturned'
    BY <1>1, <1>2 DEF SlotsReturned, Live
<1> QED
    BY <1>1, <1>2, <1>3, <1>4, <1>5, <1>6, <1>7

\* A returned connection goes from its holder to the idle ones (db.py:27).
LEMMA RollbackInv == ASSUME IInv, NEW t \in Thread, Rollback(t) PROVE IInv'
<1> USE DEF IInv, TypeOK, PlacesOK, Holding, Rollback, Goes, Leaves, server
<1>0. my[t] \in Live /\ conn[t] \in Conn /\ pc[t] \in Holding
    BY DEF Live
<1>1. TypeOK'
    BY DEF Place
<1>2. PlacesOK'
    BY <1>1
<1>3. CreatorsOK'
    BY <1>1, <1>2 DEF CreatorsOK, Live
<1>4. SlotsOK'
    BY <1>0, <1>1, <1>2 DEF SlotsOK, Live, OneHolder
<1>5. KeysOK'
    BY <1>1, <1>2 DEF KeysOK, Recorded, OneHolder
<1>6. OneHolder'
    BY <1>1, <1>2 DEF OneHolder, Live, SlotsOK
<1>7. SlotsReturned'
    BY <1>1, <1>2 DEF SlotsReturned, Live
<1> QED
    BY <1>1, <1>2, <1>3, <1>4, <1>5, <1>6, <1>7

\* A connection that breaks while it is returned stays in _used (db.py:27).
LEMMA RollbackFailsInv == ASSUME IInv, NEW t \in Thread, RollbackFails(t) PROVE IInv'
<1> USE DEF IInv, TypeOK, PlacesOK, Holding, RollbackFails, Goes, Leaves, server, Loses
<1>0. my[t] \in Live /\ conn[t] \in Conn /\ pc[t] \in Holding
    BY DEF Live
<1>1. TypeOK'
    BY DEF Place
<1>2. PlacesOK'
    BY <1>1
<1>3. CreatorsOK'
    BY <1>1, <1>2 DEF CreatorsOK, Live
<1>4. SlotsOK'
    BY <1>0, <1>1, <1>2 DEF SlotsOK, Live, OneHolder
<1>5. KeysOK'
    BY <1>1, <1>2 DEF KeysOK, Recorded, OneHolder
<1>6. OneHolder'
    BY <1>1, <1>2 DEF OneHolder, Live, SlotsOK
<1>7. SlotsReturned'
    BY <1>1, <1>2 DEF SlotsReturned, Live
<1> QED
    BY <1>1, <1>2, <1>3, <1>4, <1>5, <1>6, <1>7

\* Deleting the entries moves no connection (db.py:27).
LEMMA ForgetInv == ASSUME IInv, NEW t \in Thread, Forget(t) PROVE IInv'
<1> USE DEF IInv, TypeOK, PlacesOK, Holding, Forget, Goes, Leaves, server
<1>1. TypeOK'
    BY DEF Place
<1>2. PlacesOK'
    BY <1>1
<1>3. CreatorsOK'
    BY <1>1, <1>2 DEF CreatorsOK, Live
<1>4. SlotsOK'
    BY <1>1, <1>2 DEF SlotsOK, Live
<1>5. KeysOK'
    BY <1>1, <1>2 DEF KeysOK, Recorded, OneHolder
<1>6. OneHolder'
    BY <1>1, <1>2 DEF OneHolder, Live, SlotsOK
<1>7. SlotsReturned'
    BY <1>1, <1>2 DEF SlotsReturned, Live
<1> QED
    BY <1>1, <1>2, <1>3, <1>4, <1>5, <1>6, <1>7

\* A new pool has the one connection nobody had (db.py:11).
LEMMA CreateInv == ASSUME IInv, NEW t \in Thread, NEW c \in Conn, Create(t, c) PROVE IInv'
<1> USE DEF IInv, TypeOK, PlacesOK, Holding, Create, Goes, Leaves, server
<1>0. (\A p \in Live : c \notin idle[p] \union lost[p]) /\ \A u \in Thread : conn[u] # c
    BY NotOpen
<1>1. TypeOK'
    BY <1>0 DEF Place
<1>2. PlacesOK'
    BY <1>0, <1>1
<1>3. CreatorsOK'
    BY <1>0, <1>1, <1>2 DEF CreatorsOK, Live
<1>4. SlotsOK'
    BY <1>0, <1>1, <1>2 DEF SlotsOK, Live, CreatorsOK
<1>5. KeysOK'
    BY <1>0, <1>1, <1>2 DEF KeysOK, Recorded, OneHolder
<1>6. OneHolder'
    BY <1>0, <1>1, <1>2 DEF OneHolder, Live, CreatorsOK
<1>7. SlotsReturned'
    BY <1>0, <1>1, <1>2 DEF SlotsReturned, Live, CreatorsOK
<1> QED
    BY <1>1, <1>2, <1>3, <1>4, <1>5, <1>6, <1>7

\* An idle connection goes to one handler (db.py:17).
LEMMA TakeInv == ASSUME IInv, NEW t \in Thread, NEW c \in Conn, Take(t, c) PROVE IInv'
<1> USE DEF IInv, TypeOK, PlacesOK, Holding, Take, Goes, Leaves, server
<1>1. TypeOK'
    BY DEF Place
<1>2. PlacesOK'
    BY <1>1
<1>3. CreatorsOK'
    BY <1>1, <1>2 DEF CreatorsOK, Live
<1>4. SlotsOK'
    BY <1>1, <1>2 DEF SlotsOK, Live
<1>5. KeysOK'
    <2> SUFFICES ASSUME ~snatched', NEW u \in Thread
                 PROVE  /\ pc'[u] \in Recorded => rused'[conn'[u]] = u \/ pc'[u] = "forget"
                        /\ pc'[u] \in Holding =>
                              \A v \in Thread : pc'[v] = "forget" => conn'[v] # conn'[u]
        BY DEF KeysOK
    <2>1. ~snatched /\ \A v \in Thread : pc[v] = "forget" => conn[v] # c
        OBVIOUS
    <2>2. \A v \in Thread \ {t} : pc'[v] = pc[v] /\ conn'[v] = conn[v]
        OBVIOUS
    <2>3. pc'[t] = "taken" /\ conn'[t] = c
        OBVIOUS
    <2> QED
        BY <2>1, <2>2, <2>3 DEF KeysOK, Recorded
<1>6. OneHolder'
    BY <1>1, <1>2 DEF OneHolder, Live, SlotsOK
<1>7. SlotsReturned'
    BY <1>1, <1>2 DEF SlotsReturned, Live
<1> QED
    BY <1>1, <1>2, <1>3, <1>4, <1>5, <1>6, <1>7

\* A new connection is one nobody had (db.py:17).
LEMMA ConnectInv == ASSUME IInv, NEW t \in Thread, NEW c \in Conn, Connect(t, c) PROVE IInv'
<1> USE DEF IInv, TypeOK, PlacesOK, Holding, Connect, Goes, Leaves, server
<1>0. (\A p \in Live : c \notin idle[p] \union lost[p]) /\ \A u \in Thread : conn[u] # c
    BY NotOpen
<1>1. TypeOK'
    BY <1>0 DEF Place
<1>2. PlacesOK'
    BY <1>0, <1>1
<1>3. CreatorsOK'
    BY <1>0, <1>1, <1>2 DEF CreatorsOK, Live
<1>4. SlotsOK'
    BY <1>0, <1>1, <1>2 DEF SlotsOK, Live
<1>5. KeysOK'
    BY <1>0, <1>1, <1>2 DEF KeysOK, Recorded, OneHolder
<1>6. OneHolder'
    BY <1>0, <1>1, <1>2 DEF OneHolder, Live, SlotsOK
<1>7. SlotsReturned'
    BY <1>0, <1>1, <1>2 DEF SlotsReturned, Live
<1> QED
    BY <1>1, <1>2, <1>3, <1>4, <1>5, <1>6, <1>7

-----------------------------------------------------------------------------
(* The invariant                                                           *)

\* PostgreSQL breaks connections, which moves none (db.py:17).
LEMMA OutageInv == ASSUME IInv, Outage PROVE IInv'
<1> USE DEF IInv, TypeOK, Outage
<1>1. TypeOK'
    BY SizeAssumption DEF Open
<1>2. Live' = Live
    BY DEF Live
<1>3. ASSUME NEW p \in Live PROVE lost[p] \subseteq Open
    <2>1. lost[p] \subseteq Conn
        BY DEF Live
    <2> QED
        BY <2>1 DEF Open
<1> QED
    BY <1>1, <1>2, <1>3 DEF PlacesOK, CreatorsOK, SlotsOK, KeysOK, OneHolder, SlotsReturned

\* A step of a handler keeps the invariant.
LEMMA FetchInv == ASSUME IInv, NEW t \in Thread, Fetch(t) PROVE IInv'
    BY ArriveInv, CreateFailsInv, RecordInv, ExhaustedInv, HasRoomInv, ConnectFailsInv,
       QueryOkInv, QueryFailsInv, PutUnkeyedInv, DiscardInv, KeepInv, RollbackInv,
       RollbackFailsInv, ForgetInv, CreateInv, TakeInv, ConnectInv DEF Fetch

\* Leaving everything as it is keeps the invariant.
LEMMA StutterInv == ASSUME IInv, UNCHANGED vars PROVE IInv'
<1> USE DEF vars, server
<1>1. Live' = Live
    BY DEF Live
<1> QED
    BY <1>1 DEF IInv, TypeOK, PlacesOK, CreatorsOK, SlotsOK, KeysOK, OneHolder, SlotsReturned

\* The invariant holds of every behaviour of the pool.
THEOREM Invariance == Spec => []IInv
<1>1. IInv /\ [Next]_vars => IInv'
    BY OutageInv, FetchInv, StutterInv DEF Next
<1> QED
    BY InitInv, <1>1, PTL DEF Spec

\* A connection serves one handler at a time, for any number of threads and
\* whatever their interleaving (db.py:15-27).
THEOREM ConnectionsHaveOneHolder == Spec => []OneHolder
<1>1. IInv => OneHolder
    BY DEF IInv
<1> QED
    BY Invariance, <1>1, PTL

\* A slot of the pool is lost only with a connection that the server broke or
\* after a connection was handed out early (db.py:22-27).
THEOREM SlotsComeBack == Spec => []SlotsReturned
<1>1. IInv => SlotsReturned
    BY DEF IInv
<1> QED
    BY Invariance, <1>1, PTL

-----------------------------------------------------------------------------
(* The limit on connections                                                *)

\* Handlers about to open a connection.
Connecting == {t \in Thread : pc[t] \in {"create", "connect"}}

\* What CapKept counts.
Capped == Cardinality(Open) + Cardinality(Connecting) <= MaxConn

\* At most one thread creates a pool, and only when there is none.
SoleCreator == \A t \in Thread : pc[t] = "create" =>
                  pool = NoThread /\ \A u \in Thread : pc[u] = "create" => u = t

\* Every handler uses the pool in _pool.
OnePool == \A t \in Thread : my[t] \in {pool, NoThread}

\* A connection whose return is not over yet is still idle.
ForgottenIdle == \A t \in Thread : pc[t] = "forget" => conn[t] \in idle[my[t]]

\* What CapKept needs to be inductive, beside IInv.
CapInv == crossed \/ snatched \/ (SoleCreator /\ OnePool /\ ForgottenIdle /\ Capped)

\* The connections and the handlers about to open one are finitely many.
LEMMA OpenFinite ==
    /\ IsFiniteSet(Open) /\ IsFiniteSet(Connecting)
    /\ Cardinality(Open) \in Nat /\ Cardinality(Connecting) \in Nat
<1>1. Open \subseteq Conn /\ Connecting \subseteq Thread
    BY DEF Open, Connecting
<1> QED
    BY <1>1, FS_Subset, FS_CardinalityType, SizeAssumption

\* A step that opens no connection and lets no further handler set out to open
\* one stays within the limit (db.py:17-27).
LEMMA NoneOpened ==
    ASSUME Capped, Open' \subseteq Open, Connecting' \subseteq Connecting
    PROVE  Capped'
<1>1. Cardinality(Open') <= Cardinality(Open) /\ Cardinality(Open') \in Nat
    BY OpenFinite, FS_Subset, FS_CardinalityType
<1>2. /\ Cardinality(Connecting') <= Cardinality(Connecting)
      /\ Cardinality(Connecting') \in Nat
    BY OpenFinite, FS_Subset, FS_CardinalityType
<1> QED
    BY <1>1, <1>2, OpenFinite, SizeAssumption DEF Capped

\* As long as there is no pool, nobody has a connection (db.py:5-11).
LEMMA NothingYet ==
    ASSUME IInv, pool = NoThread
    PROVE  Open = {} /\ Connecting = {t \in Thread : pc[t] = "create"}
<1> USE DEF IInv
<1>1. Live = {}
    BY DEF CreatorsOK
<1>2. \A t \in Thread : my[t] = NoThread
    BY <1>1 DEF Live, TypeOK
<1>3. \A t \in Thread : pc[t] \in {"idle", "create"} /\ conn[t] = NoConn
    BY <1>2 DEF PlacesOK, TypeOK, Holding
<1>4. Open = {}
    BY <1>1, <1>3 DEF Open
<1> QED
    BY <1>3, <1>4 DEF Connecting

\* With one pool in use, nothing idle and nobody between popping a connection
\* and entering it, _used counts every connection there is (db.py:17).
LEMMA UsedCountsAll ==
    ASSUME IInv, ForgottenIdle, OnePool, pool \in Thread, idle[pool] = {},
           At(pool, {"taken", "connect"}) = {}
    PROVE  Cardinality(Open) = Used(pool)
<1> USE DEF IInv
<1> DEFINE H == At(pool, Recorded)
           C == {conn[u] : u \in H}
<1>1. Live = {pool}
    BY DEF Live, OnePool, TypeOK
<1>2. \A u \in Thread : pc[u] # "forget"
    BY DEF ForgottenIdle, OnePool, PlacesOK
<1>3. \A u \in H : u \in Thread /\ pc[u] \in Holding /\ conn[u] \in Conn
    BY <1>2 DEF At, Recorded, Holding, PlacesOK, TypeOK
<1>4. \A u \in Thread : conn[u] # NoConn => u \in H
    <2> SUFFICES ASSUME NEW u \in Thread, conn[u] # NoConn PROVE u \in H
        OBVIOUS
    <2>1. pc[u] \in Holding /\ my[u] = pool
        BY <1>2 DEF PlacesOK, OnePool, Holding
    <2> QED
        BY <2>1 DEF At, Recorded, Holding
<1>5. Open = C \union lost[pool]
    <2>1. lost[pool] \subseteq Conn
        BY DEF TypeOK
    <2>2. ASSUME NEW c \in Open PROVE c \in C \union lost[pool]
        BY <1>1, <1>4 DEF Open
    <2>3. ASSUME NEW c \in C \union lost[pool] PROVE c \in Open
        BY <1>1, <1>3, <2>1 DEF Open
    <2> QED
        BY <2>2, <2>3
<1>6. C \intersect lost[pool] = {}
    BY <1>1, <1>3 DEF OneHolder
<1>7. IsFiniteSet(H) /\ IsFiniteSet(C) /\ IsFiniteSet(lost[pool])
    <2>1. H \subseteq Thread /\ C \subseteq Conn /\ lost[pool] \subseteq Conn
        BY <1>3 DEF At, TypeOK
    <2> QED
        BY <2>1, FS_Subset, SizeAssumption
<1>8. Cardinality(C) = Cardinality(H)
    <2> DEFINE f == [u \in H |-> conn[u]]
    <2>1. f \in Bijection(H, C)
        <3>1. f \in Injection(H, C)
            BY <1>3 DEF Injection, IsInjective, OneHolder
        <3>2. f \in Surjection(H, C)
            BY DEF Surjection
        <3> QED
            BY <3>1, <3>2 DEF Bijection
    <2> QED
        BY ONLY <1>7, <2>1, FS_Bijection DEF ExistsBijection
<1>9. Cardinality(Open) = Cardinality(C) + Cardinality(lost[pool])
    <2>1. Cardinality(C \union lost[pool])
            = Cardinality(C) + Cardinality(lost[pool]) - Cardinality(C \intersect lost[pool])
        BY <1>7, FS_Union
    <2>2. Cardinality(C) \in Nat /\ Cardinality(lost[pool]) \in Nat
        BY <1>7, FS_CardinalityType
    <2>3. Cardinality(C \intersect lost[pool]) = 0
        BY <1>6, FS_EmptySet
    <2> QED
        BY ONLY <1>5, <2>1, <2>2, <2>3
<1> QED
    BY <1>8, <1>9 DEF Used

\* Which pools and handlers there are stays as CapInv says, unless two handlers
\* were between a check and what it guards or one took a connection before its
\* return was over (db.py:10-27).
LEMMA StepShape ==
    ASSUME IInv, IInv', SoleCreator, OnePool, ForgottenIdle, NEW t \in Thread, Fetch(t),
           ~crossed', ~snatched'
    PROVE  SoleCreator' /\ OnePool' /\ ForgottenIdle'
<1> USE DEF Goes, Leaves, server
<1>0. TypeOK /\ PlacesOK
    BY DEF IInv
<1>1. CASE Arrive(t)
    BY <1>0, <1>1 DEF Arrive, SoleCreator, OnePool, ForgottenIdle, TypeOK
<1>2. CASE \E c \in Conn : Create(t, c)
    <2>1. \A u \in Thread : my[u] = NoThread /\ pc[u] \in {"idle", "create"}
        BY <1>0, <1>2 DEF Create, SoleCreator, OnePool, PlacesOK
    <2>2. \A u \in Thread \ {t} : my'[u] = NoThread /\ pc'[u] = "idle"
        BY <1>0, <1>2, <2>1 DEF Create, SoleCreator, TypeOK
    <2>3. pool' = t /\ my'[t] = t /\ pc'[t] = "get"
        BY <1>0, <1>2 DEF Create, TypeOK
    <2> QED
        BY <2>2, <2>3 DEF SoleCreator, OnePool, ForgottenIdle
<1>3. CASE \E c \in Conn : Take(t, c)
    <2> PICK c \in Conn : Take(t, c)
        BY <1>3
    <2>1. SoleCreator' /\ OnePool'
        BY <1>0 DEF Take, SoleCreator, OnePool, TypeOK
    <2>2. ASSUME NEW u \in Thread, pc'[u] = "forget" PROVE conn'[u] \in idle'[my'[u]]
        <3>1. u # t /\ pc[u] = "forget" /\ conn'[u] = conn[u] /\ my'[u] = my[u]
            BY <1>0, <2>2 DEF Take, TypeOK
        <3>2. conn[u] # c /\ conn[u] \in idle[my[u]] /\ my[u] \in Thread
            BY <1>0, <3>1 DEF Take, ForgottenIdle, TypeOK, PlacesOK
        <3> QED
            BY <1>0, <3>1, <3>2 DEF Take, TypeOK
    <2> QED
        BY <2>1, <2>2 DEF ForgottenIdle
<1>4. CASE \E c \in Conn : Connect(t, c)
    BY <1>0, <1>4 DEF Connect, SoleCreator, OnePool, ForgottenIdle, TypeOK
<1>5. CASE Rollback(t)
    <2>1. SoleCreator' /\ OnePool'
        BY <1>0, <1>5 DEF Rollback, SoleCreator, OnePool, TypeOK
    <2>2. ASSUME NEW u \in Thread, pc'[u] = "forget" PROVE conn'[u] \in idle'[my'[u]]
        <3>1. my[u] \in Thread /\ (u = t \/ conn[u] \in idle[my[u]])
            BY <1>0, <1>5, <2>2 DEF Rollback, ForgottenIdle, TypeOK, PlacesOK, Holding
        <3> QED
            BY <1>0, <1>5, <3>1 DEF Rollback, TypeOK
    <2> QED
        BY <2>1, <2>2 DEF ForgottenIdle
<1>6. CASE CreateFails(t) \/ Exhausted(t) \/ ConnectFails(t) \/ PutUnkeyed(t) \/ Discard(t)
              \/ RollbackFails(t) \/ Forget(t)
    BY <1>0, <1>6 DEF CreateFails, Exhausted, ConnectFails, PutUnkeyed, Discard,
       RollbackFails, Forget, Loses, SoleCreator, OnePool, ForgottenIdle, TypeOK
<1>7. CASE Record(t) \/ HasRoom(t) \/ QueryOk(t) \/ QueryFails(t) \/ Keep(t)
    BY <1>0, <1>7 DEF Record, HasRoom, QueryOk, QueryFails, Keep, SoleCreator, OnePool,
       ForgottenIdle, TypeOK
<1> QED
    BY <1>1, <1>2, <1>3, <1>4, <1>5, <1>6, <1>7 DEF Fetch

\* The first handler sets out to open the first connection (db.py:10-11).
LEMMA ArriveCapped ==
    ASSUME IInv, IInv', SoleCreator', Capped, NEW t \in Thread, Arrive(t)
    PROVE  Capped'
<1> USE DEF IInv
<1>1. CASE pool = NoThread
    <2>1. Open = {} /\ Connecting = {u \in Thread : pc[u] = "create"}
        BY <1>1, NothingYet
    <2>2. Live' = Live
        BY <1>1 DEF Live, Arrive, TypeOK, PlacesOK
    <2>3. Open' = {}
        BY <2>1, <2>2 DEF Open, Arrive
    <2>4. \A u \in Thread : pc[u] # "connect"
        BY <2>1 DEF Connecting
    <2>5. Connecting' = {t}
        <3>1. pc'[t] = "create" /\ \A u \in Thread : pc'[u] # "connect"
            BY <1>1, <2>4 DEF Arrive, Goes, TypeOK
        <3> QED
            BY <3>1 DEF Connecting, SoleCreator
    <2>6. Cardinality(Open') = 0 /\ Cardinality(Connecting') = 1
        BY <2>3, <2>5, FS_EmptySet, FS_Singleton
    <2> QED
        BY <2>6, SizeAssumption DEF Capped
<1>2. CASE pool # NoThread
    <2>1. Connecting' \subseteq Connecting
        BY <1>2 DEF Connecting, Arrive, Goes, TypeOK
    <2>2. Open' \subseteq Open
        BY <1>2 DEF Open, Live, Arrive, TypeOK
    <2> QED
        BY <2>1, <2>2, NoneOpened
<1> QED
    BY <1>1, <1>2

\* The first pool has the only connection (db.py:11).
LEMMA CreateCapped ==
    ASSUME IInv, IInv', SoleCreator, NEW t \in Thread, NEW c \in Conn, Create(t, c)
    PROVE  Capped'
<1> USE DEF IInv
<1>1. pool = NoThread
    BY DEF SoleCreator, Create
<1>2. Open = {} /\ Connecting = {u \in Thread : pc[u] = "create"} /\ Connecting = {t}
    BY <1>1, NothingYet DEF SoleCreator, Create
<1>3. Connecting' = {}
    BY <1>2 DEF Connecting, Create, Goes, TypeOK
<1>4. Live = {} /\ Live' = {t} /\ \A u \in Thread : conn[u] = NoConn
    <2>1. Live = {}
        BY <1>1 DEF CreatorsOK
    <2>2. \A u \in Thread : my[u] = NoThread /\ conn[u] = NoConn
        BY <2>1 DEF Live, TypeOK, PlacesOK, Holding
    <2> QED
        BY <2>1, <2>2 DEF Live, Create, TypeOK
<1>5. lost[t] = {}
    BY DEF CreatorsOK, Create
<1>6. Open' = {c}
    <2>1. idle'[t] = {c} /\ lost'[t] = {} /\ conn' = conn
        BY <1>5 DEF Create, TypeOK
    <2>2. \A u \in Thread : conn'[u] \notin Conn
        BY <1>4, <2>1, NoneAssumption
    <2> QED
        BY <1>4, <2>1, <2>2 DEF Open
<1>7. Cardinality(Open') = 1 /\ Cardinality(Connecting') = 0
    BY <1>3, <1>6, FS_EmptySet, FS_Singleton
<1> QED
    BY <1>7, SizeAssumption DEF Capped

\* A connection takes the place of the handler that set out for it (db.py:17).
LEMMA ConnectCapped ==
    ASSUME IInv, Capped, NEW t \in Thread, NEW c \in Conn, Connect(t, c)
    PROVE  Capped'
<1> USE DEF IInv
<1>1. Connecting' = Connecting \ {t} /\ t \in Connecting
    BY DEF Connecting, Connect, Goes, TypeOK
<1>2. Open' = Open \union {c} /\ c \notin Open
    BY DEF Open, Live, Connect, TypeOK, PlacesOK, Holding
<1>3. Cardinality(Connecting') = Cardinality(Connecting) - 1
    BY <1>1, OpenFinite, FS_RemoveElement
<1>4. Cardinality(Open') = Cardinality(Open) + 1
    BY <1>2, OpenFinite, FS_AddElement
<1> QED
    BY <1>3, <1>4, OpenFinite DEF Capped

\* A handler sets out for another connection only when _used is below the
\* limit and counts every connection there is (db.py:17).
LEMMA HasRoomCapped ==
    ASSUME IInv, SoleCreator, OnePool, ForgottenIdle, Capped, NEW t \in Thread, HasRoom(t),
           ~crossed'
    PROVE  Capped'
<1> USE DEF IInv
<1>1. my[t] = pool /\ pool \in Thread
    BY DEF OnePool, PlacesOK, HasRoom, TypeOK, Holding
<1>2. idle[pool] = {} /\ At(pool, {"taken", "connect"}) = {} /\ Used(pool) # MaxConn
    BY <1>1 DEF HasRoom, Full
<1>3. Cardinality(Open) = Used(pool)
    BY <1>1, <1>2, UsedCountsAll
<1>4. Connecting = {}
    <2> SUFFICES ASSUME NEW u \in Thread, pc[u] \in {"create", "connect"} PROVE FALSE
        BY DEF Connecting
    <2>1. pc[u] = "connect"
        BY <1>1 DEF SoleCreator, TypeOK
    <2>2. my[u] = pool
        BY <2>1 DEF OnePool, PlacesOK
    <2> QED
        BY <1>2, <2>1, <2>2 DEF At
<1>5. Connecting' = {t}
    BY <1>4 DEF Connecting, HasRoom, Goes, TypeOK
<1>6. Open' = Open
    BY DEF Open, Live, HasRoom
<1>7. Cardinality(Open) <= MaxConn - 1
    BY <1>2, <1>3, <1>4, OpenFinite, FS_EmptySet, SizeAssumption DEF Capped
<1> QED
    BY <1>5, <1>6, <1>7, FS_Singleton, OpenFinite, SizeAssumption DEF Capped

\* No other step of a handler opens a connection (db.py:15-27).
LEMMA OthersCapped ==
    ASSUME IInv, Capped, NEW t \in Thread,
           \/ CreateFails(t) \/ Record(t) \/ Exhausted(t) \/ ConnectFails(t)
           \/ QueryOk(t) \/ QueryFails(t) \/ PutUnkeyed(t) \/ Discard(t) \/ Keep(t)
           \/ Rollback(t) \/ RollbackFails(t) \/ Forget(t) \/ \E c \in Conn : Take(t, c)
    PROVE  Capped'
<1> USE DEF IInv, Goes, Leaves, TypeOK
<1>1. CASE CreateFails(t) \/ Exhausted(t) \/ ConnectFails(t) \/ Discard(t) \/ Forget(t)
    BY <1>1, NoneOpened DEF CreateFails, Exhausted, ConnectFails, Discard, Forget,
       Connecting, Open, Live
<1>2. CASE Record(t) \/ QueryOk(t) \/ QueryFails(t) \/ Keep(t)
    BY <1>2, NoneOpened DEF Record, QueryOk, QueryFails, Keep, Connecting, Open, Live
<1>3. CASE PutUnkeyed(t) \/ RollbackFails(t)
    BY <1>3, NoneOpened DEF PutUnkeyed, RollbackFails, Loses, Connecting, Open, Live
<1>4. CASE Rollback(t)
    BY <1>4, NoneOpened DEF Rollback, Connecting, Open, Live
<1>5. CASE \E c \in Conn : Take(t, c)
    BY <1>5, NoneOpened DEF Take, Connecting, Open, Live, PlacesOK
<1> QED
    BY <1>1, <1>2, <1>3, <1>4, <1>5

\* A step of a handler keeps CapInv.
LEMMA FetchCap == ASSUME IInv, IInv', CapInv, NEW t \in Thread, Fetch(t) PROVE CapInv'
<1> SUFFICES ASSUME ~crossed', ~snatched' PROVE CapInv'
    BY DEF CapInv
<1>1. SoleCreator /\ OnePool /\ ForgottenIdle /\ Capped
    BY DEF CapInv, Fetch, Arrive, CreateFails, Record, Exhausted, HasRoom, ConnectFails,
       QueryOk, QueryFails, PutUnkeyed, Discard, Keep, Rollback, RollbackFails, Forget,
       Create, Take, Connect, Loses
<1>2. SoleCreator' /\ OnePool' /\ ForgottenIdle'
    BY <1>1, StepShape
<1>3. Capped'
    BY <1>1, <1>2, ArriveCapped, CreateCapped, ConnectCapped, HasRoomCapped, OthersCapped
       DEF Fetch
<1> QED
    BY <1>2, <1>3 DEF CapInv

\* So does a restart of PostgreSQL, which opens nothing.
LEMMA StepCap == ASSUME IInv, IInv', CapInv, [Next]_vars PROVE CapInv'
<1>1. CASE Outage \/ UNCHANGED vars
    <2> USE DEF Outage, vars, server
    <2>1. /\ crossed' = crossed /\ snatched' = snatched
          /\ SoleCreator' = SoleCreator /\ OnePool' = OnePool
          /\ ForgottenIdle' = ForgottenIdle
        BY <1>1 DEF SoleCreator, OnePool, ForgottenIdle
    <2>2. Open' = Open /\ Connecting' = Connecting
        BY <1>1 DEF Open, Live, Connecting
    <2> QED
        BY <2>1, <2>2 DEF CapInv, Capped
<1>2. CASE \E t \in Thread : Fetch(t)
    BY <1>2, FetchCap
<1> QED
    BY <1>1, <1>2 DEF Next

\* The API never has more connections than maxconn, counting those under way,
\* for any number of threads, unless two handlers were between a check and what
\* it guards at a time, or one took a connection before its return was over
\* (db.py:10, 17).
THEOREM LimitIsKept == Spec => []CapKept
<1>1. Init => CapInv
    <2> SUFFICES ASSUME Init PROVE CapInv
        OBVIOUS
    <2>1. IInv /\ pool = NoThread
        BY InitInv DEF Init
    <2>2. Open = {} /\ Connecting = {}
        BY <2>1, NothingYet DEF Init
    <2>3. Capped
        BY <2>2, FS_EmptySet, SizeAssumption DEF Capped
    <2> QED
        BY <2>3 DEF Init, CapInv, SoleCreator, OnePool, ForgottenIdle
<1>2. IInv /\ IInv' /\ CapInv /\ [Next]_vars => CapInv'
    BY StepCap
<1>3. CapInv => CapKept
    BY DEF CapInv, CapKept, Capped, Connecting
<1> QED
    BY Invariance, <1>1, <1>2, <1>3, PTL DEF Spec
=============================================================================
