------------------------------ MODULE ApiPool ------------------------------
(***************************************************************************)
(* The connection pool of the API.  FastAPI runs the handlers in threads,  *)
(* each of which fetches rows through one global SimpleConnectionPool,     *)
(* created by the first to need it.  Neither get_pool nor that class takes *)
(* a lock.                                                                 *)
(*                                                                         *)
(* A step is one stretch of a handler between two calls that let other     *)
(* threads run.  A pool is named by the thread that created it; a pool     *)
(* that neither _pool nor a handler refers to is collected, and its        *)
(* connections with it, so it is left out of account.                      *)
(***************************************************************************)
EXTENDS Integers, FiniteSets

CONSTANTS Thread,     \* the threads handlers run in
          Conn,       \* connection objects; a bound on how many live at a time
          MaxConn,    \* maxconn: 10; minconn is 1
          NoThread, NoConn,
          MaxOutages  \* bound: restarts of PostgreSQL

ASSUME NoneAssumption == NoThread \notin Thread /\ NoConn \notin Conn
ASSUME SizeAssumption == /\ IsFiniteSet(Thread) /\ IsFiniteSet(Conn)
                         /\ MaxConn \in Nat \ {0} /\ MaxOutages \in Nat

VARIABLES
    pool,      \* _pool
    idle,      \* idle[p]: p._pool
    lost,      \* lost[p]: connections in p._used that no handler will return
    rused,     \* p._rused, by connection: the thread it was handed to
    pc,        \* where a thread is
    my,        \* pool in fetch_all
    conn,      \* conn in fetch_all
    broken,    \* connections the server has closed
    outages,   \* restarts so far
    crossed,   \* history: two threads were between a check and what it guards
    snatched   \* history: a connection was handed out before its return ended

server == <<broken, outages>>
vars == <<pool, idle, lost, rused, pc, my, conn, server, crossed, snatched>>

\* Where a thread has a connection of its own, and where the pool knows.
Holding == {"taken", "query", "put", "close", "rollback"}
Recorded == {"query", "put", "close", "rollback", "forget"}
Place == {"idle", "create", "get", "connect", "forget"} \union Holding

TypeOK == /\ pool \in Thread \union {NoThread}
          /\ idle \in [Thread -> SUBSET Conn]
          /\ lost \in [Thread -> SUBSET Conn]
          /\ rused \in [Conn -> Thread \union {NoThread}]
          /\ pc \in [Thread -> Place]
          /\ my \in [Thread -> Thread \union {NoThread}]
          /\ conn \in [Thread -> Conn \union {NoConn}]
          /\ broken \in SUBSET Conn
          /\ outages \in 0..MaxOutages
          /\ crossed \in BOOLEAN /\ snatched \in BOOLEAN

Init == /\ pool = NoThread
        /\ idle = [p \in Thread |-> {}]
        /\ lost = [p \in Thread |-> {}]
        /\ rused = [c \in Conn |-> NoThread]
        /\ pc = [t \in Thread |-> "idle"]
        /\ my = [t \in Thread |-> NoThread]
        /\ conn = [t \in Thread |-> NoConn]
        /\ broken = {} /\ outages = 0
        /\ crossed = FALSE /\ snatched = FALSE

At(p, places) == {t \in Thread : my[t] = p /\ pc[t] \in places}
Live == {p \in Thread : p = pool \/ \E t \in Thread : my[t] = p}

\* len(p._used)
Used(p) == Cardinality(At(p, Recorded)) + Cardinality(lost[p])

\* The connection objects somebody refers to.
Open == {c \in Conn : \/ \E t \in Thread : conn[t] = c
                      \/ \E p \in Live : c \in idle[p] \union lost[p]}

-----------------------------------------------------------------------------
Goes(t, place) == pc' = [pc EXCEPT ![t] = place]

\* The handler ends, with its rows or with 503.
Leaves(t) == /\ Goes(t, "idle")
             /\ my' = [my EXCEPT ![t] = NoThread]
             /\ conn' = [conn EXCEPT ![t] = NoConn]

\* A request: get_pool looks whether there is a pool.
Arrive(t) == /\ pc[t] = "idle"
             /\ Goes(t, IF pool = NoThread THEN "create" ELSE "get")
             /\ my' = [my EXCEPT ![t] = pool]
             /\ crossed' = (crossed \/ \E u \in Thread : pc[u] = "create")
             /\ UNCHANGED <<pool, idle, lost, rused, conn, server, snatched>>

\* There was none: the pool connects once and takes the place of any created
\* meanwhile.
Create(t, c) ==
    /\ pc[t] = "create" /\ c \notin Open
    /\ pool' = t
    /\ idle' = [idle EXCEPT ![t] = {c}]
    /\ broken' = broken \ {c}
    /\ my' = [my EXCEPT ![t] = t]
    /\ Goes(t, "get")
    /\ UNCHANGED <<lost, rused, conn, outages, crossed, snatched>>

\* The server cannot be reached or refuses.
CreateFails(t) == /\ pc[t] = "create"
                  /\ Leaves(t)
                  /\ UNCHANGED <<pool, idle, lost, rused, server, crossed, snatched>>

-----------------------------------------------------------------------------
(* getconn                                                                 *)

\* An idle connection is popped ...
Take(t, c) ==
    /\ pc[t] = "get" /\ c \in idle[my[t]]
    /\ idle' = [idle EXCEPT ![my[t]] = @ \ {c}]
    /\ conn' = [conn EXCEPT ![t] = c]
    /\ Goes(t, "taken")
    /\ snatched' = (snatched \/ \E u \in Thread : pc[u] = "forget" /\ conn[u] = c)
    /\ UNCHANGED <<pool, lost, rused, my, server, crossed>>

\* ... and entered in _used and _rused.
Record(t) == /\ pc[t] = "taken"
             /\ rused' = [rused EXCEPT ![conn[t]] = t]
             /\ Goes(t, "query")
             /\ UNCHANGED <<pool, idle, lost, my, conn, server, crossed, snatched>>

\* Seeded fault: one connection more than the limit is allowed.
FullAbove(p) == Used(p) = MaxConn + 1

\* The limit is compared for equality.
Full(p) == Used(p) = MaxConn

Exhausted(t) == /\ pc[t] = "get" /\ idle[my[t]] = {} /\ Full(my[t])
                /\ Leaves(t)
                /\ UNCHANGED <<pool, idle, lost, rused, server, crossed, snatched>>

\* There is room: it will connect, whatever the others do meanwhile.
HasRoom(t) ==
    /\ pc[t] = "get" /\ idle[my[t]] = {} /\ ~Full(my[t])
    /\ Goes(t, "connect")
    /\ crossed' = (crossed \/ At(my[t], {"taken", "connect"}) # {})
    /\ UNCHANGED <<pool, idle, lost, rused, my, conn, server, snatched>>

Connect(t, c) ==
    /\ pc[t] = "connect" /\ c \notin Open
    /\ conn' = [conn EXCEPT ![t] = c]
    /\ broken' = broken \ {c}
    /\ Goes(t, "taken")
    /\ UNCHANGED <<pool, idle, lost, rused, my, outages, crossed, snatched>>

ConnectFails(t) == /\ pc[t] = "connect"
                   /\ Leaves(t)
                   /\ UNCHANGED <<pool, idle, lost, rused, server, crossed, snatched>>

-----------------------------------------------------------------------------
(* The query, and putconn                                                  *)

QueryOk(t) == /\ pc[t] = "query" /\ conn[t] \notin broken
              /\ Goes(t, "put")
              /\ UNCHANGED <<pool, idle, lost, rused, my, conn, server, crossed, snatched>>

\* Seeded fault: an exception leaves without putconn.
QueryFailsLeaks(t) ==
    /\ pc[t] = "query"
    /\ lost' = [lost EXCEPT ![my[t]] = @ \union {conn[t]}]
    /\ Leaves(t)
    /\ UNCHANGED <<pool, idle, rused, server, crossed, snatched>>

\* Seeded fault: the connection is not closed, so that finally returns it again.
QueryFailsTwice(t) ==
    /\ pc[t] = "query" /\ rused[conn[t]] # NoThread
    /\ idle' = [idle EXCEPT ![my[t]] = @ \union {conn[t]}]
    /\ Goes(t, "put")
    /\ UNCHANGED <<pool, lost, rused, my, conn, server, crossed, snatched>>

\* The connection is lost, or the query itself raises.
QueryFails(t) == /\ pc[t] = "query"
                 /\ Goes(t, "close")
                 /\ UNCHANGED <<pool, idle, lost, rused, my, conn, server, crossed, snatched>>

\* _rused knows no such connection, or rollback() raises: the exception leaves
\* the entry in _used behind, and takes the place of the rows.
Loses(t) == /\ lost' = [lost EXCEPT ![my[t]] = @ \union {conn[t]}]
            /\ Leaves(t)
            /\ UNCHANGED <<pool, idle, rused, server, crossed, snatched>>

PutUnkeyed(t) == /\ pc[t] \in {"put", "close"} /\ rused[conn[t]] = NoThread
                 /\ Loses(t)

RollbackFails(t) == /\ pc[t] = "rollback" /\ conn[t] \in broken
                    /\ Loses(t)

\* The connection goes: close=True, or another one is idle already.
Discard(t) == /\ \/ pc[t] = "close"
                 \/ pc[t] = "put" /\ idle[my[t]] # {}
              /\ rused[conn[t]] # NoThread
              /\ rused' = [rused EXCEPT ![conn[t]] = NoThread]
              /\ Leaves(t)
              /\ UNCHANGED <<pool, idle, lost, server, crossed, snatched>>

\* None is idle: this one is to be kept, and is rolled back first.
Keep(t) == /\ pc[t] = "put" /\ idle[my[t]] = {} /\ rused[conn[t]] # NoThread
           /\ Goes(t, "rollback")
           /\ UNCHANGED <<pool, idle, lost, rused, my, conn, server, crossed, snatched>>

\* It is idle again ...
Rollback(t) == /\ pc[t] = "rollback" /\ conn[t] \notin broken
               /\ idle' = [idle EXCEPT ![my[t]] = @ \union {conn[t]}]
               /\ Goes(t, "forget")
               /\ UNCHANGED <<pool, lost, rused, my, conn, server, crossed, snatched>>

\* ... and its entries are deleted, whoever has been given it since.
Forget(t) == /\ pc[t] = "forget"
             /\ rused' = [rused EXCEPT ![conn[t]] = NoThread]
             /\ Leaves(t)
             /\ UNCHANGED <<pool, idle, lost, server, crossed, snatched>>

\* PostgreSQL restarts: every connection breaks.
Outage == /\ outages < MaxOutages
          /\ outages' = outages + 1
          /\ broken' = Open
          /\ UNCHANGED <<pool, idle, lost, rused, pc, my, conn, crossed, snatched>>

-----------------------------------------------------------------------------
Fetch(t) == \/ Arrive(t) \/ CreateFails(t)
            \/ Record(t) \/ Exhausted(t) \/ HasRoom(t) \/ ConnectFails(t)
            \/ QueryOk(t) \/ QueryFails(t)
            \/ PutUnkeyed(t) \/ Discard(t) \/ Keep(t)
            \/ Rollback(t) \/ RollbackFails(t) \/ Forget(t)
            \/ \E c \in Conn : Create(t, c) \/ Take(t, c) \/ Connect(t, c)

Next == Outage \/ \E t \in Thread : Fetch(t)

Spec == Init /\ [][Next]_vars

-----------------------------------------------------------------------------
(* Properties                                                              *)

\* A connection serves one handler at a time, and is not idle meanwhile,
\* although neither the pool nor its class takes a lock (db.py:15-27).
OneHolder ==
    \A t \in Thread : pc[t] \in Holding =>
        /\ \A u \in Thread \ {t} : pc[u] \in Holding => conn[u] # conn[t]
        /\ \A p \in Live : conn[t] \notin idle[p] \union lost[p]

\* A connection handed out comes back or is closed, whichever way the query
\* ends: a slot of the pool is lost only with a connection that the server broke,
\* unless a handler took one before its return was over (db.py:22-27).
SlotsReturned == snatched \/ \A p \in Live : lost[p] \subseteq broken

\* The API has no more connections than maxconn, counting those under way,
\* unless two handlers were between a check and what it guards at a time, or
\* one took a connection before its return was over (db.py:10, 17).
CapKept ==
    \/ Cardinality(Open) + Cardinality({t \in Thread : pc[t] \in {"create", "connect"}})
         <= MaxConn
    \/ crossed \/ snatched

\* What a thread refers to, place by place.
PlacesOK ==
    \A t \in Thread : /\ pc[t] \in {"idle", "create"} <=> my[t] = NoThread
                      /\ pc[t] \in Holding \union {"forget"} <=> conn[t] # NoConn

\* A thread creates one pool at most, and nothing exists before the first.
CreatorsOK ==
    /\ \A t \in Thread : pc[t] = "create" \/ pool = NoThread =>
          t \notin Live /\ idle[t] \union lost[t] = {}
    /\ pool = NoThread => Live = {}

\* A connection is in one place only.
SlotsOK ==
    \A p, q \in Live : \A c \in Conn :
        /\ c \in idle[p] => c \notin lost[q]
        /\ p # q => ~(c \in idle[p] /\ c \in idle[q]) /\ ~(c \in lost[p] /\ c \in lost[q])

\* _rused names the holder of a connection, unless one was handed out early.
KeysOK ==
    ~snatched => \A t \in Thread :
        /\ pc[t] \in Recorded => rused[conn[t]] = t \/ pc[t] = "forget"
        /\ pc[t] \in Holding =>
              \A u \in Thread : pc[u] = "forget" => conn[u] # conn[t]

\* The inductive invariant of the properties above; CapKept rests on it.
IInv == /\ TypeOK /\ PlacesOK /\ CreatorsOK /\ SlotsOK /\ KeysOK
        /\ OneHolder /\ SlotsReturned
=============================================================================
