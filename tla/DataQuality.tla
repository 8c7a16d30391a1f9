---------------------------- MODULE DataQuality ----------------------------
(***************************************************************************)
(* The data-quality report of the API: a handler thread answers from the   *)
(* one cached report if that is of the same window and young enough, and   *)
(* scans the Parquet archive otherwise.  Handlers run concurrently and     *)
(* without a lock, beside the raw sink, which adds objects, and the        *)
(* lifecycle rule, which expires them.                                     *)
(*                                                                         *)
(* A step is one stretch of a handler between two calls that let other     *)
(* threads run.  Time is a clock in ticks.  An object stands for its rows, *)
(* which share an event time and an ingestion time.                        *)
(***************************************************************************)
EXTENDS Integers, FiniteSets, Sequences

CONSTANTS Handler,      \* requests, each in a thread of its own
          Window,       \* window_hours of a request, in ticks
          HourLength,   \* ticks of an hour
          TTL,          \* CACHE_TTL_SECONDS
          Retention,    \* age at which the lifecycle rule lets objects expire
          MaxKeys,      \* keys list_objects_v2 returns: 1000
          Lateness,     \* of positions that pass ingestion's skew gate
          MaxSkew,      \* its tolerance for positions from the future
          MaxDelay,     \* bound: from ingestion to the archive
          MaxNow,       \* bound: ticks
          Digest        \* bound: the objects the raw sink stores, by the digest
                        \* of their rows with which their names end

ASSUME WindowAssumption == Window \subseteq Nat \ {0}
ASSUME AgeAssumption == /\ HourLength \in Nat \ {0} /\ TTL \in Nat \ {0}
                        /\ Retention \in Nat /\ MaxDelay \in Nat
                        /\ MaxSkew \in Nat
                        /\ Lateness \subseteq Int /\ \A l \in Lateness : l >= -MaxSkew
ASSUME BoundAssumption == /\ MaxKeys \in Nat /\ MaxNow \in Nat
                          /\ Digest \subseteq Nat

VARIABLES
    now,
    archive,    \* the objects stored
    unstored,   \* the digests of the objects still to come
    cache,      \* the report kept, a Scan; its window is 0 before the first
    pc,         \* where a handler is
    asked,      \* asked[h]: the window and the time of its request
    scan,       \* scan[h]: its scan, or the report it answers with
    todo,       \* todo[h]: the keys listed and not read yet
    overlapped  \* history: two requests have been under way at a time

handlers == <<pc, asked, scan, todo, overlapped>>
vars == <<now, archive, unstored, cache, handlers>>

Object == [digest : Digest, event : Int, ingested : Int, stored : Nat]

(***************************************************************************)
(* A report: what it is of, and the rows it counts.  listed and seen are   *)
(* history: when the keys were listed, and the archive at that moment.     *)
(***************************************************************************)
Scan == [window : Nat, ts : Nat, cutoff : Int, rows : SUBSET Object,
         listed : Nat, seen : SUBSET Object]
NoScan == [window |-> 0, ts |-> 0, cutoff |-> 0, rows |-> {}, listed |-> 0, seen |-> {}]

Place == {"idle", "check", "read", "answered", "failed"}
UnderWay == {h \in Handler : pc[h] \in {"check", "read"}}

TypeOK == /\ now \in Nat
          /\ archive \in SUBSET Object
          /\ unstored \in SUBSET Digest
          /\ cache \in Scan
          /\ pc \in [Handler -> Place]
          /\ asked \in [Handler -> [window : Nat, at : Nat]]
          /\ scan \in [Handler -> Scan]
          /\ todo \in [Handler -> SUBSET Object]
          /\ overlapped \in BOOLEAN

NoAsk == [window |-> 0, at |-> 0]

Init == /\ now = 0 /\ archive = {} /\ unstored = Digest
        /\ cache = NoScan
        /\ pc = [h \in Handler |-> "idle"]
        /\ asked = [h \in Handler |-> NoAsk]
        /\ scan = [h \in Handler |-> NoScan]
        /\ todo = [h \in Handler |-> {}]
        /\ overlapped = FALSE

-----------------------------------------------------------------------------
(* The surroundings                                                        *)

Tick == /\ now < MaxNow
        /\ now' = now + 1
        /\ UNCHANGED <<archive, unstored, cache, handlers>>

\* The raw sink puts an object: its rows were ingested a while ago, from
\* positions that passed ingestion's skew gate.
Store(n, delay, late) ==
    /\ n \in unstored
    /\ unstored' = unstored \ {n}
    /\ archive' = archive \union {[digest |-> n, event |-> now - delay - late,
                                   ingested |-> now - delay, stored |-> now]}
    /\ UNCHANGED <<now, cache, handlers>>

\* S3 applies the lifecycle rule in its own time.
Expire(o) == /\ o \in archive
             /\ now - o.stored >= Retention
             /\ archive' = archive \ {o}
             /\ UNCHANGED <<now, unstored, cache, handlers>>

-----------------------------------------------------------------------------
(* The archive as the scan sees it                                         *)

HourOf(t) == t \div HourLength

\* Seeded fault: the names alone are compared, without their folders.
BeforeByDigest(o, p) == o.digest < p.digest

\* Keys sort by dt= and HH=, which the name repeats, then by the digest: within
\* an hour the order is not that of the uploads.
Before(o, p) == \/ HourOf(o.event) < HourOf(p.event)
                \/ HourOf(o.event) = HourOf(p.event) /\ o.digest < p.digest

\* One page of the listing: the keys that come first.
Listing == {o \in archive : Cardinality({p \in archive : Before(p, o)}) < MaxKeys}

\* Seeded fault: the hour the window begins in is left out.
InWindowWhole(o, cutoff) == HourOf(o.event) * HourLength >= cutoff

\* Seeded fault: every partition is read.
InWindowAlways(o, cutoff) == TRUE

\* _in_window compares the partition with the hour of the cutoff.
InWindow(o, cutoff) == HourOf(o.event) >= HourOf(cutoff)

\* A row counts by the time it was ingested.
Counted(o, cutoff) == o.ingested >= cutoff

-----------------------------------------------------------------------------
(* get_data_quality                                                        *)

Goes(h, place) == pc' = [pc EXCEPT ![h] = place]

Request(h, w) ==
    /\ pc[h] = "idle"
    /\ Goes(h, "check")
    /\ asked' = [asked EXCEPT ![h] = [window |-> w, at |-> now]]
    /\ overlapped' = (overlapped \/ UnderWay # {})
    /\ UNCHANGED <<now, archive, unstored, cache, scan, todo>>

\* Seeded fault: the window of the cached report is not compared.
ValidForAny(h) == /\ cache.window # 0
                  /\ asked[h].at - cache.ts < TTL

\* The time was taken before: the cached report may be younger than that.
Valid(h) == /\ cache.window # 0 /\ cache.window = asked[h].window
            /\ asked[h].at - cache.ts < TTL

Hit(h) == /\ pc[h] = "check" /\ Valid(h)
          /\ Goes(h, "answered")
          /\ scan' = [scan EXCEPT ![h] = cache]
          /\ UNCHANGED <<now, archive, unstored, cache, asked, todo, overlapped>>

\* The cutoff is taken and the keys are listed.
Miss(h) ==
    /\ pc[h] = "check" /\ ~Valid(h)
    /\ Goes(h, "read")
    /\ LET cutoff == now - asked[h].window
       IN  /\ scan' = [scan EXCEPT ![h] = [window |-> asked[h].window, ts |-> asked[h].at,
                                           cutoff |-> cutoff, rows |-> {},
                                           listed |-> now, seen |-> archive]]
           /\ todo' = [todo EXCEPT ![h] = {o \in Listing : InWindow(o, cutoff)}]
    /\ UNCHANGED <<now, archive, unstored, cache, asked, overlapped>>

\* The next object in the order of the keys.
NextKey(h, o) == /\ pc[h] = "read" /\ o \in todo[h]
                 /\ \A p \in todo[h] : ~Before(p, o)

Get(h, o) == /\ NextKey(h, o)
             /\ o \in archive
             /\ todo' = [todo EXCEPT ![h] = @ \ {o}]
             /\ scan' = [scan EXCEPT ![h].rows = IF Counted(o, scan[h].cutoff)
                                                 THEN @ \union {o} ELSE @]
             /\ UNCHANGED <<now, archive, unstored, cache, pc, asked, overlapped>>

\* An exception leaves the scan: 503, and the cache as it is.
Fails(h) == /\ Goes(h, "failed")
            /\ asked' = [asked EXCEPT ![h] = NoAsk]
            /\ scan' = [scan EXCEPT ![h] = NoScan]
            /\ todo' = [todo EXCEPT ![h] = {}]
            /\ UNCHANGED <<now, archive, unstored, cache, overlapped>>

\* The object has expired since it was listed: NoSuchKey.
GetGone(h, o) == NextKey(h, o) /\ o \notin archive /\ Fails(h)

\* The listing or an object cannot be had, after the retries of the client.
S3Fails(h) == pc[h] = "read" /\ Fails(h)

\* Seeded fault: the report is stamped with its cutoff.
FinishStampsCutoff(h) ==
    /\ pc[h] = "read" /\ todo[h] = {}
    /\ Goes(h, "answered")
    /\ cache' = [scan[h] EXCEPT !.ts = scan[h].cutoff]
    /\ UNCHANGED <<now, archive, unstored, asked, scan, todo, overlapped>>

\* Whatever is in the cache by now is replaced.
Finish(h) == /\ pc[h] = "read" /\ todo[h] = {}
             /\ Goes(h, "answered")
             /\ cache' = scan[h]
             /\ UNCHANGED <<now, archive, unstored, asked, scan, todo, overlapped>>

Handle(h) == \/ Hit(h) \/ Miss(h) \/ Finish(h)
             \/ \E o \in todo[h] : Get(h, o) \/ GetGone(h, o)

Next == \/ Tick
        \/ \E n \in Digest, d \in 0..MaxDelay, l \in Lateness : Store(n, d, l)
        \/ \E o \in archive : Expire(o)
        \/ \E h \in Handler : \/ \E w \in Window : Request(h, w)
                              \/ Handle(h)
                              \/ S3Fails(h)

Spec == Init /\ [][Next]_vars

-----------------------------------------------------------------------------
(* The figures of a report                                                 *)

\* A latency may be negative: such rows are counted apart.
Latency(o) == o.ingested - o.event

\* deltas[int(len(deltas) * p / 100)], counted from zero: deltas are the other
\* latencies of the rows, in order.
Percentile(deltas, p) == deltas[1 + (Len(deltas) * p) \div 100]

\* q is a p-quantile of s: at least the share p of s is at or below it, and no
\* more than the share p is below it.
Quantile(q, s, p) ==
    /\ 100 * Cardinality({i \in DOMAIN s : s[i] <= q}) >= p * Len(s)
    /\ 100 * Cardinality({i \in DOMAIN s : s[i] < q}) <= p * Len(s)

-----------------------------------------------------------------------------
(* Properties                                                              *)

\* The counted part of what was archived when the keys were listed.
Due(r) == {o \in r.seen : Counted(o, r.cutoff)}

\* A report is of the window asked for, and its keys were listed less than
\* CACHE_TTL_SECONDS before the request, or later: whichever report the other
\* handlers put into the cache meanwhile (data_quality.py:138-144).
AnswerCurrent ==
    \A h \in Handler : pc[h] = "answered" =>
        /\ scan[h].window = asked[h].window
        /\ scan[h].listed > asked[h].at - TTL

\* The objects of an earlier hour than that of o, and the others of its hour.
UpTo(o, objects) == {p \in objects \ {o} : HourOf(p.event) <= HourOf(o.event)}

\* Nothing is missing from the rows of r but those in rest, those that a whole
\* page of objects of their hour and earlier ones may have kept out of the
\* listing, and late ones, of an hour before the one the window begins in.
Complete(r, rest) ==
    \A o \in Due(r) \ (r.rows \union rest) :
        \/ Cardinality(UpTo(o, r.seen)) >= MaxKeys
        \/ HourOf(o.event) < HourOf(r.cutoff)

\* A report counts the rows of its window that were archived when the keys
\* were listed, and no others: nothing that has expired since is left out
\* silently, and an archive of more than a page costs its latest rows only
\* (data_quality.py:66-97).
ReportComplete ==
    \A h \in Handler : pc[h] = "answered" =>
        scan[h].rows \subseteq Due(scan[h]) /\ Complete(scan[h], {})

\* A key that was listed can be read, unless the scan has taken as long as the
\* retention exceeds the window and the hour it begins in
\* (data_quality.py:58, 81; S3_RETENTION_DAYS against window_hours <= 168).
Readable ==
    \A h \in Handler : \A o \in todo[h] :
        o \notin archive =>
            now - scan[h].cutoff > Retention - HourLength - MaxSkew

\* A report, whole or with the objects of rest still to be read.
WellFormed(r, rest) ==
    /\ r.listed <= now /\ r.ts <= r.listed
    /\ r.cutoff = r.listed - r.window
    /\ rest \subseteq r.seen /\ r.rows \subseteq Due(r) /\ Complete(r, rest)

Times(o) == o.stored <= now /\ o.ingested <= o.stored /\ Latency(o) >= -MaxSkew

\* Objects are stored after their rows were ingested, and gone only with age.
ArchiveOK ==
    /\ IsFiniteSet(archive)
    /\ \A o \in archive : Times(o)
    /\ \A h \in Handler : \A o \in todo[h] :
          /\ pc[h] = "read" /\ Times(o) /\ InWindow(o, scan[h].cutoff)
          /\ o \notin archive => now - o.stored >= Retention

\* The cache and every report that is under way or given are well formed.
ReportsOK ==
    /\ cache.window # 0 => WellFormed(cache, {})
    /\ \A h \in Handler :
          /\ asked[h].at <= now
          /\ pc[h] \in {"read", "answered"} => WellFormed(scan[h], todo[h])
          /\ pc[h] = "read" => /\ scan[h].window = asked[h].window
                               /\ scan[h].ts = asked[h].at

\* One request at a time is always later than the cache.
InTurn ==
    /\ cache.ts <= now
    /\ ~overlapped => /\ \A g, h \in UnderWay : g = h
                      /\ \A h \in UnderWay : cache.ts <= asked[h].at

\* The inductive invariant of the properties above.
IInv == TypeOK /\ ArchiveOK /\ ReportsOK /\ InTurn /\ AnswerCurrent

\* The cache never goes back to a report of an earlier request, unless two
\* requests were under way at a time (data_quality.py:143).
CacheForward == [][cache'.ts < cache.ts => overlapped]_vars
=============================================================================
