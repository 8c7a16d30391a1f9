---------------------------- MODULE Intelligence ----------------------------
(***************************************************************************)
(* What the API tells of the fleet: the summary and the speeds, which put  *)
(* the results of several queries together while the stream processor and  *)
(* the cleanup commit between them, and the distributions, turns and       *)
(* conflicts, each made from the rows of one query.                        *)
(*                                                                         *)
(* A position report goes from its raw form through normalizer.py and      *)
(* status.py into its vessel's row.  Speeds, courses and rates are in      *)
(* tenths.  A place is given by its degrees, in hundredths of those the    *)
(* code makes of the conflict radius, with 111 km to a degree in either    *)
(* direction.  Distances on the globe are PostGIS's, and given by Geodesic.*)
(***************************************************************************)
EXTENDS Integers, FiniteSets, FiniteSetsExt

CONSTANTS Vessel,
          ValidMmsi,    \* those with an MMSI of nine digits
          RawReport,    \* position reports as received
          NoValue,      \* null
          NoRow,
          Threshold,    \* min_rot_deg_min of a request
          Geodesic,     \* the square of ST_Distance on geography, of two places,
                        \* where 10000 * 10000 is the conflict radius
          Shrink,       \* the shortest degree, in any direction, within a radius of
                        \* a place, in per cent of 111 km
          HalfCircle,   \* 180 degrees of longitude
          TurnLimit,    \* LIMIT of the maneuvering query: 100
          PairLimit,    \* LIMIT of the conflicts query: 50
          MaxMoved      \* bound: vessels that change during a request

ASSUME VesselAssumption == /\ IsFiniteSet(Vessel) /\ ValidMmsi \subseteq Vessel
                           /\ TurnLimit \in Nat \ {0} /\ PairLimit \in Nat \ {0}
                           /\ Threshold \subseteq 0..1800 /\ MaxMoved \in Nat

Speed == 0..1023
Course == 0..3600
Turn == -128..127
NavStatus == 0..15
Coordinates == [lat : Int, lon : Int]

ASSUME ReportAssumption ==
    RawReport \subseteq [Sog : Speed, Cog : Course \union {NoValue},
                         RateOfTurn : Turn \union {NoValue},
                         NavigationalStatus : NavStatus \union {NoValue}, place : Coordinates]
ASSUME ValueAssumption == NoValue \notin Int

Site == {raw.place : raw \in RawReport}
Gap(a, b) == IF a > b THEN a - b ELSE b - a

\* ST_Distance of two points as geometry, in degrees: longitude is a line.
Planar(a, b) == Gap(a.lat, b.lat) * Gap(a.lat, b.lat) + Gap(a.lon, b.lon) * Gap(a.lon, b.lon)

\* The shorter way from a to b crosses the antimeridian.
Across(a, b) == Gap(a.lon, b.lon) >= HalfCircle

\* Of the globe: no degree is longer than 101 per cent of 111 km, and those from
\* a to b are no shorter than near a, if b is near and longitude does not wrap.
ASSUME GeodesicAssumption ==
    /\ HalfCircle \in Nat
    /\ Shrink \in [Site -> 0..100]
    /\ Geodesic \in [Site -> [Site -> Nat]]
    /\ \A a, b \in Site :
          /\ Geodesic[a][b] = Geodesic[b][a]
          /\ Planar(a, b) <= 100 * 100 => Geodesic[a][b] <= 101 * 101 * Planar(a, b)
          /\ Across(a, b) \/ Geodesic[a][b] >= Shrink[a] * Shrink[a]
                                               * Min({Planar(a, b), 100 * 100})

Status == {"ANCHORED", "MOORED", "STOPPED", "UNDERWAY", "UNKNOWN", "STALE"}

Row == [sog : Speed, cog : Course \union {NoValue}, rot : (-127..127) \union {NoValue},
        nav : NavStatus \union {NoValue}, status : Status, place : Site,
        fresh : BOOLEAN]  \* last_seen_at lies within 45 minutes

VARIABLES
    fleet,  \* vessel_current_state, as committed
    query,     \* the query a request is to make next
    got,    \* what its queries have returned, by name
    moved   \* history: vessels whose rows changed since its first query

request == <<query, got, moved>>
fleetVars == <<fleet, request>>

Asking == {"tracks", "statuses", "leader", "stats"}
QueryPlace == Asking \union {"idle", "summary", "speed"}

FleetInit == /\ fleet = [v \in Vessel |-> NoRow]
             /\ query = "idle" /\ got = <<>> /\ moved = {}

-----------------------------------------------------------------------------
(* From a report to a row                                                  *)

\* derive_status, in the order of its tests.
DeriveStatus(nav, sog) ==
    CASE nav = 1 -> "ANCHORED"
      [] nav = 5 -> "MOORED"
      [] nav = 0 /\ sog = 0 -> "STOPPED"
      [] nav \in {0, 8} /\ sog > 0 -> "UNDERWAY"
      [] OTHER -> "UNKNOWN"

\* Seeded fault: -128 passes as a rate of turn.
NormalizeAsIs(raw) ==
    [sog |-> raw.Sog, cog |-> raw.Cog, nav |-> raw.NavigationalStatus, rot |-> raw.RateOfTurn,
     status |-> DeriveStatus(raw.NavigationalStatus, raw.Sog),
     place |-> raw.place, fresh |-> TRUE]

\* normalize: -128 is no rate of turn.  1023 and 3600, not available, stay.
Normalize(raw) ==
    [sog |-> raw.Sog, cog |-> raw.Cog, nav |-> raw.NavigationalStatus,
     rot |-> IF raw.RateOfTurn = -128 THEN NoValue ELSE raw.RateOfTurn,
     status |-> DeriveStatus(raw.NavigationalStatus, raw.Sog),
     place |-> raw.place, fresh |-> TRUE]

\* A transaction commits.  After the last query it matters to the next request
\* only.
Commits(rows, changed) ==
    /\ query \in Asking \union {"idle"}
    /\ fleet' = rows
    /\ moved' = IF query \in Asking THEN moved \union changed ELSE moved
    /\ Cardinality(moved') <= MaxMoved
    /\ UNCHANGED <<query, got>>

\* The stream processor's upsert.
Upsert(v, raw) == Commits([fleet EXCEPT ![v] = Normalize(raw)], {v})

Rows == {v \in Vessel : fleet[v] # NoRow}
Silent == {v \in Rows : ~fleet[v].fresh}

\* 45 minutes pass, or have passed: the position came late.
Silence(v) == /\ v \in Rows /\ fleet[v].fresh
              /\ Commits([fleet EXCEPT ![v].fresh = FALSE], {v})

\* The cleanup marks the rows that are as old, and may purge the oldest.
MarkStale == /\ Silent # {}
             /\ Commits([v \in Vessel |-> IF v \in Silent
                                          THEN [fleet[v] EXCEPT !.status = "STALE"]
                                          ELSE fleet[v]], Silent)
Purge(old) == /\ old \subseteq Silent /\ old # {}
              /\ Commits([v \in Vessel |-> IF v \in old THEN NoRow ELSE fleet[v]], old)

-----------------------------------------------------------------------------
(* /intelligence/summary and /intelligence/speed                           *)

\* The rows a query with VALID_MMSI sees.
ValidRows == Rows \intersect ValidMmsi
Those(Test(_)) == {v \in ValidRows : Test(fleet[v])}
HowMany(Test(_)) == Cardinality(Those(Test))
WithStatus(s) == {v \in ValidRows : fleet[v].status = s}

MaxSog == IF ValidRows = {} THEN NoValue ELSE Max({fleet[v].sog : v \in ValidRows})

Aggregated ==
    [total |-> Cardinality(ValidRows),
     fresh |-> HowMany(LAMBDA r : r.fresh),
     stale |-> Cardinality(WithStatus("STALE")),
     moving |-> HowMany(LAMBDA r : r.sog > 5),
     idle |-> HowMany(LAMBDA r : r.sog <= 5),
     anchored |-> Cardinality(WithStatus("ANCHORED")),
     moored |-> Cardinality(WithStatus("MOORED")),
     max_sog |-> MaxSog]

\* Seeded fault: the filter on the MMSI is left out.
ByStatusOfAll == [s \in {fleet[v].status : v \in Rows} |->
                     Cardinality({v \in Rows : fleet[v].status = s})]

\* GROUP BY status: a count for each status that occurs.
ByStatus == [s \in {fleet[v].status : v \in ValidRows} |-> Cardinality(WithStatus(s))]

\* Seeded fault: buckets are counted from zero.
BucketFromZero(sog) == IF sog >= 200 THEN 20 ELSE sog \div 10

\* width_bucket(sog_knots, 0, 20, 20): from 1, and 21 is 20 knots and above.
Bucket(sog) == IF sog >= 200 THEN 21 ELSE sog \div 10 + 1

\* Seeded fault: ships at rest are left out.
HistogramMoving == [b \in {Bucket(fleet[v].sog) : v \in Those(LAMBDA r : r.sog > 0)} |->
                       HowMany(LAMBDA r : r.sog > 0 /\ Bucket(r.sog) = b)]

Histogram == [b \in {Bucket(fleet[v].sog) : v \in ValidRows} |->
                 HowMany(LAMBDA r : Bucket(r.sog) = b)]

\* A query returns, and its result is kept under a name.
Returns(at, next, results) ==
    /\ query = at /\ query' = next
    /\ got' = results
    /\ UNCHANGED <<fleet, moved>>

With(name, result) == [n \in DOMAIN got \union {name} |-> IF n = name THEN result ELSE got[n]]

Aggregate == Returns("idle", "tracks", [agg |-> Aggregated])
CountTracks == Returns("tracks", "statuses", got)  \* the count itself is left out
GroupStatuses == Returns("statuses", "leader", With("by_status", ByStatus))

\* ORDER BY sog_knots DESC LIMIT 1: any of the fastest.
FindFastest(v) == /\ v \in ValidRows /\ fleet[v].sog = MaxSog
                  /\ Returns("leader", "summary",
                             With("fastest", [mmsi |-> v, sog |-> fleet[v].sog]))
FindNone == /\ ValidRows = {}
            /\ Returns("leader", "summary", With("fastest", NoValue))

GroupSpeeds == Returns("idle", "stats", [buckets |-> Histogram])
SpeedStats == Returns("stats", "speed",
                      With("stats", [max_sog |-> MaxSog, sample_n |-> Cardinality(ValidRows)]))

\* The response goes out, or a query has failed: 503.
Reset == query' = "idle" /\ got' = <<>> /\ moved' = {} /\ UNCHANGED fleet
Respond == query \in {"summary", "speed"} /\ Reset
QueryFails == query \in Asking /\ Reset

RequestStep == \/ Aggregate \/ CountTracks \/ GroupStatuses
               \/ \E v \in Vessel : FindFastest(v)
               \/ FindNone
               \/ GroupSpeeds \/ SpeedStats
               \/ Respond \/ QueryFails

FleetNext == \/ \E v \in Vessel : Silence(v) \/ \E r \in RawReport : Upsert(v, r)
             \/ MarkStale
             \/ \E old \in SUBSET Silent : Purge(old)
             \/ RequestStep

FleetSpec == FleetInit /\ [][FleetNext]_fleetVars

-----------------------------------------------------------------------------
(* /intelligence/navigation and /intelligence/flow                         *)

\* NAV_STATUS_LABELS: a label stands as the codes it is for, "Unknown" as none.
Labels == {{n} : n \in NavStatus \ 9..13} \union {9..13, {}}
Labelled(nav, l) == IF nav = NoValue THEN l = {} ELSE nav \in l

Navigation == [l \in Labels |-> HowMany(LAMBDA r : Labelled(r.nav, l))]

\* mod(round(cog_degrees / 22.5), 16)
Sector(cog) == ((2 * cog + 225) \div 450) % 16

Flowing == Those(LAMBDA r : r.status # "STALE" /\ r.cog # NoValue /\ r.cog < 3600)
Flow == [s \in {Sector(fleet[v].cog) : v \in Flowing} |->
            Cardinality({v \in Flowing : Sector(fleet[v].cog) = s})]

-----------------------------------------------------------------------------
(* /intelligence/maneuvering                                               *)

Magnitude(rot) == IF rot < 0 THEN -rot ELSE rot

\* round(4.733 * sqrt(m), 1): the n with n - 1/2 <= 47.33 sqrt(m) < n + 1/2.
DegMin == [m \in 0..126 |-> Cardinality({n \in 1..540 : 100 * (2 * n - 1) * (2 * n - 1)
                                                         <= 4 * 224013 * m})]

\* _decode_rot.  At 127, turning faster than 5 degrees in 30 s, no rate is
\* given, and port and starboard change places.
DecodeRot(rot) ==
    IF Magnitude(rot) >= 127
    THEN [rot_deg_min |-> NoValue, direction |-> IF rot > 0 THEN "port" ELSE "starboard",
          effective |-> 100]
    ELSE [rot_deg_min |-> DegMin[Magnitude(rot)],
          direction |-> IF rot > 0 THEN "starboard" ELSE "port",
          effective |-> DegMin[Magnitude(rot)]]

Turning == Those(LAMBDA r : r.rot # NoValue)

\* Seeded fault: the rows are ordered by rate_of_turn without abs.
FirstTurningSigned ==
    {top \in SUBSET Turning :
        /\ Cardinality(top) = Min({TurnLimit, Cardinality(Turning)})
        /\ \A v \in top, u \in Turning \ top : fleet[u].rot <= fleet[v].rot}

\* The first TurnLimit rows by abs(rate_of_turn), equal ones in any order.
FirstTurning ==
    {top \in SUBSET Turning :
        /\ Cardinality(top) = Min({TurnLimit, Cardinality(Turning)})
        /\ \A v \in top, u \in Turning \ top :
              Magnitude(fleet[u].rot) <= Magnitude(fleet[v].rot)}

Maneuvering(top, min) == {v \in top : DecodeRot(fleet[v].rot).effective >= min}

-----------------------------------------------------------------------------
(* /intelligence/conflicts                                                 *)

Pairs == {p \in SUBSET ValidRows : Cardinality(p) = 2}

PlaceOf(v) == fleet[v].place
Margin(a, b) == Gap(a.lat, b.lat) < 100 /\ Gap(a.lon, b.lon) < 100

\* Seeded fault: the margins alone decide.
CloseByMargins(p) == \A u, v \in p : Margin(PlaceOf(u), PlaceOf(v))

\* The margins in either direction, and ST_DWithin on geometry.
Close(p) == \A u, v \in p : /\ Margin(PlaceOf(u), PlaceOf(v))
                           /\ Planar(PlaceOf(u), PlaceOf(v)) <= 100 * 100

\* distance_m, squared.
Distance(p) == Max({Geodesic[PlaceOf(u)][PlaceOf(v)] : u, v \in p})

\* The closest PairLimit of them.
FirstPairs ==
    LET close == {p \in Pairs : Close(p)}
    IN  {top \in SUBSET close :
            /\ Cardinality(top) = Min({PairLimit, Cardinality(close)})
            /\ \A p \in top, q \in close \ top : Distance(p) <= Distance(q)}

-----------------------------------------------------------------------------
(* The responses                                                           *)

\* list[StatusCount], list[SpeedBucket]: a count for each of some keys.
Counts(part, Key) == /\ part \in DOMAIN got
                     /\ DOMAIN got[part] \subseteq Key
                     /\ got[part] \in [DOMAIN got[part] -> Nat \ {0}]
SpeedOrNone == Speed \union {NoValue}
Aggregates == [total : Nat, fresh : Nat, stale : Nat, moving : Nat, idle : Nat,
               anchored : Nat, moored : Nat, max_sog : SpeedOrNone]
VesselLeader == [mmsi : Vessel, sog : Speed]
SpeedFigures == [max_sog : SpeedOrNone, sample_n : Nat]

\* What a request has at each place fits the response model.
Fits(part, Model) == part \in DOMAIN got /\ got[part] \in Model
ResultsOK ==
    /\ query = "idle" => got = <<>>
    /\ query \in {"tracks", "statuses", "leader", "summary"} => Fits("agg", Aggregates)
    /\ query \in {"leader", "summary"} => Counts("by_status", Status)
    /\ query = "summary" => Fits("fastest", VesselLeader \union {NoValue})
    /\ query \in {"stats", "speed"} => Counts("buckets", 1..21)
    /\ query = "speed" => Fits("stats", SpeedFigures)

FleetTypeOK == /\ fleet \in [Vessel -> Row \union {NoRow}]
               /\ query \in QueryPlace
               /\ moved \in SUBSET Vessel
               /\ ResultsOK

-----------------------------------------------------------------------------
(* Properties                                                              *)

Count(f, x) == IF x \in DOMAIN f THEN f[x] ELSE 0

\* The sum of the counts of f: so many things are counted under its keys.
Total(f) == Cardinality(UNION {{x} \X (1..f[x]) : x \in DOMAIN f})

\* The summary's queries are of one fleet but for the vessels whose rows changed
\* meanwhile: no figure is off by more than those, and without any they agree
\* (main.py:156-184).
SummaryAgrees ==
    query = "summary" =>
        LET a == got["agg"]
            s == got["by_status"]
            f == got["fastest"]
            Off(m, n) == Gap(m, n) <= Cardinality(moved)
        IN  /\ a.moving + a.idle = a.total /\ a.fresh + a.stale <= a.total
            /\ Off(a.total, Total(s))
            /\ Off(a.stale, Count(s, "STALE"))
            /\ Off(a.anchored, Count(s, "ANCHORED"))
            /\ Off(a.moored, Count(s, "MOORED"))
            /\ f # NoValue /\ a.max_sog # NoValue /\ f.mmsi \notin moved => f.sog <= a.max_sog
            /\ moved = {} => IF a.total = 0 THEN f = NoValue /\ a.max_sog = NoValue
                                            ELSE f.sog = a.max_sog

\* The same of the two queries of the speeds (main.py:206-218).
SpeedAgrees ==
    query = "speed" =>
        LET b == got["buckets"]
            t == got["stats"]
        IN  /\ Gap(Total(b), t.sample_n) <= Cardinality(moved)
            /\ moved = {} /\ t.sample_n > 0 => Bucket(t.max_sog) = Max(DOMAIN b)

(***************************************************************************)
(* The answers made from one query.  They are compared with the rows       *)
(* between requests, which at some time have any contents they ever have.  *)
(***************************************************************************)

\* The angle between a course and the direction of a sector, in tenths.
Deviation(cog, sector) == LET d == Gap(cog, sector * 225)
                          IN  IF d > 1800 THEN 3600 - d ELSE d

\* Each vessel is counted once, under a label of its own code, in the sector
\* nearest to its course, across north as well, and in the bucket its speed is
\* in (main.py:208, 222-226, 246-253, 263).
DistributionsRight == query = "idle" =>
    /\ Total(Navigation) = Cardinality(ValidRows)
    /\ Total(Flow) = Cardinality(Flowing)
    /\ \A v \in Flowing : Deviation(fleet[v].cog, Sector(fleet[v].cog)) <= 112
    /\ \A v \in ValidRows : LET b == Bucket(fleet[v].sog)
                          IN  /\ 10 * (b - 1) <= fleet[v].sog
                              /\ b <= 20 => fleet[v].sog < 10 * b

\* A vessel is left out only if it turns too slowly or TurnLimit others turn as
\* fast; no slower one is listed in its place, and the side is right, except of
\* those beyond the scale, at 127 (main.py:58-69, 289-311).
ManeuveringRight == query = "idle" =>
    \A top \in FirstTurning, min \in Threshold :
        LET shown == Maneuvering(top, min)
            Rate(v) == Magnitude(fleet[v].rot)
        IN  \A v \in Turning :
            /\ \/ v \in shown \/ DecodeRot(fleet[v].rot).effective < min
               \/ Cardinality({u \in Turning \ {v} : Rate(u) >= Rate(v)}) >= TurnLimit
            /\ v \notin shown => \A u \in shown : Rate(u) >= Rate(v) \/ Rate(v) = 127
            /\ v \in shown /\ Rate(v) \in 1..126 =>
                  DecodeRot(fleet[v].rot).direction = IF fleet[v].rot > 0 THEN "starboard"
                                                                          ELSE "port"

\* Pairs reported are within the radius, but for one per cent, as 111 km to the
\* degree is a round figure.  One that is not reported is apart by what as many
\* of its degrees are on the globe, or PairLimit are closer: where a degree of
\* longitude is short, pairs abreast are missed, and so are all pairs on either
\* side of the antimeridian (main.py:339-344).
ConflictsFound == query = "idle" =>
    \A top \in FirstPairs :
        /\ \A p \in top : Distance(p) <= 10100 * 10100
        /\ \A p \in Pairs \ top :
              \/ \E u, v \in p : Across(PlaceOf(u), PlaceOf(v))
              \/ \A v \in p : Distance(p) >= (100 * Shrink[PlaceOf(v)]) * (100 * Shrink[PlaceOf(v)])
              \/ Cardinality({q \in top : Distance(q) <= Distance(p)}) >= PairLimit
=============================================================================
