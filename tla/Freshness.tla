----------------------------- MODULE Freshness -----------------------------
(***************************************************************************)
(* The two PostGIS tables under their two writers: the stream processor's  *)
(* batches and the cleanup's cycle, each one transaction at PostgreSQL's   *)
(* default READ COMMITTED, with the row locks that make one wait for the   *)
(* other.  The API's summary reads the result.                             *)
(*                                                                         *)
(* A time is a whole number of ticks of the database's clock; now() is the *)
(* time at which its transaction started.  A position is a vessel and a    *)
(* time; what else its event carries is left out.                          *)
(***************************************************************************)
EXTENDS Integers, Sequences

CONSTANTS Vessel,
          NoRow,        \* a vessel without a row in vessel_current_state
          StaleAge,     \* state_stale_minutes
          RetainAge,    \* track_retention_hours
          PurgeAge,     \* state_purge_after_hours; 0 is never
          FreshAge,     \* STALE_MINUTES of the API, fixed at 45
          LifecycleOn,  \* s3_lifecycle_on
          MaxBatch,     \* bound: rows of a batch
          MaxReports,   \* bound: positions reported
          MaxClock,     \* bound: ticks
          MaxFaults     \* bound: failures of each kind

(***************************************************************************)
(* "late" a position arrives after a later one of its vessel, "replay"     *)
(* positions are read or written again, "writer" and "cleanup" a           *)
(* transaction fails.                                                      *)
(***************************************************************************)
FaultKind == {"late", "replay", "writer", "cleanup"}

ASSUME AgeAssumption == /\ StaleAge \in Nat
                        /\ RetainAge \in Nat
                        /\ PurgeAge \in Nat
                        /\ FreshAge \in Nat
                        /\ FreshAge <= StaleAge
ASSUME BoundAssumption == /\ LifecycleOn \in BOOLEAN
                          /\ MaxBatch \in Nat \ {0}
                          /\ MaxReports \in Nat
                          /\ MaxClock \in Nat
                          /\ MaxFaults \in [FaultKind -> Nat]

Position == [vessel : Vessel, time : Nat]
Row == [seen : Nat, stale : BOOLEAN]
Rule == {"expire", "other"}

ASSUME RowAssumption == NoRow \notin Row

VARIABLES
    clock,
    log,       \* the positions in the order in which ais.raw has them
    next,      \* the first of them that is not written, for the writer
    \* the tables, as committed
    state,     \* vessel_current_state: a row or NoRow for each vessel
    track,     \* vessel_track
    \* the stream processor's transaction
    wpc, upto, \* where it is; the last position of its batch
    row,       \* the position to upsert next
    inserted,  \* the track rows it has inserted
    draft,     \* the state rows it has written, and so locked
    \* the cleanup's transaction
    cpc,       \* where it is
    started,   \* its now()
    doomed,    \* track rows it has deleted
    todo,      \* the rows its statement found and has not come to
    marked,    \* rows it has set to STALE, and so locked
    purged,    \* rows it has deleted, and so locked
    \* outside
    rules,     \* the lifecycle rules of the bucket
    faults     \* failures so far, by kind

tables == <<state, track>>
writer == <<wpc, upto, row, inserted, draft>>
cleanup == <<cpc, started, doomed, todo, marked, purged>>
vars == <<clock, log, next, tables, writer, cleanup, rules, faults>>

Init == /\ clock = 0
        /\ log = <<>> /\ next = 1
        /\ state = [v \in Vessel |-> NoRow] /\ track = {}
        /\ wpc = "idle" /\ upto = 0 /\ row = 1
        /\ inserted = {} /\ draft = [v \in Vessel |-> NoRow]
        /\ cpc = "sleep" /\ started = 0
        /\ doomed = {} /\ todo = {} /\ marked = {} /\ purged = {}
        /\ rules = {"other"}  \* the owner of the bucket has set one
        /\ faults = [k \in FaultKind |-> 0]

\* One more failure of kind k, while its budget lasts.
Fault(k) == /\ faults[k] < MaxFaults[k]
            /\ faults' = [faults EXCEPT ![k] = @ + 1]

IsRow(v) == state[v] # NoRow

-----------------------------------------------------------------------------
(* The world                                                               *)

Tick == /\ clock < MaxClock
        /\ clock' = clock + 1
        /\ UNCHANGED <<log, next, tables, writer, cleanup, rules, faults>>

\* A position reaches ais.raw; it may have been on its way for any time.
Report(v, t) ==
    LET overtaken == \E i \in DOMAIN log : log[i].vessel = v /\ log[i].time > t
    IN /\ Len(log) < MaxReports
       /\ t <= clock
       /\ log' = Append(log, [vessel |-> v, time |-> t])
       /\ IF overtaken THEN Fault("late") ELSE UNCHANGED faults
       /\ UNCHANGED <<clock, next, tables, writer, cleanup, rules>>

-----------------------------------------------------------------------------
(* apply_batch: one transaction of the stream processor                    *)

Batch == {log[i] : i \in next..upto}
Locked(v) == v \in marked \union purged

\* The transaction ends, with or without effect, and its locks are gone.
WriterEnds == /\ wpc' = "idle"
              /\ inserted' = {}
              /\ draft' = [v \in Vessel |-> NoRow]
              /\ upto' = 0 /\ row' = 1

BeginBatch(n) ==
    /\ wpc = "idle"
    /\ next + n - 1 <= Len(log)
    /\ upto' = next + n - 1
    /\ row' = next
    /\ wpc' = "tracks"
    /\ UNCHANGED <<clock, log, next, tables, inserted, draft, cleanup, rules, faults>>

\* ON CONFLICT DO NOTHING; a row that is being deleted must be waited for.  One
\* step for all rows: nobody waits for a row that is being inserted.
InsertTracks ==
    /\ wpc = "tracks"
    /\ Batch \intersect doomed = {}
    /\ inserted' = Batch \ track
    /\ wpc' = "states"
    /\ UNCHANGED <<clock, log, next, tables, upto, row, draft, cleanup, rules, faults>>

\* ON CONFLICT DO UPDATE, one row at a time, each waiting for its lock.
Upsert ==
    /\ wpc = "states"
    /\ row <= upto
    /\ ~Locked(log[row].vessel)
    /\ draft' = [draft EXCEPT ![log[row].vessel] = [seen |-> log[row].time, stale |-> FALSE]]
    /\ row' = row + 1
    /\ UNCHANGED <<clock, log, next, tables, wpc, upto, inserted, cleanup, rules, faults>>

Written == /\ wpc = "states"
           /\ row > upto
           /\ state' = [v \in Vessel |-> IF draft[v] = NoRow THEN state[v] ELSE draft[v]]
           /\ track' = track \union inserted

WriterCommits ==
    /\ Written
    /\ next' = upto + 1
    /\ WriterEnds
    /\ UNCHANGED <<clock, log, cleanup, rules, faults>>

\* It commits, but the client hears of an error and writes the batch again.
WriterUnheard ==
    /\ Fault("replay")
    /\ Written
    /\ WriterEnds
    /\ UNCHANGED <<clock, log, next, cleanup, rules>>

WriterAborts == /\ WriterEnds
                /\ UNCHANGED <<clock, log, next, tables, cleanup, rules>>

WriterFails == wpc # "idle" /\ Fault("writer") /\ WriterAborts

\* A restart or a reconnection: positions are read again.
Replay(n) ==
    /\ wpc = "idle"
    /\ n < next
    /\ Fault("replay")
    /\ next' = n
    /\ UNCHANGED <<clock, log, tables, writer, cleanup, rules>>

-----------------------------------------------------------------------------
(* run_once: one transaction of the cleanup, then the lifecycle rule       *)

Older(v, age) == IsRow(v) /\ state[v].seen < started - age
Candidate(v) == Older(v, StaleAge) /\ ~state[v].stale

CleanupEnds == /\ doomed' = {} /\ todo' = {} /\ marked' = {} /\ purged' = {}
               /\ started' = 0

\* Seeded fault: the boundary is deleted too.
DeleteTracksToo ==
    /\ cpc = "sleep"
    /\ started' = clock
    /\ doomed' = {p \in track : p.time <= clock - RetainAge}
    /\ cpc' = "mark"
    /\ UNCHANGED <<clock, log, next, tables, writer, todo, marked, purged, rules, faults>>

DeleteTracks ==
    /\ cpc = "sleep"
    /\ started' = clock
    /\ doomed' = {p \in track : p.time < clock - RetainAge}
    /\ cpc' = "mark"
    /\ UNCHANGED <<clock, log, next, tables, writer, todo, marked, purged, rules, faults>>

\* The UPDATE finds its rows in the snapshot of its start.
ScanStale ==
    /\ cpc = "mark"
    /\ todo' = {v \in Vessel : Candidate(v)}
    /\ cpc' = "marking"
    /\ UNCHANGED <<clock, log, next, tables, writer, started, doomed, marked, purged, rules, faults>>

\* Seeded fault: the ids are selected first and then updated by id.
MarkStaleById(v) ==
    /\ cpc = "marking"
    /\ v \in todo
    /\ draft[v] = NoRow
    /\ todo' = todo \ {v}
    /\ marked' = IF IsRow(v) THEN marked \union {v} ELSE marked
    /\ UNCHANGED <<clock, log, next, tables, writer, cpc, started, doomed, purged, rules, faults>>

\* It locks each, waiting for a writer, and then looks at the row again.
MarkStale(v) ==
    /\ cpc = "marking"
    /\ v \in todo
    /\ draft[v] = NoRow
    /\ todo' = todo \ {v}
    /\ marked' = IF Candidate(v) THEN marked \union {v} ELSE marked
    /\ UNCHANGED <<clock, log, next, tables, writer, cpc, started, doomed, purged, rules, faults>>

ScanPurge ==
    /\ cpc = "marking" /\ todo = {}
    /\ PurgeAge > 0
    /\ todo' = {v \in Vessel : Older(v, PurgeAge)}
    /\ cpc' = "purging"
    /\ UNCHANGED <<clock, log, next, tables, writer, started, doomed, marked, purged, rules, faults>>

\* Seeded fault: the ids are selected first and then deleted by id.
PurgeStaleById(v) ==
    /\ cpc = "purging"
    /\ v \in todo
    /\ draft[v] = NoRow
    /\ todo' = todo \ {v}
    /\ purged' = purged \union {v}
    /\ UNCHANGED <<clock, log, next, tables, writer, cpc, started, doomed, marked, rules, faults>>

PurgeStale(v) ==
    /\ cpc = "purging"
    /\ v \in todo
    /\ draft[v] = NoRow
    /\ todo' = todo \ {v}
    /\ purged' = IF Older(v, PurgeAge) THEN purged \union {v} ELSE purged
    /\ UNCHANGED <<clock, log, next, tables, writer, cpc, started, doomed, marked, rules, faults>>

\* All statements of the transaction are through.
Swept == /\ cpc \in {"marking", "purging"}
         /\ todo = {}
         /\ (PurgeAge > 0) => (cpc = "purging")

\* Seeded fault: the connection is closed without a commit.
CleanupUncommitted ==
    /\ Swept
    /\ cpc' = IF LifecycleOn THEN "rule" ELSE "sleep"
    /\ CleanupEnds
    /\ UNCHANGED <<clock, log, next, tables, writer, rules, faults>>

CleanupCommits ==
    /\ Swept
    /\ state' = [v \in Vessel |-> IF v \in purged THEN NoRow
                                  ELSE IF v \in marked THEN [state[v] EXCEPT !.stale = TRUE]
                                  ELSE state[v]]
    /\ track' = track \ doomed
    /\ cpc' = IF LifecycleOn THEN "rule" ELSE "sleep"
    /\ CleanupEnds
    /\ UNCHANGED <<clock, log, next, writer, rules, faults>>

CleanupAborts == /\ cpc' = "sleep"
                 /\ CleanupEnds
                 /\ UNCHANGED <<clock, log, next, tables, writer, rules>>

CleanupFails == cpc \notin {"sleep", "rule"} /\ Fault("cleanup") /\ CleanupAborts

\* apply_rule: nothing if the rule is read back as it is; else the put
\* replaces every rule of the bucket.
ApplyRule ==
    /\ cpc = "rule"
    /\ cpc' = "sleep"
    /\ rules' = {"expire"} \/ ("expire" \in rules /\ UNCHANGED rules)
    /\ UNCHANGED <<clock, log, next, tables, writer, started, doomed, todo, marked, purged, faults>>

\* Seeded fault: the exception leaves the loop.
RuleFailsUncaught ==
    /\ cpc = "rule"
    /\ cpc' = "ended"
    /\ UNCHANGED <<clock, log, next, tables, writer, started, doomed, todo, marked, purged, rules, faults>>

\* S3 refuses.  The next cycle runs all the same.
RuleFails ==
    /\ cpc = "rule"
    /\ cpc' = "sleep"
    /\ UNCHANGED <<clock, log, next, tables, writer, started, doomed, todo, marked, purged, rules, faults>>

-----------------------------------------------------------------------------
(* Each transaction waits for a row of the other: PostgreSQL aborts one.   *)

Deadlock == /\ wpc = "states" /\ row <= upto /\ Locked(log[row].vessel)
            /\ todo # {} /\ \A v \in todo : draft[v] # NoRow

WriterIsVictim == Deadlock /\ WriterAborts /\ UNCHANGED faults
CleanupIsVictim == Deadlock /\ CleanupAborts /\ UNCHANGED faults

WriterStep == \/ \E n \in 1..MaxBatch : BeginBatch(n)
              \/ InsertTracks \/ Upsert \/ WriterCommits
Sweep == \E v \in Vessel : MarkStale(v) \/ PurgeStale(v)
CleanupStep == \/ DeleteTracks \/ ScanStale \/ ScanPurge \/ Sweep
               \/ CleanupCommits \/ ApplyRule \/ RuleFails
Resolve == WriterIsVictim \/ CleanupIsVictim

Next == \/ Tick
        \/ \E v \in Vessel, t \in 0..MaxClock : Report(v, t)
        \/ WriterStep \/ WriterUnheard \/ WriterFails
        \/ \E n \in 1..MaxReports : Replay(n)
        \/ CleanupStep \/ CleanupFails
        \/ Resolve

Spec == Init /\ [][Next]_vars

\* A row lock that is released goes to the transaction that waits for it, hence
\* strong fairness of the steps that take one.
FairSpec == /\ Spec
            /\ WF_vars(WriterStep)
            /\ SF_vars(Upsert)
            /\ WF_vars(CleanupStep)
            /\ SF_vars(Sweep)
            /\ WF_vars(Resolve)

-----------------------------------------------------------------------------
(* What the API's summary counts                                           *)

Fresh == {v \in Vessel : IsRow(v) /\ state[v].seen > clock - FreshAge}
Stale == {v \in Vessel : IsRow(v) /\ state[v].stale}

-----------------------------------------------------------------------------
(* Properties                                                              *)

TypeOK == /\ clock \in Nat
          /\ log \in Seq(Position)
          /\ next \in 1..(Len(log) + 1)
          /\ state \in [Vessel -> Row \union {NoRow}]
          /\ track \in SUBSET Position
          /\ wpc \in {"idle", "tracks", "states"}
          /\ upto \in 0..Len(log)
          /\ row \in Nat \ {0}
          /\ inserted \in SUBSET Position
          /\ draft \in [Vessel -> Row \union {NoRow}]
          /\ cpc \in {"sleep", "mark", "marking", "purging", "rule"}
          /\ started \in Nat
          /\ doomed \in SUBSET Position
          /\ todo \in SUBSET Vessel
          /\ marked \in SUBSET Vessel
          /\ purged \in SUBSET Vessel
          /\ rules \in SUBSET Rule
          /\ faults \in [FaultKind -> Nat]

\* The two transactions hold no lock when they are over, and no row in common.
LocksHeld == /\ wpc # "states" => inserted = {} /\ \A v \in Vessel : draft[v] = NoRow
             /\ cpc \notin {"marking", "purging"} => todo = {} /\ marked = {} /\ purged = {}
             /\ cpc \in {"sleep", "rule"} => doomed = {}
             /\ \A v \in Vessel : Locked(v) => draft[v] = NoRow

\* What the cleanup is about to do is right at the time of its now(), and no
\* transaction can change that meanwhile.
SweepIsOld == /\ started <= clock
              /\ \A v \in marked : Older(v, StaleAge)
              /\ \A v \in purged : Older(v, PurgeAge)
              /\ \A p \in doomed : p.time < started - RetainAge

\* A vessel is STALE only if it was silent for StaleAge.
StaleIsOld == \A v \in Stale : state[v].seen < clock - StaleAge

\* The position of r was inserted into the track, or is due for deletion.
Tracked(v, r, rows) == [vessel |-> v, time |-> r.seen] \in rows \/ r.seen < clock - RetainAge

\* A vessel's state has its position in the track until the retention deletes
\* it, although the two tables are swept and written by transactions that
\* overlap (db.py:143-149, retention.py:8-14).
StateTracked == \A v \in Vessel : IsRow(v) => Tracked(v, state[v], track)

DraftTracked == /\ wpc # "idle" => row \in next..(upto + 1)
                /\ wpc = "states" => \A i \in next..upto :
                       log[i] \in track \union inserted \/ log[i].time < clock - RetainAge
                /\ \A v \in Vessel : draft[v] # NoRow =>
                       /\ ~draft[v].stale
                       /\ Tracked(v, draft[v], track \union inserted)

\* The inductive invariant: the locks of the two transactions, and what the
\* rows they have written and not committed are worth.
IInv == TypeOK /\ LocksHeld /\ SweepIsOld /\ StaleIsOld /\ StateTracked /\ DraftTracked

\* The API never counts a vessel both among the fresh and among the stale,
\* also when its position arrives while the cleanup marks it
\* (api/main.py:156-168, retention.py:17-25).
NeverFreshAndStale == Fresh \intersect Stale = {}

Settled == wpc = "idle" /\ next = Len(log) + 1

\* A vessel with a recent position in the track is shown, at that position or a
\* later one, and not as STALE, unless positions overtook each other or are
\* being read again (retention.py:17-33 against db.py:48-68).
ReportingShown ==
    (faults["late"] = 0 /\ (faults["replay"] = 0 \/ Settled)) =>
        \A p \in track :
            (p.time >= clock - StaleAge /\ (PurgeAge > 0 => p.time >= clock - PurgeAge)) =>
                /\ IsRow(p.vessel)
                /\ state[p.vessel].seen >= p.time
                /\ ~state[p.vessel].stale

Silent(v) == IsRow(v) /\ ~state[v].stale /\ state[v].seen < clock - StaleAge

\* A vessel that has gone silent does not stay unmarked: every cycle commits
\* what it found, whatever becomes of the lifecycle rule after it
\* (cleanup/main.py:19-56 and 91-99).
StaleEventually == \A v \in Vessel : []<>~Silent(v)
=============================================================================
