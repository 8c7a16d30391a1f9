--------------------------- MODULE FreshnessProofs ---------------------------
(***************************************************************************)
(* Proofs about Freshness, for any vessels, ages, batches and failures:    *)
(* type correctness, the inductive invariant IInv, from it that no vessel  *)
(* is counted both as fresh and as stale, and, with what the writer is     *)
(* through with, that a vessel with a recent position is shown.            *)
(***************************************************************************)
EXTENDS Freshness, SequenceTheorems, TLAPS

USE DEF tables, writer, cleanup

-----------------------------------------------------------------------------
(* Type correctness                                                        *)

\* Appending a position leaves the others where they are.
LEMMA LogGrows ==
    ASSUME NEW s \in Seq(Position), NEW p \in Position
    PROVE  /\ Append(s, p) \in Seq(Position)
           /\ Len(s) \in Nat
           /\ Len(Append(s, p)) = Len(s) + 1
           /\ \A i \in 1..Len(s) : Append(s, p)[i] = s[i]
    BY AppendProperties, LenProperties

\* A failure keeps the counts of failures natural numbers.
LEMMA FaultTyped ==
    ASSUME TypeOK, NEW k \in FaultKind, Fault(k)
    PROVE  faults' \in [FaultKind -> Nat]
    BY DEF TypeOK, Fault

\* The positions of a batch are positions.
LEMMA LogTyped ==
    ASSUME TypeOK, NEW i \in 1..Len(log)
    PROVE  log[i] \in Position
    BY ElementOfSeq DEF TypeOK

\* An invariant about a batch may be used for the rows from next to upto.
LEMMA BatchTyped ==
    ASSUME TypeOK, NEW i \in next..upto
    PROVE  log[i] \in Position
<1>1. i \in 1..Len(log)
    BY LenProperties DEF TypeOK
<1> QED
    BY <1>1, LogTyped

LEMMA ReportType ==
    ASSUME TypeOK, NEW v \in Vessel, NEW t \in 0..MaxClock, Report(v, t)
    PROVE  TypeOK'
<1>1. [vessel |-> v, time |-> t] \in Position
    BY BoundAssumption DEF Position
<1>2. /\ log' \in Seq(Position)
      /\ Len(log) \in Nat /\ Len(log') = Len(log) + 1
    BY <1>1, LogGrows DEF TypeOK, Report
<1>3. faults' \in [FaultKind -> Nat]
    <2>1. CASE UNCHANGED faults
        BY <2>1 DEF TypeOK
    <2>2. CASE Fault("late")
        BY <2>2, FaultTyped DEF FaultKind
    <2> QED
        BY <2>1, <2>2 DEF Report
<1>4. UNCHANGED <<clock, next, tables, writer, cleanup, rules>>
    BY DEF Report
<1> QED
    BY <1>2, <1>3, <1>4 DEF TypeOK

LEMMA WriterType ==
    ASSUME IInv, WriterStep \/ WriterUnheard \/ WriterFails \/ WriterIsVictim
                 \/ \E n \in 1..MaxReports : Replay(n)
    PROVE  TypeOK'
<1> USE DEF IInv
<1>1. Len(log) \in Nat
    BY LenProperties DEF TypeOK
<1>2. CASE \E n \in 1..MaxBatch : BeginBatch(n)
    <2> PICK n \in 1..MaxBatch : BeginBatch(n)
        BY <1>2
    <2>1. upto' \in 0..Len(log)
        BY <1>1, BoundAssumption DEF TypeOK, BeginBatch
    <2> QED
        BY <2>1 DEF TypeOK, BeginBatch
<1>3. CASE InsertTracks
    <2>1. Batch \subseteq Position
        BY BatchTyped DEF Batch
    <2> QED
        BY <1>3, <2>1 DEF TypeOK, InsertTracks
<1>4. CASE Upsert
    <2>1. row \in next..upto
        BY <1>1, <1>4 DEF Upsert, TypeOK, DraftTracked
    <2>2. log[row] \in Position
        BY <2>1, BatchTyped
    <2>3. [seen |-> log[row].time, stale |-> FALSE] \in Row
        BY <2>2 DEF Position, Row
    <2>4. draft' \in [Vessel -> Row \union {NoRow}]
        BY <1>4, <2>3 DEF TypeOK, Upsert
    <2>5. row' \in Nat \ {0}
        BY <1>4 DEF TypeOK, Upsert
    <2> QED
        BY <1>4, <2>4, <2>5 DEF TypeOK, Upsert
<1>5. CASE Written /\ WriterEnds /\ UNCHANGED <<clock, log, cleanup, rules>>
           /\ next' \in 1..(Len(log) + 1) /\ faults' \in [FaultKind -> Nat]
    BY <1>1, <1>5 DEF TypeOK, Written, WriterEnds
<1>6. CASE WriterCommits
    <2>1. upto + 1 \in 1..(Len(log) + 1)
        BY <1>1 DEF TypeOK
    <2> QED
        BY <1>5, <1>6, <2>1 DEF TypeOK, WriterCommits
<1>7. CASE WriterUnheard
    <2>1. faults' \in [FaultKind -> Nat]
        BY <1>7, FaultTyped DEF WriterUnheard, FaultKind
    <2> QED
        BY <1>5, <1>7, <2>1 DEF TypeOK, WriterUnheard
<1>8. CASE WriterFails
    <2>1. faults' \in [FaultKind -> Nat]
        BY <1>8, FaultTyped DEF WriterFails, FaultKind
    <2> QED
        BY <1>1, <1>8, <2>1 DEF TypeOK, WriterFails, WriterAborts, WriterEnds
<1>9. CASE WriterIsVictim
    BY <1>1, <1>9 DEF TypeOK, WriterIsVictim, WriterAborts, WriterEnds
<1>10. CASE \E n \in 1..MaxReports : Replay(n)
    <2> PICK n \in 1..MaxReports : Replay(n)
        BY <1>10
    <2>1. faults' \in [FaultKind -> Nat]
        BY FaultTyped DEF Replay, FaultKind
    <2>2. n \in 1..(Len(log) + 1)
        BY <1>1, BoundAssumption DEF Replay, TypeOK
    <2> QED
        BY <2>1, <2>2 DEF TypeOK, Replay
<1> QED
    BY <1>2, <1>3, <1>4, <1>6, <1>7, <1>8, <1>9, <1>10 DEF WriterStep

LEMMA CleanupType ==
    ASSUME IInv, CleanupStep \/ CleanupFails \/ CleanupIsVictim
    PROVE  TypeOK'
<1> USE DEF IInv
<1>1. CASE DeleteTracks
    BY <1>1 DEF TypeOK, DeleteTracks
<1>2. CASE ScanStale
    BY <1>2 DEF TypeOK, ScanStale
<1>3. CASE ScanPurge
    BY <1>3 DEF TypeOK, ScanPurge
<1>4. CASE Sweep
    <2> PICK v \in Vessel : MarkStale(v) \/ PurgeStale(v)
        BY <1>4 DEF Sweep
    <2> QED
        BY DEF TypeOK, MarkStale, PurgeStale
<1>5. CASE CleanupCommits
    <2>1. \A v \in marked : state[v] \in Row
        BY DEF TypeOK, SweepIsOld, Older, IsRow
    <2>2. \A v \in marked : [state[v] EXCEPT !.stale = TRUE] \in Row
        BY <2>1 DEF Row
    <2>3. state' \in [Vessel -> Row \union {NoRow}]
        BY <1>5, <2>2 DEF TypeOK, CleanupCommits
    <2> QED
        BY <1>5, <2>3 DEF TypeOK, CleanupCommits, CleanupEnds
<1>6. CASE ApplyRule
    BY <1>6 DEF TypeOK, ApplyRule, Rule
<1>7. CASE RuleFails
    BY <1>7 DEF TypeOK, RuleFails
<1>8. CASE CleanupFails
    <2>1. faults' \in [FaultKind -> Nat]
        BY <1>8, FaultTyped DEF CleanupFails, FaultKind
    <2> QED
        BY <1>8, <2>1 DEF TypeOK, CleanupFails, CleanupAborts, CleanupEnds
<1>9. CASE CleanupIsVictim
    BY <1>9 DEF TypeOK, CleanupIsVictim, CleanupAborts, CleanupEnds
<1> QED
    BY <1>1, <1>2, <1>3, <1>4, <1>5, <1>6, <1>7, <1>8, <1>9 DEF CleanupStep
-----------------------------------------------------------------------------
(* The locks, and what they protect                                        *)

LEMMA LocksStep ==
    ASSUME IInv, [Next]_vars
    PROVE  LocksHeld'
<1> USE DEF IInv
<1>1. CASE \E n \in 1..MaxBatch : BeginBatch(n)
    BY <1>1 DEF BeginBatch, LocksHeld, Locked
<1>2. CASE InsertTracks
    BY <1>2 DEF InsertTracks, LocksHeld, Locked
<1>3. CASE Upsert
    BY <1>3 DEF Upsert, LocksHeld, Locked, TypeOK
<1>4. CASE WriterCommits \/ WriterUnheard \/ WriterFails \/ WriterIsVictim
    BY <1>4 DEF WriterCommits, WriterUnheard, WriterFails, WriterIsVictim, WriterAborts,
       WriterEnds, LocksHeld, Locked
<1>5. CASE DeleteTracks \/ ScanStale \/ ScanPurge \/ ApplyRule \/ RuleFails
    BY <1>5 DEF DeleteTracks, ScanStale, ScanPurge, ApplyRule, RuleFails, LocksHeld, Locked
<1>6. CASE Sweep
    <2> PICK v \in Vessel : MarkStale(v) \/ PurgeStale(v)
        BY <1>6 DEF Sweep
    <2> QED
        BY DEF MarkStale, PurgeStale, LocksHeld, Locked
<1>7. CASE CleanupCommits \/ CleanupFails \/ CleanupIsVictim
    BY <1>7 DEF CleanupCommits, CleanupFails, CleanupIsVictim, CleanupAborts, CleanupEnds,
       LocksHeld, Locked
<1>8. CASE UNCHANGED <<writer, cleanup>>
    BY <1>8 DEF LocksHeld, Locked
<1> QED
    BY <1>1, <1>2, <1>3, <1>4, <1>5, <1>6, <1>7, <1>8 DEF Next, WriterStep, CleanupStep,
       Resolve, Tick, Report, Replay, vars

\* The rows the cleanup has locked are those it saw: no commit of the writer
\* changes them.
LEMMA LockedUnchanged ==
    ASSUME IInv, Written, NEW v \in Vessel, Locked(v)
    PROVE  state'[v] = state[v]
    BY DEF IInv, LocksHeld, Written

LEMMA SweepStep ==
    ASSUME IInv, [Next]_vars
    PROVE  SweepIsOld'
<1> USE DEF IInv
<1>1. CASE Tick
    BY <1>1 DEF Tick, SweepIsOld, Older, IsRow, TypeOK
<1>2. CASE WriterCommits \/ WriterUnheard
    <2>1. Written /\ UNCHANGED <<clock, cleanup>>
        BY <1>2 DEF WriterCommits, WriterUnheard
    <2>2. \A v \in marked \union purged : state'[v] = state[v]
        BY <2>1, LockedUnchanged DEF TypeOK, Locked
    <2> QED
        BY <2>1, <2>2 DEF SweepIsOld, Older, IsRow
<1>3. CASE DeleteTracks
    <2>1. marked' = {} /\ purged' = {}
        BY <1>3 DEF DeleteTracks, LocksHeld
    <2> QED
        BY <1>3, <2>1 DEF DeleteTracks, SweepIsOld, TypeOK
<1>4. CASE ScanStale \/ ScanPurge \/ ApplyRule \/ RuleFails
    BY <1>4 DEF ScanStale, ScanPurge, ApplyRule, RuleFails, SweepIsOld, Older, IsRow
<1>5. CASE Sweep
    <2> PICK v \in Vessel : MarkStale(v) \/ PurgeStale(v)
        BY <1>5 DEF Sweep
    <2>1. UNCHANGED <<clock, started, state, doomed>>
        BY DEF MarkStale, PurgeStale
    <2>2. \A u \in marked' : Older(u, StaleAge)
        BY DEF MarkStale, PurgeStale, Candidate, SweepIsOld
    <2>3. \A u \in purged' : Older(u, PurgeAge)
        BY DEF MarkStale, PurgeStale, SweepIsOld
    <2> QED
        BY <2>1, <2>2, <2>3 DEF SweepIsOld, Older, IsRow
<1>6. CASE CleanupCommits \/ CleanupFails \/ CleanupIsVictim
    <2>1. started' = 0 /\ marked' = {} /\ purged' = {} /\ doomed' = {} /\ clock' = clock
        BY <1>6 DEF CleanupCommits, CleanupFails, CleanupIsVictim, CleanupAborts, CleanupEnds
    <2> QED
        BY <2>1 DEF SweepIsOld, TypeOK
<1>7. CASE UNCHANGED <<clock, state, cleanup>>
    BY <1>7 DEF SweepIsOld, Older, IsRow
<1> QED
    BY <1>1, <1>2, <1>3, <1>4, <1>5, <1>6, <1>7 DEF Next, WriterStep, CleanupStep,
       Resolve, BeginBatch, InsertTracks, Upsert, WriterFails, WriterIsVictim, WriterAborts,
       WriterEnds, Report, Replay, vars

\* A vessel is marked only while it is silent, and a new position clears it.
LEMMA StaleStep ==
    ASSUME IInv, [Next]_vars
    PROVE  StaleIsOld'
<1> USE DEF IInv
<1>1. CASE Tick
    <2>1. \A v \in Stale : state[v] \in Row
        BY DEF TypeOK, Stale, IsRow
    <2>2. \A v \in Stale : state[v].seen \in Nat
        BY <2>1 DEF Row
    <2>3. Stale' = Stale /\ state' = state /\ clock' = clock + 1 /\ clock \in Nat
        BY <1>1 DEF Tick, Stale, IsRow, TypeOK
    <2> QED
        BY <2>2, <2>3, AgeAssumption DEF StaleIsOld
<1>2. CASE WriterCommits \/ WriterUnheard
    <2>1. Written /\ UNCHANGED clock
        BY <1>2 DEF WriterCommits, WriterUnheard
    <2>2. ASSUME NEW v \in Vessel PROVE v \in Stale' => v \in Stale /\ state'[v] = state[v]
        BY <2>1 DEF Written, Stale, IsRow, DraftTracked
    <2> QED
        BY <2>1, <2>2 DEF StaleIsOld, Stale
<1>3. CASE CleanupCommits
    <2> SUFFICES ASSUME NEW v \in Stale' PROVE state'[v].seen < clock - StaleAge
        BY <1>3 DEF StaleIsOld, CleanupCommits
    <2>1. v \in Vessel /\ v \notin purged /\ IsRow(v)'
        BY <1>3 DEF Stale, IsRow, CleanupCommits
    <2>2. CASE v \in marked
        <3>1. state[v] \in Row /\ state[v].seen < started - StaleAge /\ started <= clock
            BY <2>1, <2>2 DEF SweepIsOld, Older, IsRow, TypeOK
        <3>2. state'[v] = [state[v] EXCEPT !.stale = TRUE]
            BY <1>3, <2>1, <2>2 DEF CleanupCommits
        <3>3. state'[v].seen = state[v].seen
            BY <3>1, <3>2 DEF Row
        <3> QED
            BY <3>1, <3>3, AgeAssumption DEF TypeOK, Row
    <2>3. CASE v \notin marked
        <3>1. state'[v] = state[v]
            BY <1>3, <2>1, <2>3 DEF CleanupCommits
        <3> QED
            BY <2>1, <3>1 DEF StaleIsOld, Stale, IsRow
    <2> QED
        BY <2>2, <2>3
<1>4. CASE UNCHANGED <<clock, state>>
    BY <1>4 DEF StaleIsOld, Stale, IsRow
<1> QED
    BY <1>1, <1>2, <1>3, <1>4 DEF Next, WriterStep, CleanupStep, Sweep, Resolve,
       BeginBatch, InsertTracks, Upsert, WriterFails, WriterIsVictim, WriterAborts, Report,
       Replay, DeleteTracks, ScanStale, ScanPurge, MarkStale, PurgeStale, ApplyRule, RuleFails,
       CleanupFails, CleanupIsVictim, CleanupAborts, vars

-----------------------------------------------------------------------------
(* The track of a state                                                    *)

\* A position that was in the track, or due for deletion, is so after a step
\* that adds positions, deletes old ones, or lets time pass.
LEMMA TrackedStays ==
    ASSUME TypeOK, TypeOK', SweepIsOld, NEW v \in Vessel, NEW r \in Row,
           NEW rows \in SUBSET Position, NEW rows2 \in SUBSET Position,
           rows \ doomed \subseteq rows2, clock <= clock', Tracked(v, r, rows)
    PROVE  [vessel |-> v, time |-> r.seen] \in rows2 \/ r.seen < clock' - RetainAge
<1> DEFINE p == [vessel |-> v, time |-> r.seen]
<1>1. r.seen \in Nat /\ p.time = r.seen
    BY DEF Row
<1>2. clock \in Nat /\ clock' \in Nat /\ started \in Nat
    BY DEF TypeOK
<1>3. CASE r.seen < clock - RetainAge
    BY <1>1, <1>2, <1>3, AgeAssumption
<1>4. CASE p \in doomed
    <2>1. r.seen < started - RetainAge /\ started <= clock
        BY <1>1, <1>4 DEF SweepIsOld
    <2> QED
        BY <1>1, <1>2, <2>1, AgeAssumption
<1>5. CASE p \in rows /\ p \notin doomed
    BY <1>5
<1> QED
    BY <1>3, <1>4, <1>5 DEF Tracked

\* What a step can do to the clock and the track.
LEMMA TrackStays ==
    ASSUME IInv, [Next]_vars, TypeOK'
    PROVE  clock <= clock' /\ track \ doomed \subseteq track'
<1>1. clock' = clock \/ clock' = clock + 1
    BY DEF Next, WriterStep, CleanupStep, Sweep, Resolve, Tick,
       BeginBatch, InsertTracks, Upsert, WriterCommits, WriterUnheard, WriterFails,
       WriterIsVictim, WriterAborts, Report, Replay, DeleteTracks, ScanStale, ScanPurge,
       MarkStale, PurgeStale, CleanupCommits, ApplyRule, RuleFails, CleanupFails,
       CleanupIsVictim, CleanupAborts, vars
<1>2. track \ doomed \subseteq track'
    BY DEF Next, WriterStep, CleanupStep, Sweep, Resolve, Tick,
       BeginBatch, InsertTracks, Upsert, WriterCommits, WriterUnheard, Written, WriterFails,
       WriterIsVictim, WriterAborts, Report, Replay, DeleteTracks, ScanStale, ScanPurge,
       MarkStale, PurgeStale, CleanupCommits, ApplyRule, RuleFails, CleanupFails,
       CleanupIsVictim, CleanupAborts, vars
<1> QED
    BY <1>1, <1>2 DEF IInv, TypeOK

LEMMA StateTrackedStep ==
    ASSUME IInv, [Next]_vars, TypeOK'
    PROVE  StateTracked'
<1> USE DEF IInv
<1> SUFFICES ASSUME NEW v \in Vessel, IsRow(v)'
             PROVE  Tracked(v, state[v], track)'
    BY DEF StateTracked
<1>1. clock <= clock' /\ track \ doomed \subseteq track'
    BY TrackStays
<1>2. track \in SUBSET Position /\ track' \in SUBSET Position
    BY DEF TypeOK
<1>3. CASE IsRow(v) /\ state'[v].seen = state[v].seen
    <2>1. state[v] \in Row /\ Tracked(v, state[v], track)
        BY <1>3 DEF TypeOK, IsRow, StateTracked
    <2>2. [vessel |-> v, time |-> state[v].seen] \in track'
              \/ state[v].seen < clock' - RetainAge
        BY <1>1, <1>2, <2>1, TrackedStays
    <2> QED
        BY <1>3, <2>2 DEF Tracked
<1>4. CASE Written /\ UNCHANGED clock
    <2>1. CASE draft[v] = NoRow
        BY <1>3, <1>4, <2>1 DEF Written, IsRow
    <2>2. CASE draft[v] # NoRow
        <3>1. state'[v] = draft[v] /\ track' = track \union inserted
            BY <1>4, <2>2 DEF Written
        <3>2. Tracked(v, draft[v], track \union inserted)
            BY <2>2 DEF DraftTracked
        <3> QED
            BY <1>4, <3>1, <3>2 DEF Tracked
    <2> QED
        BY <2>1, <2>2
<1>5. CASE CleanupCommits
    <2>1. v \notin purged
        BY <1>5 DEF CleanupCommits, IsRow
    <2>2. CASE v \in marked
        <3>1. state[v] \in Row /\ IsRow(v)
            BY <2>2 DEF SweepIsOld, Older, IsRow, TypeOK
        <3>2. state'[v] = [state[v] EXCEPT !.stale = TRUE]
            BY <1>5, <2>1, <2>2 DEF CleanupCommits
        <3>3. state'[v].seen = state[v].seen
            BY <3>1, <3>2 DEF Row
        <3> QED
            BY <1>3, <3>1, <3>3
    <2>3. CASE v \notin marked
        BY <1>3, <1>5, <2>1, <2>3 DEF CleanupCommits, IsRow
    <2> QED
        BY <2>2, <2>3
<1>6. CASE UNCHANGED state
    BY <1>3, <1>6 DEF IsRow
<1> QED
    BY <1>4, <1>5, <1>6 DEF Next, WriterStep, CleanupStep, Sweep, Resolve, Tick,
       BeginBatch, InsertTracks, Upsert, WriterCommits, WriterUnheard, WriterFails,
       WriterIsVictim, WriterAborts, Report, Replay, DeleteTracks, ScanStale, ScanPurge,
       MarkStale, PurgeStale, ApplyRule, RuleFails, CleanupFails,
       CleanupIsVictim, CleanupAborts, vars

\* A step of anyone else leaves the writer's transaction tracked.
LEMMA DraftUnchanged ==
    ASSUME IInv, [Next]_vars, TypeOK', UNCHANGED <<next, writer>>,
           \A i \in next..upto : log'[i] = log[i]
    PROVE  DraftTracked'
<1> USE DEF IInv
<1>1. clock <= clock' /\ track \ doomed \subseteq track'
    BY TrackStays
<1>2. (track \union inserted) \ doomed \subseteq (track \union inserted)'
    BY <1>1
<1>3. /\ track \union inserted \in SUBSET Position
      /\ (track \union inserted)' \in SUBSET Position
    BY DEF TypeOK
<1>4. ASSUME wpc = "states", NEW i \in next..upto
      PROVE  log[i] \in (track \union inserted)' \/ log[i].time < clock' - RetainAge
    <2>1. log[i] \in Position
        BY BatchTyped
    <2>2. [seen |-> log[i].time, stale |-> FALSE] \in Row
        BY <2>1 DEF Position, Row
    <2>3. log[i] = [vessel |-> log[i].vessel, time |-> log[i].time] /\ log[i].vessel \in Vessel
        BY <2>1 DEF Position
    <2>4. PICK v \in Vessel, r \in Row :
              [vessel |-> v, time |-> r.seen] = log[i] /\ r.seen = log[i].time
        BY <2>2, <2>3
    <2>5. Tracked(v, r, track \union inserted)
        BY <1>4, <2>4 DEF DraftTracked, Tracked
    <2>6. [vessel |-> v, time |-> r.seen] \in (track \union inserted)'
              \/ r.seen < clock' - RetainAge
        BY <1>1, <1>2, <1>3, <2>5, TrackedStays
    <2> QED
        BY <2>4, <2>6
<1>5. ASSUME NEW v \in Vessel, draft[v] # NoRow
      PROVE  ~draft[v].stale /\ Tracked(v, draft[v], track \union inserted)'
    <2> draft' = draft
        OBVIOUS
    <2>1. draft[v] \in Row /\ ~draft[v].stale /\ Tracked(v, draft[v], track \union inserted)
        BY <1>5 DEF TypeOK, DraftTracked
    <2>2. [vessel |-> v, time |-> draft[v].seen] \in (track \union inserted)'
              \/ draft[v].seen < clock' - RetainAge
        BY <1>1, <1>2, <1>3, <2>1, TrackedStays
    <2> QED
        BY <2>1, <2>2 DEF Tracked
<1> QED
    BY <1>4, <1>5 DEF DraftTracked

LEMMA DraftStep ==
    ASSUME IInv, [Next]_vars, TypeOK'
    PROVE  DraftTracked'
<1> USE DEF IInv
<1>1. CASE \E n \in 1..MaxBatch : BeginBatch(n)
    <2> PICK n \in 1..MaxBatch : BeginBatch(n)
        BY <1>1
    <2>1. wpc' = "tracks" /\ draft' = draft /\ \A v \in Vessel : draft[v] = NoRow
        BY DEF BeginBatch, LocksHeld
    <2>2. row' \in next'..(upto' + 1)
        BY BoundAssumption, LenProperties DEF BeginBatch, TypeOK
    <2> QED
        BY <2>1, <2>2 DEF DraftTracked
<1>2. CASE InsertTracks
    <2>1. UNCHANGED <<clock, log, next, track, upto, row, draft>> /\ inserted' = Batch \ track
          /\ \A v \in Vessel : draft[v] = NoRow
        BY <1>2 DEF InsertTracks, LocksHeld
    <2>2. row \in next..(upto + 1)
        BY <1>2 DEF InsertTracks, DraftTracked
    <2>3. \A i \in next..upto : log[i] \in track \union (Batch \ track)
        BY DEF Batch
    <2> QED
        BY <2>1, <2>2, <2>3 DEF DraftTracked
<1>3. CASE Upsert
    <2> DEFINE u == log[row].vessel
               r == [seen |-> log[row].time, stale |-> FALSE]
    <2>1. /\ UNCHANGED <<clock, log, next, track, upto, inserted, wpc>>
          /\ draft' = [draft EXCEPT ![u] = r]
        BY <1>3 DEF Upsert
    <2>2. row \in next..upto /\ row' \in next..(upto + 1)
        BY <1>3, LenProperties DEF Upsert, DraftTracked, TypeOK
    <2>3. log[row] \in Position
        BY <2>2, BatchTyped
    <2>4. /\ u \in Vessel /\ [vessel |-> u, time |-> r.seen] = log[row]
          /\ r.seen = log[row].time /\ ~r.stale
        BY <2>3 DEF Position
    <2>5. Tracked(u, r, track \union inserted)
        BY <1>3, <2>2, <2>4 DEF Upsert, DraftTracked, Tracked
    <2> HIDE DEF u, r
    <2>6. ASSUME NEW v \in Vessel, draft'[v] # NoRow
          PROVE  ~draft'[v].stale /\ Tracked(v, draft'[v], track \union inserted)
        <3>1. CASE v = u
            <4>1. draft'[v] = r
                BY <2>1, <3>1 DEF TypeOK
            <4> QED
                BY <2>4, <2>5, <3>1, <4>1
        <3>2. CASE v # u
            <4>1. draft'[v] = draft[v]
                BY <2>1, <3>2 DEF TypeOK
            <4> QED
                BY <2>6, <4>1 DEF DraftTracked
        <3> QED
            BY <3>1, <3>2
    <2> QED
        BY <2>1, <2>2, <2>6 DEF DraftTracked, Tracked
<1>4. CASE WriterCommits \/ WriterUnheard \/ WriterFails \/ WriterIsVictim
    <2>1. wpc' = "idle" /\ \A v \in Vessel : draft'[v] = NoRow
        BY <1>4 DEF WriterCommits, WriterUnheard, WriterFails, WriterIsVictim, WriterAborts,
           WriterEnds
    <2> QED
        BY <2>1 DEF DraftTracked
<1>5. CASE \E n \in 1..MaxReports : Replay(n)
    <2>1. wpc' = "idle" /\ draft' = draft /\ \A v \in Vessel : draft[v] = NoRow
        BY <1>5 DEF Replay, LocksHeld
    <2> QED
        BY <2>1 DEF DraftTracked
<1>6. CASE \E v \in Vessel, t \in 0..MaxClock : Report(v, t)
    <2> PICK v \in Vessel, t \in 0..MaxClock : Report(v, t)
        BY <1>6
    <2>1. [vessel |-> v, time |-> t] \in Position
        BY BoundAssumption DEF Position
    <2>2. \A i \in 1..Len(log) : log'[i] = log[i]
        BY <2>1, LogGrows DEF Report, TypeOK
    <2>3. \A i \in next..upto : i \in 1..Len(log)
        BY LenProperties DEF TypeOK
    <2> QED
        BY <2>2, <2>3, DraftUnchanged DEF Report
<1>7. CASE UNCHANGED <<log, next, writer>>
    BY <1>7, DraftUnchanged
<1> QED
    BY <1>1, <1>2, <1>3, <1>4, <1>5, <1>6, <1>7 DEF Next, WriterStep, CleanupStep, Sweep,
       Resolve, Tick, DeleteTracks, ScanStale, ScanPurge, MarkStale, PurgeStale,
       CleanupCommits, ApplyRule, RuleFails, CleanupFails, CleanupIsVictim, CleanupAborts, vars

-----------------------------------------------------------------------------
(* The theorems                                                            *)

LEMMA InitIInv == Init => IInv
<1> SUFFICES ASSUME Init PROVE IInv
    OBVIOUS
<1>1. TypeOK
    BY EmptySeq, LenProperties DEF Init, TypeOK, Rule
<1>2. LocksHeld /\ SweepIsOld /\ StaleIsOld /\ StateTracked /\ DraftTracked
    BY DEF Init, LocksHeld, Locked, SweepIsOld, StaleIsOld, Stale, IsRow, StateTracked,
       DraftTracked
<1> QED
    BY <1>1, <1>2 DEF IInv

LEMMA StepType ==
    ASSUME IInv, [Next]_vars
    PROVE  TypeOK'
<1>1. CASE Tick
    BY <1>1 DEF IInv, Tick, TypeOK
<1>2. CASE \E v \in Vessel, t \in 0..MaxClock : Report(v, t)
    BY <1>2, ReportType DEF IInv
<1>3. CASE WriterStep \/ WriterUnheard \/ WriterFails \/ WriterIsVictim
           \/ \E n \in 1..MaxReports : Replay(n)
    BY <1>3, WriterType
<1>4. CASE CleanupStep \/ CleanupFails \/ CleanupIsVictim
    BY <1>4, CleanupType
<1>5. CASE UNCHANGED vars
    BY <1>5 DEF IInv, vars, TypeOK
<1> QED
    BY <1>1, <1>2, <1>3, <1>4, <1>5 DEF Next, Resolve

LEMMA StepIInv == IInv /\ [Next]_vars => IInv'
<1> SUFFICES ASSUME IInv, [Next]_vars PROVE IInv'
    OBVIOUS
<1>1. TypeOK'
    BY StepType
<1> QED
    BY <1>1, LocksStep, SweepStep, StaleStep, StateTrackedStep, DraftStep DEF IInv

\* The inductive invariant holds in every reachable state: what either
\* transaction has written and not committed is still right when it commits.
THEOREM Invariance == Spec => []IInv
    BY InitIInv, StepIInv, PTL DEF Spec

\* Every variable keeps its type.
THEOREM TypeCorrect == Spec => []TypeOK
<1>1. IInv => TypeOK
    BY DEF IInv
<1> QED
    BY <1>1, Invariance, PTL

\* No vessel is counted both as fresh and as stale, provided that the API's
\* fixed 45 minutes are not more than the cleanup's setting.
THEOREM FreshOrStale == Spec => []NeverFreshAndStale
<1>1. IInv => NeverFreshAndStale
    <2> SUFFICES ASSUME IInv, NEW v \in Fresh, v \in Stale PROVE FALSE
        BY DEF NeverFreshAndStale
    <2>1. state[v] \in Row /\ clock \in Nat
        BY DEF IInv, TypeOK, Fresh, IsRow
    <2>2. state[v].seen \in Nat
        BY <2>1 DEF Row
    <2>3. state[v].seen > clock - FreshAge /\ state[v].seen < clock - StaleAge
        BY DEF IInv, StaleIsOld, Fresh
    <2> QED
        BY <2>1, <2>2, <2>3, AgeAssumption
<1> QED
    BY <1>1, Invariance, PTL

\* A state has its position in the track until the retention deletes it.
THEOREM TrackKept == Spec => []StateTracked
<1>1. IInv => StateTracked
    BY DEF IInv
<1> QED
    BY <1>1, Invariance, PTL

-----------------------------------------------------------------------------
(* Reporting vessels                                                       *)

\* Positions of one vessel are in the log in the order of their times.
LogOrdered ==
    \A i, j \in 1..Len(log) :
        i < j /\ log[i].vessel = log[j].vessel => log[i].time <= log[j].time

\* A position that the cleanup leaves alone.
Recent(p) == p.time >= clock - StaleAge /\ (PurgeAge > 0 => p.time >= clock - PurgeAge)

\* Its vessel is shown at it or at a later one.
Shown(p) == IsRow(p.vessel) /\ state[p.vessel].seen >= p.time /\ ~state[p.vessel].stale

\* So it is for the positions the writer is through with.
WrittenShown == \A i \in 1..(next - 1) : Recent(log[i]) => Shown(log[i])

\* So it will be for those of its transaction: what it has drafted for a vessel
\* is its latest position up to here, and there is a draft for every one of them.
DraftShown ==
    wpc = "states" =>
        /\ \A i \in 1..(row - 1) :
               draft[log[i].vessel] # NoRow => draft[log[i].vessel].seen >= log[i].time
        /\ \A i \in next..(row - 1) : draft[log[i].vessel] # NoRow

\* The track has what was read, and what was written unless positions are read
\* or written again.
TrackRead ==
    /\ inserted \subseteq Batch
    /\ track \subseteq {log[i] : i \in 1..Len(log)}
    /\ faults["replay"] = 0 => track \subseteq {log[i] : i \in 1..(next - 1)}

\* A batch is upserted from its first position, and nothing is purged without a
\* setting.
StatementsOrdered ==
    /\ wpc = "tracks" => row = next
    /\ PurgeAge = 0 => cpc # "purging" /\ purged = {}

\* What ReportingShown needs to be inductive, beside IInv.
ReportInv ==
    /\ TrackRead /\ StatementsOrdered
    /\ faults["late"] = 0 => LogOrdered /\ WrittenShown /\ DraftShown

\* A failure is counted, and counts do not fall.
LEMMA FaultsCounted ==
    ASSUME IInv, [Next]_vars, NEW k \in FaultKind, faults'[k] = 0
    PROVE  faults[k] = 0 /\ ~Fault(k)
<1> USE DEF IInv, TypeOK
<1>1. ASSUME NEW j \in FaultKind, Fault(j) PROVE faults[k] = 0 /\ j # k
    BY <1>1 DEF Fault
<1>2. UNCHANGED faults \/ \E j \in FaultKind : Fault(j)
    BY DEF Next, WriterStep, CleanupStep, Sweep, Resolve, Tick,
       BeginBatch, InsertTracks, Upsert, WriterCommits, WriterUnheard, WriterFails,
       WriterIsVictim, Report, Replay, DeleteTracks, ScanStale, ScanPurge,
       MarkStale, PurgeStale, CleanupCommits, ApplyRule, RuleFails, CleanupFails,
       CleanupIsVictim, vars, FaultKind
<1> QED
    BY <1>1, <1>2

\* A step leaves the positions that the log has where they are.
LEMMA LogKept ==
    ASSUME IInv, [Next]_vars
    PROVE  /\ Len(log) \in Nat /\ Len(log') \in Nat /\ Len(log) <= Len(log')
           /\ \A i \in 1..Len(log) : log'[i] = log[i] /\ log[i] \in Position
<1>1. Len(log) \in Nat /\ \A i \in 1..Len(log) : log[i] \in Position
    BY LenProperties, LogTyped DEF IInv, TypeOK
<1>2. CASE \E v \in Vessel, t \in 0..MaxClock : Report(v, t)
    <2> PICK v \in Vessel, t \in 0..MaxClock : Report(v, t)
        BY <1>2
    <2>1. [vessel |-> v, time |-> t] \in Position
        BY BoundAssumption DEF Position
    <2> QED
        BY <1>1, <2>1, LogGrows DEF Report, IInv, TypeOK
<1>3. CASE UNCHANGED log
    BY <1>1, <1>3
<1> QED
    BY <1>2, <1>3 DEF Next, WriterStep, CleanupStep, Sweep, Resolve, Tick,
       BeginBatch, InsertTracks, Upsert, WriterCommits, WriterUnheard, WriterFails,
       WriterIsVictim, WriterAborts, Replay, DeleteTracks, ScanStale, ScanPurge,
       MarkStale, PurgeStale, CleanupCommits, ApplyRule, RuleFails, CleanupFails,
       CleanupIsVictim, CleanupAborts, vars

\* A position that arrives in order leaves the log in order.
LEMMA OrderStep ==
    ASSUME IInv, [Next]_vars, LogOrdered, faults'["late"] = 0
    PROVE  LogOrdered'
<1>1. CASE \E v \in Vessel, t \in 0..MaxClock : Report(v, t)
    <2> PICK v \in Vessel, t \in 0..MaxClock : Report(v, t)
        BY <1>1
    <2> DEFINE p == [vessel |-> v, time |-> t]
    <2>1. p \in Position /\ p.vessel = v /\ p.time = t /\ t \in Nat
        BY BoundAssumption DEF Position
    <2>2. log' = Append(log, p)
        BY DEF Report
    <2>3. /\ Len(log) \in Nat /\ Len(log') = Len(log) + 1 /\ log'[Len(log) + 1] = p
          /\ \A i \in 1..Len(log) : log'[i] = log[i] /\ log[i] \in Position
        BY <2>1, <2>2, LogKept, AppendProperties DEF IInv, TypeOK
    <2>4. ~Fault("late")
        BY FaultsCounted DEF FaultKind
    <2>5. \A i \in 1..Len(log) : log[i].vessel = v => ~(log[i].time > t)
        BY <2>3, <2>4, LenProperties DEF Report, IInv, TypeOK
    <2>6. \A i \in 1..Len(log) : log[i].time \in Nat
        BY <2>3 DEF Position
    <2> HIDE DEF p
    <2> SUFFICES ASSUME NEW i \in 1..Len(log'), NEW j \in 1..Len(log'), i < j,
                        log'[i].vessel = log'[j].vessel
                 PROVE  log'[i].time <= log'[j].time
        BY DEF LogOrdered
    <2>7. i \in 1..Len(log)
        BY <2>3
    <2>8. CASE j \in 1..Len(log)
        BY <2>3, <2>7, <2>8 DEF LogOrdered
    <2>9. CASE j = Len(log) + 1
        BY <2>1, <2>3, <2>5, <2>6, <2>7, <2>9
    <2> QED
        BY <2>3, <2>8, <2>9
<1>2. CASE UNCHANGED log
    BY <1>2 DEF LogOrdered
<1> QED
    BY <1>1, <1>2 DEF Next, WriterStep, CleanupStep, Sweep, Resolve, Tick,
       BeginBatch, InsertTracks, Upsert, WriterCommits, WriterUnheard, WriterFails,
       WriterIsVictim, WriterAborts, Replay, DeleteTracks, ScanStale, ScanPurge,
       MarkStale, PurgeStale, CleanupCommits, ApplyRule, RuleFails, CleanupFails,
       CleanupIsVictim, CleanupAborts, vars

\* The batch stays the same until its transaction ends.
LEMMA BatchKept ==
    ASSUME IInv, [Next]_vars, UNCHANGED <<next, upto>>
    PROVE  Batch' = Batch
<1>1. \A i \in next..upto : i \in 1..Len(log)
    BY LogKept DEF IInv, TypeOK
<1> QED
    BY <1>1, LogKept DEF Batch

LEMMA TrackReadStep ==
    ASSUME IInv, [Next]_vars, TrackRead
    PROVE  TrackRead'
<1> USE DEF IInv
<1> DEFINE Read(s, n) == {s[i] : i \in 1..n}
<1>1. \A n \in 0..Len(log) : Read(log, n) = Read(log', n)
    BY LogKept
<1>2. /\ next \in 1..(Len(log) + 1) /\ upto \in 0..Len(log)
      /\ Len(log) \in Nat /\ Len(log') \in Nat /\ Len(log) <= Len(log')
    BY LogKept DEF TypeOK
<1>3. /\ track \subseteq Read(log, Len(log)) /\ inserted \subseteq Batch
      /\ faults["replay"] = 0 => track \subseteq Read(log, next - 1)
    BY DEF TrackRead
<1>4. faults'["replay"] = 0 => faults["replay"] = 0 /\ ~Fault("replay")
    BY FaultsCounted DEF FaultKind
<1>5. Read(log, Len(log)) \subseteq Read(log', Len(log'))
    <2>1. Read(log', Len(log)) \subseteq Read(log', Len(log'))
        BY <1>2
    <2>2. Read(log, Len(log)) = Read(log', Len(log))
        BY LogKept
    <2> HIDE DEF Read
    <2> QED
        BY <2>1, <2>2
<1>6. Batch \subseteq Read(log, upto) /\ Batch \subseteq Read(log, Len(log))
    BY <1>2 DEF Batch
<1>7. CASE \E n \in 1..MaxBatch : BeginBatch(n)
    <2>1. inserted = {} /\ UNCHANGED <<log, next, track, inserted, faults>>
        BY <1>7 DEF BeginBatch, LocksHeld
    <2> QED
        BY <2>1 DEF TrackRead
<1>8. CASE InsertTracks
    BY <1>8 DEF InsertTracks, TrackRead, Batch
<1>9. CASE WriterCommits \/ WriterUnheard
    <2>1. Written /\ UNCHANGED log /\ inserted' = {}
        BY <1>9 DEF WriterCommits, WriterUnheard, WriterEnds
    <2>2. track' \subseteq Read(log, Len(log))
        BY <1>3, <1>6, <2>1 DEF Written
    <2>3. ASSUME faults'["replay"] = 0 PROVE track' \subseteq Read(log, next' - 1)
        <3>1. WriterCommits /\ track \subseteq Read(log, next - 1)
            BY <1>3, <1>4, <1>9, <2>3 DEF WriterUnheard
        <3>2. row > upto /\ row \in next..(upto + 1) /\ next' = upto + 1
            BY <3>1 DEF WriterCommits, Written, DraftTracked
        <3>3. Read(log, next - 1) \subseteq Read(log, upto)
            BY <1>2, <3>2
        <3>4. track' \subseteq Read(log, upto)
            BY <1>3, <1>6, <2>1, <3>1, <3>3 DEF Written
        <3> QED
            BY <1>2, <3>2, <3>4
    <2> QED
        BY <2>1, <2>2, <2>3 DEF TrackRead
<1>10. CASE WriterFails \/ WriterIsVictim
    <2>1. inserted' = {} /\ UNCHANGED <<log, next, track>>
        BY <1>10 DEF WriterFails, WriterIsVictim, WriterAborts, WriterEnds
    <2> QED
        BY <1>3, <1>4, <2>1 DEF TrackRead
<1>11. CASE \E n \in 1..MaxReports : Replay(n)
    <2>1. inserted = {} /\ UNCHANGED <<log, inserted, track>> /\ Fault("replay")
        BY <1>11 DEF Replay, LocksHeld
    <2> QED
        BY <1>3, <1>4, <2>1 DEF TrackRead
<1>12. CASE UNCHANGED <<next, upto, inserted>> /\ track' \subseteq track
    <2>1. Batch' = Batch
        BY <1>12, BatchKept
    <2>2. next - 1 \in 0..Len(log) /\ next' - 1 = next - 1
        BY <1>2, <1>12
    <2>3. Read(log, next - 1) = Read(log', next' - 1)
        BY <1>1, <2>2
    <2> HIDE DEF Read
    <2>4. track' \subseteq Read(log', Len(log')) /\ inserted' \subseteq Batch'
        BY <1>3, <1>5, <1>12, <2>1
    <2>5. faults'["replay"] = 0 => track' \subseteq Read(log', next' - 1)
        BY <1>3, <1>4, <1>12, <2>3
    <2> QED
        BY <2>4, <2>5 DEF Read, TrackRead
<1> QED
    BY <1>7, <1>8, <1>9, <1>10, <1>11, <1>12 DEF Next, WriterStep, CleanupStep, Sweep,
       Resolve, Tick, Upsert, Report, DeleteTracks, ScanStale, ScanPurge,
       MarkStale, PurgeStale, CleanupCommits, ApplyRule, RuleFails, CleanupFails,
       CleanupIsVictim, CleanupAborts, vars

LEMMA StatementsStep ==
    ASSUME IInv, [Next]_vars, StatementsOrdered
    PROVE  StatementsOrdered'
<1> USE DEF IInv, StatementsOrdered
<1>1. CASE UNCHANGED <<next, wpc, row>> /\ (UNCHANGED <<cpc, purged>> \/ CleanupStep \/ CleanupFails \/ CleanupIsVictim)
    <2>1. PurgeAge = 0 => cpc' # "purging" /\ purged' = {}
        BY <1>1 DEF CleanupStep, DeleteTracks, ScanStale, ScanPurge, Sweep, MarkStale,
           PurgeStale, CleanupCommits, ApplyRule, RuleFails, CleanupFails, CleanupIsVictim,
           CleanupAborts, CleanupEnds
    <2> QED
        BY <1>1, <2>1
<1>2. CASE UNCHANGED <<cpc, purged>> /\ (wpc' = "tracks" => row' = next')
    BY <1>2
<1> QED
    BY <1>1, <1>2 DEF Next, WriterStep, CleanupStep, Sweep, Resolve, Tick,
       BeginBatch, InsertTracks, Upsert, WriterCommits, WriterUnheard, WriterFails,
       WriterIsVictim, WriterAborts, WriterEnds, Report, Replay, DeleteTracks, ScanStale, ScanPurge,
       MarkStale, PurgeStale, CleanupCommits, ApplyRule, RuleFails, CleanupFails,
       CleanupIsVictim, CleanupAborts, vars

\* What is drafted for a vessel is its latest position so far.
LEMMA DraftShownStep ==
    ASSUME IInv, [Next]_vars, StatementsOrdered, LogOrdered, DraftShown
    PROVE  DraftShown'
<1> USE DEF IInv
<1>1. row \in Nat \ {0} /\ next \in Nat /\ upto \in 0..Len(log) /\ Len(log) \in Nat
    BY LogKept DEF TypeOK
<1>2. CASE InsertTracks
    <2>1. /\ UNCHANGED <<log, next, row, draft>> /\ row = next
          /\ \A v \in Vessel : draft[v] = NoRow
        BY <1>2 DEF InsertTracks, LocksHeld, StatementsOrdered
    <2>2. \A i \in 1..(row - 1) : log[i].vessel \in Vessel
        <3>1. \A i \in 1..(row - 1) : i \in 1..Len(log)
            BY <1>1, <2>1 DEF TypeOK
        <3> QED
            BY <3>1, LogKept DEF Position
    <2>3. \A i \in next..(row - 1) : FALSE
        BY <1>1, <2>1
    <2> QED
        BY <2>1, <2>2, <2>3 DEF DraftShown
<1>3. CASE Upsert
    <2> DEFINE u == log[row].vessel
               r == [seen |-> log[row].time, stale |-> FALSE]
    <2>1. /\ wpc = "states" /\ UNCHANGED <<log, next>> /\ row' = row + 1
          /\ draft' = [draft EXCEPT ![u] = r] /\ row \in 1..Len(log)
        BY <1>1, <1>3 DEF Upsert
    <2>2. \A i \in 1..row : log[i] \in Position
        BY <1>1, <2>1, LogKept
    <2>3. \A i \in 1..row : log[i].vessel \in Vessel /\ log[i].time \in Nat
        BY <2>2 DEF Position
    <2>9. u \in Vessel /\ log[row].time \in Nat
        BY <2>1, <2>3
    <2>4. draft'[u] = r /\ \A v \in Vessel \ {u} : draft'[v] = draft[v]
        BY <2>1, <2>9 DEF TypeOK
    <2>5. r # NoRow /\ r.seen = log[row].time
        <3>1. r \in Row
            BY <2>9 DEF Row
        <3> QED
            BY <3>1, RowAssumption
    <2> HIDE DEF r
    <2>6. ASSUME NEW i \in 1..row, draft'[log[i].vessel] # NoRow
          PROVE  draft'[log[i].vessel].seen >= log[i].time
        <3>1. CASE log[i].vessel = u
            <4>1. log[i].time <= log[row].time
                BY <1>1, <2>1, <2>3, <3>1 DEF LogOrdered
            <4> QED
                BY <2>1, <2>3, <2>4, <2>5, <2>9, <3>1, <4>1
        <3>2. CASE log[i].vessel # u
            <4>1. i \in 1..(row - 1)
                BY <1>1, <3>2
            <4> QED
                BY <2>1, <2>3, <2>4, <2>6, <3>2, <4>1 DEF DraftShown
        <3> QED
            BY <3>1, <3>2
    <2>7. ASSUME NEW i \in next..row PROVE draft'[log[i].vessel] # NoRow
        <3>1. i \in 1..row
            BY <1>1, <2>7 DEF TypeOK
        <3>2. CASE i = row
            BY <2>4, <2>5, <3>2
        <3>3. CASE i # row
            <4>1. draft[log[i].vessel] # NoRow
                BY <1>1, <2>1, <3>3 DEF DraftShown
            <4> QED
                BY <2>3, <2>4, <2>5, <3>1, <4>1
        <3> QED
            BY <3>2, <3>3
    <2>8. row' - 1 = row
        BY <1>1, <2>1
    <2> QED
        BY <2>1, <2>6, <2>7, <2>8 DEF DraftShown
<1>4. CASE wpc' # "states"
    BY <1>4 DEF DraftShown
<1>5. CASE UNCHANGED <<next, wpc, row, draft>>
    <2>1. CASE wpc # "states"
        BY <1>5, <2>1 DEF DraftShown
    <2>2. CASE wpc = "states"
        <3>1. \A i \in 1..(row - 1) : log'[i] = log[i]
            <4>1. row <= upto + 1
                BY <1>1, <2>2 DEF DraftTracked
            <4> QED
                BY <1>1, <4>1, LogKept
        <3>2. next >= 1
            BY DEF TypeOK
        <3> QED
            BY <1>1, <1>5, <3>1, <3>2 DEF DraftShown
    <2> QED
        BY <2>1, <2>2
<1> QED
    BY <1>2, <1>3, <1>4, <1>5 DEF Next, WriterStep, CleanupStep, Sweep, Resolve, Tick,
       BeginBatch, WriterCommits, WriterUnheard, WriterFails,
       WriterIsVictim, WriterAborts, WriterEnds, Report, Replay, DeleteTracks, ScanStale, ScanPurge,
       MarkStale, PurgeStale, CleanupCommits, ApplyRule, RuleFails, CleanupFails,
       CleanupIsVictim, CleanupAborts, vars

\* A position recent after a step was recent before it.
LEMMA RecentBefore ==
    ASSUME IInv, [Next]_vars, TypeOK', NEW p \in Position, Recent(p)'
    PROVE  Recent(p)
<1>1. clock <= clock' /\ clock \in Nat /\ clock' \in Nat /\ p.time \in Nat
    BY TrackStays DEF IInv, TypeOK, Position
<1> QED
    BY <1>1, AgeAssumption DEF Recent

\* The cleanup neither marks nor purges a vessel shown at a recent position.
LEMMA CleanupSpares ==
    ASSUME IInv, StatementsOrdered, CleanupCommits, NEW p \in Position, Recent(p), Shown(p)
    PROVE  Shown(p)'
<1> DEFINE v == p.vessel
<1>1. v \in Vessel /\ p.time \in Nat /\ clock \in Nat /\ started \in Nat /\ started <= clock
    BY DEF Position, IInv, TypeOK, SweepIsOld
<1>2. state[v] \in Row
    BY <1>1 DEF IInv, TypeOK, Shown, IsRow
<1>3. state[v].seen \in Nat /\ state[v].seen >= p.time
    BY <1>2 DEF Row, Shown
<1>4. v \notin marked
    <2> SUFFICES ASSUME v \in marked PROVE FALSE
        OBVIOUS
    <2>1. state[v].seen < started - StaleAge
        BY DEF IInv, SweepIsOld, Older
    <2> QED
        BY <1>1, <1>3, <2>1, AgeAssumption DEF Recent
<1>5. v \notin purged
    <2> SUFFICES ASSUME v \in purged PROVE FALSE
        OBVIOUS
    <2>1. state[v].seen < started - PurgeAge
        BY DEF IInv, SweepIsOld, Older
    <2>2. PurgeAge > 0
        BY AgeAssumption DEF StatementsOrdered
    <2> QED
        BY <1>1, <1>3, <2>1, <2>2, AgeAssumption DEF Recent
<1>6. state'[v] = state[v]
    BY <1>1, <1>4, <1>5 DEF CleanupCommits
<1> QED
    BY <1>6 DEF Shown, IsRow

\* What a batch writes shows its positions, and none that was written before
\* less.
LEMMA WrittenShows ==
    ASSUME IInv, Written, UNCHANGED log, WrittenShown, DraftShown, NEW i \in 1..upto,
           Recent(log[i])
    PROVE  Shown(log[i])'
<1> USE DEF IInv
<1> DEFINE v == log[i].vessel
<1>1. /\ wpc = "states" /\ row = upto + 1 /\ next \in Nat \ {0} /\ upto \in Nat
      /\ i \in 1..Len(log)
    <2>1. next \in Nat \ {0} /\ upto \in 0..Len(log) /\ Len(log) \in Nat
        BY LenProperties DEF TypeOK
    <2>2. wpc = "states" /\ row > upto /\ row \in next..(upto + 1)
        BY DEF Written, DraftTracked
    <2> QED
        BY <2>1, <2>2
<1>2. log[i] \in Position
    BY <1>1, LogTyped
<1>3. v \in Vessel
    BY <1>2 DEF Position
<1>4. CASE draft[v] # NoRow
    <2>1. state'[v] = draft[v]
        BY <1>3, <1>4 DEF Written
    <2>2. draft[v].seen >= log[i].time /\ ~draft[v].stale
        BY <1>1, <1>3, <1>4 DEF DraftShown, DraftTracked
    <2> QED
        BY <1>4, <2>1, <2>2 DEF Shown, IsRow
<1>5. CASE draft[v] = NoRow
    <2>1. state'[v] = state[v]
        BY <1>3, <1>5 DEF Written
    <2>2. i \in 1..(next - 1)
        BY <1>1, <1>5 DEF DraftShown
    <2> QED
        BY <2>1, <2>2 DEF WrittenShown, Shown, IsRow
<1> QED
    BY <1>4, <1>5

\* A vessel shown at a recent position stays shown, when the cleanup commits and
\* when nobody does.
LEMMA KeptShown ==
    ASSUME IInv, [Next]_vars, TypeOK', StatementsOrdered, UNCHANGED state \/ CleanupCommits,
           NEW p \in Position, Recent(p) => Shown(p), Recent(p)'
    PROVE  Shown(p)'
<1>1. Recent(p) /\ Shown(p)
    BY RecentBefore
<1>2. CASE UNCHANGED state
    BY <1>1, <1>2 DEF Shown, IsRow
<1>3. CASE CleanupCommits
    BY <1>1, <1>3, CleanupSpares
<1> QED
    BY <1>2, <1>3

LEMMA WrittenStep ==
    ASSUME IInv, [Next]_vars, TypeOK', StatementsOrdered, WrittenShown, DraftShown
    PROVE  WrittenShown'
<1> DEFINE R(p) == p.time >= clock' - StaleAge /\ (PurgeAge > 0 => p.time >= clock' - PurgeAge)
           S(p) == /\ state'[p.vessel] # NoRow
                   /\ state'[p.vessel].seen >= p.time /\ ~state'[p.vessel].stale
<1> SUFFICES \A i \in 1..(next' - 1) : R(log'[i]) => S(log'[i])
    BY DEF WrittenShown, Recent, Shown, IsRow
<1>1. /\ next \in 1..(Len(log) + 1) /\ upto \in 0..Len(log) /\ Len(log) \in Nat
      /\ next' \in Nat
    <2>1. Len(log) \in Nat /\ Len(log') \in Nat /\ next' \in 1..(Len(log') + 1)
        BY LogKept DEF IInv, TypeOK
    <2> QED
        BY <2>1 DEF IInv, TypeOK
<1>2. CASE WriterCommits \/ WriterUnheard
    <2>1. Written /\ log' = log /\ clock' = clock
        BY <1>2 DEF WriterCommits, WriterUnheard
    <2>2. next' = upto + 1 \/ next' = next
        BY <1>2 DEF WriterCommits, WriterUnheard
    <2>3. next <= upto + 1
        <3>1. row \in next..(upto + 1)
            BY <2>1 DEF Written, IInv, DraftTracked
        <3> QED
            BY <1>1, <3>1
    <2>4. ASSUME NEW i \in 1..upto, R(log[i]) PROVE S(log[i])
        <3>1. Recent(log[i])
            BY <2>1, <2>4 DEF Recent
        <3>2. Shown(log[i])'
            BY <2>1, <3>1, WrittenShows
        <3> QED
            BY <2>1, <3>2 DEF Shown, IsRow
    <2> HIDE DEF R, S
    <2>5. \A i \in 1..(next' - 1) : i \in 1..upto
        <3> PICK n \in Nat : n = next'
            BY <1>1
        <3>1. n = upto + 1 \/ n = next
            BY <2>2
        <3>2. upto \in Nat /\ next \in Nat
            BY <1>1
        <3>3. \A i \in 1..(n - 1) : i \in 1..upto
            BY ONLY n \in Nat, <2>3, <3>1, <3>2
        <3> QED
            BY <3>3
    <2> QED
        BY <2>1, <2>4, <2>5
<1>3. ASSUME UNCHANGED state \/ CleanupCommits, next' <= next
      PROVE  \A i \in 1..(next' - 1) : R(log'[i]) => S(log'[i])
    <2> HIDE DEF R, S
    <2>1. \A i \in 1..(next' - 1) : i \in 1..(next - 1) /\ i \in 1..Len(log)
        <3> PICK n \in Nat : n = next'
            BY <1>1
        <3>1. n <= next
            BY <1>3
        <3>2. next \in Nat /\ Len(log) \in Nat /\ next <= Len(log) + 1
            BY <1>1
        <3>3. \A i \in 1..(n - 1) : i \in 1..(next - 1) /\ i \in 1..Len(log)
            BY ONLY n \in Nat, <3>1, <3>2
        <3> QED
            BY <3>3
    <2>2. ASSUME NEW i \in 1..Len(log), i \in 1..(next - 1), R(log'[i]) PROVE S(log'[i])
        <3> PICK p \in Position : log'[i] = p /\ log[i] = p
            BY LogKept
        <3>1. Recent(p) => Shown(p)
            BY <2>2 DEF WrittenShown
        <3>2. Recent(p)'
            BY <2>2 DEF Recent, R
        <3>3. Shown(p)'
            BY <1>3, <3>1, <3>2, KeptShown
        <3> QED
            BY <3>3 DEF Shown, IsRow, S
    <2> QED
        BY <2>1, <2>2
<1>4. CASE \E n \in 1..MaxReports : Replay(n)
    <2>1. UNCHANGED state /\ next' <= next
        BY <1>1, <1>4 DEF Replay
    <2> QED
        BY <1>3, <2>1
<1>5. CASE UNCHANGED next /\ (UNCHANGED state \/ CleanupCommits)
    BY <1>1, <1>3, <1>5
<1>6. CASE CleanupCommits
    <2>1. UNCHANGED next
        BY <1>6 DEF CleanupCommits
    <2> QED
        BY <1>5, <1>6, <2>1
<1> QED
    BY <1>2, <1>4, <1>5, <1>6 DEF Next, WriterStep, CleanupStep, Sweep, Resolve, Tick,
       BeginBatch, InsertTracks, Upsert, WriterFails,
       WriterIsVictim, WriterAborts, Report, DeleteTracks, ScanStale, ScanPurge,
       MarkStale, PurgeStale, ApplyRule, RuleFails, CleanupFails,
       CleanupIsVictim, CleanupAborts, vars

LEMMA StepReport == ASSUME IInv, IInv', ReportInv, [Next]_vars PROVE ReportInv'
<1>1. TrackRead' /\ StatementsOrdered'
    BY TrackReadStep, StatementsStep DEF ReportInv
<1>2. ASSUME faults'["late"] = 0 PROVE LogOrdered' /\ WrittenShown' /\ DraftShown'
    <2>1. faults["late"] = 0
        BY <1>2, FaultsCounted DEF FaultKind
    <2>2. StatementsOrdered /\ LogOrdered /\ WrittenShown /\ DraftShown
        BY <2>1 DEF ReportInv
    <2> QED
        BY <1>2, <2>2, OrderStep, WrittenStep, DraftShownStep DEF IInv
<1> QED
    BY <1>1, <1>2 DEF ReportInv

\* A vessel with a recent position in the track is shown, at that position or a
\* later one, and not as STALE, whatever the two transactions do and however
\* they fail, unless positions overtook each other or are being read again
\* (retention.py:17-33 against db.py:48-68).
THEOREM ReportingIsShown == Spec => []ReportingShown
<1>1. Init => ReportInv
    <2> SUFFICES ASSUME Init PROVE ReportInv
        OBVIOUS
    <2>1. Len(log) = 0
        BY EmptySeq DEF Init
    <2>2. TrackRead /\ StatementsOrdered
        BY DEF Init, TrackRead, StatementsOrdered
    <2>3. LogOrdered /\ WrittenShown /\ DraftShown
        BY <2>1 DEF Init, LogOrdered, WrittenShown, DraftShown
    <2> QED
        BY <2>2, <2>3 DEF ReportInv
<1>2. IInv /\ IInv' /\ ReportInv /\ [Next]_vars => ReportInv'
    BY StepReport
<1>3. IInv /\ ReportInv => ReportingShown
    <2> SUFFICES ASSUME IInv, ReportInv, faults["late"] = 0, faults["replay"] = 0 \/ Settled,
                        NEW p \in track, Recent(p)
                 PROVE  Shown(p)
        BY DEF ReportingShown, Recent, Shown
    <2>1. PICK i \in 1..(next - 1) : log[i] = p
        <3>1. CASE faults["replay"] = 0
            BY <3>1 DEF ReportInv, TrackRead
        <3>2. CASE Settled
            <4>1. next - 1 = Len(log)
                <5>1. Len(log) \in Nat
                    BY LenProperties DEF IInv, TypeOK
                <5> QED
                    BY <3>2, <5>1 DEF Settled
            <4> QED
                BY <4>1 DEF ReportInv, TrackRead
        <3> QED
            BY <3>1, <3>2
    <2> QED
        BY <2>1 DEF ReportInv, WrittenShown
<1> QED
    BY Invariance, <1>1, <1>2, <1>3, PTL DEF Spec
=============================================================================
