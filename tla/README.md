# A verification project for AIS-Stream

AIS-Stream is a pipeline for ship positions: an ingestion service reads AIS
frames from a provider's websocket and publishes them on a Kafka topic; two
consumer groups read that topic, one into a Parquet archive on S3, the other
into PostGIS; a cleanup job, an API and a dashboard work on what they store.
This directory holds TLA+ models of these parts, the TLC configurations that check
them, and TLAPS proofs about them. File and line references are to the
repository (`README.md` with a line number is the repository's).

1. [The system](#1-the-system)
2. [Modules](#2-modules)
3. [Abstractions](#3-abstractions)
4. [Runs and bounds](#4-runs-and-bounds)
5. [Fairness](#5-fairness)
6. [Proofs](#6-proofs)
7. [What the runs found](#7-what-the-runs-found)
8. [Known and not modelled](#8-known-and-not-modelled)
9. [Plan](#9-plan)

## 1. The system

```
 provider --websocket--> ingestion --ais.raw (8 partitions, key mmsi)--+--> stream_processor --> PostGIS
                             |                                         |                      ^      |
                             +--> ais.dlq <----------------------------+                cleanup      v
                                     ^                                 +--> raw_sink --> S3     API --> dashboard
                                     +---- both consumers                                 \____/
```

| Component | State | Operations | What makes it correct |
|---|---|---|---|
| **Ingestion** (`ingestion/`) | the websocket, `retry`, the frame in hand, the producer's buffer | `consume` (connect, read, pause), `_handle_event` (skip, dead-letter, publish and wait 10 s), `_shutdown` | every frame has an outcome; records of a vessel keep their order; a frame is not both published and dead-lettered without cause; the service listens again, however often provider and broker refuse |
| **Topic `ais.raw`** (Kafka) | partitioned logs, committed offsets, the consumer's position | publish, poll, commit, rejoin | a position is volatile, an offset is not; only polled records are committed |
| **Stream processor** (`stream_processor/`) | `buffer`, `_first_event_at`, `failures`, the database connection, the batch being isolated | poll and collect, `_flush`, `_isolate_poison`, `_reconnect`, the finally clause; `apply_batch` (insert tracks, upsert states) | at-least-once; a poison event takes no neighbours with it; the latest state is the latest; bounded memory; nothing waits for ever |
| **Raw sink** (`raw_sink/`) | `BatchBuffer`, `consecutive_failures` (circuit breaker), the hourly groups of a flush | poll and add, `drain`, `_flush_group`, `_handle_poison_group`, `put_parquet`, `_reconnect`, the finally clause | at-least-once; nothing stored twice or dropped silently; bounded memory; the breaker closes again |
| **Dead-letter helper** (`common/dlq.py`) | the producer | `send_to_dlq` | it never raises: its callers must not rely on it |
| **Cleanup** (`cleanup/`) | none but the tables | every 5 min in one transaction: delete old tracks, mark states STALE, purge; then the S3 lifecycle rule | a vessel that reports again is not left STALE; nothing young is deleted |
| **API pool** (`api/db.py`) | one lazily created pool of at most ten connections | `get_pool`, `fetch_all`, from the threads of the handlers, without a lock | a connection serves one handler at a time and comes back; the limit holds |
| **API data quality** (`api/data_quality.py`) | one cached report | check the cache, list and read the archive, replace the cache | an answer is of its window and recent; no row of the window is left out silently |
| **API intelligence** (`api/main.py`) | none; each response is made from one to four queries | summary, speed, navigation, flow, maneuvering, conflicts | the figures of one response agree as far as the rows have not changed meanwhile; distributions count each vessel once; turns and conflicts are found |
| **Dashboard** (`frontend/`) | `vessels`, `selected`, `detail`, `track` | poll every 10 s, select a vessel | what is shown belongs to the selection and is never replaced by something older |
| **Status** (`stream_processor/status.py`, `ingestion/normalizer.py`) | none | `derive_status`, `normalize` | the status and values the API counts by |
| Profiler, deployment | - | - | tools |

How they interact: ingestion and the consumers share nothing but the topic. The
consumers are independent groups with one member each
(`deploy/systemd/*.service` start one process per service). Stream processor,
cleanup and API meet in PostGIS, raw sink and API in the S3 bucket, and all
three Kafka clients write to `ais.dlq`.

What is hard: `consumer.commit()` without arguments commits *everything polled*,
so that each commit is right only if every polled record is in the batch just
stored or was disposed of before; failures strike between any two calls
(database, broker, S3, process); calls may take effect although they raise; a
reconnection or rejoin rereads records the buffer still holds; timers are
cleared and must be set again; Ctrl-C arrives at any line; the Kafka producer
goes on sending after its caller has given up. In the API, several handler threads
share a pool and a cache that no lock protects, and a response is put together
from queries between which others commit. The list of hazards, each at its
line and with the properties that look at it, is in `PROJECT.json`.

## 2. Modules

| Module | What it is |
|---|---|
| `Delivery` | The abstract promise of a consumer group (at-least-once, `README.md:55`): an offset is acknowledged only past events that are disposed of, and never goes back. |
| `RawTopic` | The topic as one group sees it: `log`, `committed`, `position`, and the operators `Publish`, `Fetched`/`Orders` (what a poll may return), `CommitPolled`, `CommitInDoubt`, `Rewind`. No behaviour of its own; both consumers EXTEND it. |
| `StreamProcessor` | `stream_processor/consumer.py`, `db.py`, `main.py`. |
| `RawSink` | `raw_sink/consumer.py`, `buffer.py`, `parquet_writer.py`, `s3_storage.py`, `main.py`. |
| `Ingestion` | `ingestion/main.py`, `ais_client.py`, `validator.py`, `normalizer.py`, `kafka_producer.py`, and the producer's own thread. |
| `Freshness` | The two PostGIS tables under two writers: `stream_processor/db.py`'s batches and `cleanup/main.py`, `retention.py`, `s3_lifecycle.py`; what the API's summary counts as fresh and stale. |
| `Dashboard` | The browser: `frontend/src/App.jsx`, `api.js`, `Intelligence.jsx`, `VesselMap.jsx`, and the API's answers. |
| `ApiPool` | `api/db.py` under concurrent handlers, with the steps of psycopg2's `SimpleConnectionPool` it rests on, and restarts of the database. |
| `DataQuality` | `api/data_quality.py`: the cached report and the scan behind it, under concurrent requests, beside the raw sink's uploads and the lifecycle rule. |
| `Intelligence` | The intelligence routes of `api/main.py` with their response models (`api/schemas.py`), on rows that `normalizer.py`, `status.py` and the cleanup make. |
| `MCStreamProcessor`, `MCRawSink`, `MCIngestion`, `MCFreshness`, `MCDashboard`, `MCApiPool`, `MCDataQuality`, `MCIntelligence` | Small instances: events named for what becomes of them, and failure budgets. |
| `RawTopicProofs`, `StreamProcessorProofs`, `RawSinkProofs`, `IngestionProofs`, `FreshnessProofs`, `DashboardProofs`, `ApiPoolProofs`, `ApiAnswerProofs` | Theorems and proofs, the last one's about `DataQuality` and `Intelligence`. |

Each consumer is composed with the topic (its `Produce` action is ingestion's
append) and with its store. `Ingestion` has a log of its own: what it appends,
in which order, is the question there, and offsets are not. `StreamProcessor` has
the database alone and as one atomic step; `Freshness` opens that step and sets
the cleanup beside it, with only as much of the consumer as decides which
positions are written, and in which order. `Intelligence` has the same rows with the
columns its figures are made from, which change in one step each: what it asks is
what happens between two queries. The pool is left out of it: which connection a
query goes through makes no difference to its result.

**Steps.** One action is one stretch of the code between two interactions with
the outside (a poll, a transaction, an upload, a send, an await). Everything the
code does in between belongs to the action: `Poll` of the stream processor also
runs the loop that appends to the buffer and starts the timer, `Commit` also
resets the failure count.

**StreamProcessor.** `pc` is the place in the run loop.

| Code (`stream_processor/consumer.py`) | Model |
|---|---|
| `run` 167-191: `_should_flush` or poll and append | `ShouldFlush`, `Poll`, `TornPoll` (Ctrl-C before the last append), `PollFails`, `Rejoin` |
| `_flush` 85-116 and its caller 168-181 | `FlushUnbuildable`, `FlushNoRows`, `FlushApplied`, `FlushNotApplied`, then `Commit` or `CommitFails`; a failure counts in `FlushFailed` and leads to the isolation from `MaxRetainRetries` on |
| `_isolate_poison` 118-143 | `Isolating`, `IsolateUnbuildable`, `IsolateSkipped`, `IsolateApplied`, `IsolateNotApplied`, `Healthy`, `Unhealthy`, `IsolationDone` |
| `_apply_rows`, `_ensure_conn` 57-75, `db.apply_batch` | `Applied`, `NotApplied`, `Unacknowledged` (the server commits, the client hears of an error) |
| except and finally 192-209 | `Reconnect`, `ReconnectFails`, `Interrupt`, `FinalFlush`, `FinalFlushFails`, `FinalCommit` |
| process and database | `Crash` (also SIGTERM, which the consumers do not handle), `Restart`, `DbDown`, `DbUp` |

**RawSink.** The same loop with other parts: `Poll` adds the records and, when a
flush is due, drains the buffer; `Upload` puts the hourly groups one by one;
`FindPoison`, `DeadLetter`, `UploadRest` are `_handle_poison_group`;
`FlushUploaded` and `FlushFailed` end `_flush`; `Pause` is the loop with the
breaker open. An object of the archive is the bag of its rows: the key is a
digest of the event ids, so that equal bags are one object.

**Ingestion.** `Start` and `StartFails` are the two producers `main` builds first, which
raise while the broker is away and end the process; `Connect`, `Read`, `EndOfStream`, `Delay` are `consume`; `Read`
includes the first stretch of `_handle_event` (skip, validate, normalize, skew
gate); `Send`, `SendRaises`, `Acknowledged`, `PublishFails`, `TimesOut`,
`DeadLetter` are the rest; `Stop`, `Exit` are `_shutdown`; `Deliver`,
`DeliverUnanswered`, `GiveUp` are the producer's sender thread; `Emit` and
`Disconnect` the provider. `Restart` leads to the place before `Start`.

**Freshness.** The stream processor's transaction is `BeginBatch`, `InsertTracks`,
`Upsert` (one row each), then `WriterCommits`, `WriterUnheard` (committed, but the
client hears of an error), `WriterFails` or `WriterIsVictim`. The cleanup's is
`DeleteTracks`, `ScanStale` and `MarkStale` (one row each), `ScanPurge` and
`PurgeStale`, then `CleanupCommits`, `CleanupFails` or `CleanupIsVictim`; after a
commit `ApplyRule` or `RuleFails`. What a transaction has written and not committed
is in variables of its own (`draft`, `inserted`; `doomed`, `marked`, `purged`), and
being there is the row lock: the other transaction's step for that row waits.

**Dashboard.** A step is one callback with the render and the effects that follow.
`Poll` is `tick` at mount and by `setInterval`; `Query` is the API's read of the
database, `Answer` and `AnswerError` the two branches of the promise; `Select`,
`Deselect`, `Selected`, `SelectedError` are `handleSelect` before and after its
await; `StyleLoads`, `ImageLoads` are the load handler of the map, `Drawn` the
effects that refresh its sources; `SwitchTab` mounts and unmounts.

**ApiPool.** A thread is at a place of `fetch_all`: `Arrive` is the test in `get_pool`,
`Create` and `CreateFails` the constructor; `Take` and `Record` (an idle connection is
popped, and entered a moment later), `HasRoom`, `Connect`, `ConnectFails`,
`Exhausted` are `getconn`; `QueryOk`, `QueryFails` the query and its exception;
`Discard`, `Keep`, `Rollback`, `RollbackFails`, `Forget`, `PutUnkeyed` are `putconn`, from
`finally` or with `close=True`. `Outage` breaks every connection.

**DataQuality.** `Request` takes the time and `Hit` or `Miss` looks at the cache, which
another handler may have replaced in between; `Miss` also takes the cutoff and lists
the first page of keys; `Get` reads the next object, `GetGone` and `S3Fails` end the
request with 503; `Finish` builds the report and replaces the cache. `Store` is the
raw sink, `Expire` the lifecycle rule.

**Intelligence.** `Upsert` is `normalize`, `build_rows` and the upsert; `Silence` is the
45 minutes passing; `MarkStale`, `Purge` are the cleanup. `Aggregate`, `CountTracks`,
`GroupStatuses`, `FindFastest` or `FindNone` are the queries of the summary,
`GroupSpeeds`, `SpeedStats` those of the speeds; `Respond` and `QueryFails` end the
request. The routes of one query have no action: they are operators on the rows
(`Navigation`, `Flow`, `FirstTurning` with `Maneuvering`, `FirstPairs`), and the
properties look at them in every state between requests.

Operators whose comment says "seeded fault" are plausible mistakes in the
definition below them. They are in no specification; substituted for that
definition, each makes the property it is paired with in `PROJECT.json` fail,
which shows that the property depends on that code.

## 3. Abstractions

- An event or frame is a model value. What the code makes of it (accepted,
  refused by the database, not buildable, without a row; without a partition
  key; not JSON, refused by the validator, raising) is a constant function
  `KindOf`, its vessel and hour are `VesselOf`, `HourOf`; all kinds the code
  distinguishes are covered.
- A log may hold an event several times: a producer retry duplicates it.
- `max_records`, `FlushRows`, `MaxRows`, `MaxRetainRetries`, the breaker's
  threshold and the largest exponent of the back-off are parameters. A timer is
  off, running or expired; a pause has no length.
- Kafka: no expiry of records; one member per group; a commit that raises may
  have taken effect; a rejoin restarts at the offsets with the buffer as it is.
- PostgreSQL: a transaction is atomic; `ON CONFLICT DO NOTHING` makes a track row
  unique; the upsert takes the last row of the batch.
- S3: a put that raises may have stored the object.
- In `Freshness` PostgreSQL is at READ COMMITTED: a statement finds its rows in the
  snapshot of its start, locks each, waiting for a transaction that has written it,
  and looks at the committed row again before it changes it. A cycle of waits is
  broken by aborting either one. A time is a tick of one clock, ages are ticks;
  `now()` is the start of the transaction. Clocks that differ show up as positions
  that are late.
- In `Dashboard` an answer is the version of the database it was read from; the
  contents of a detail or track are its vessel. The two requests of a selection
  are one step, as `Promise.all` makes them one.
- In `ApiPool` the pool keeps a set of idle connections (which of them is taken
  makes no difference), `minconn` is 1 as in the code, and closing a connection
  and forgetting it are one step. A pool is named by the thread that created it; one
  that nobody refers to any more is collected, with its connections.
- In `DataQuality` a time is a tick, an object is its rows, which share their times,
  and the cutoff and the listing are one step. Keys sort by day and hour, which the name
  repeats, and then by the digest of the rows with which it ends
  (`raw_sink/consumer.py:71-76`): within an hour the order is not that of the uploads.
  `Digest` gives the objects to come, and they are stored in any order.
  `int(n * 0.95)` is `19n \div 20`: floating point rounds no product of the two down.
- In `Intelligence` speeds, courses and rates are in tenths. The code divides the conflict
  radius by 111 km to the degree and compares degrees (`ST_DWithin` on geometry); a place is
  given in hundredths of the degrees that makes, and `Planar` is the comparison. Distances
  on the globe (`ST_Distance` on geography, by which the pairs are sorted) are PostGIS's, and
  a constant, `Geodesic`, of which the theorems assume what section 6 says. A late position is an `Upsert`
  followed by `Silence`. What is committed after the last query of a response concerns the next one only.
- `dropped` (both consumers), `overlapped`, `raced` (dashboard), `received`, `timedOut`
  (ingestion), `crossed`, `snatched` (pool), `overlapped` and the fields `listed`, `seen`
  (data quality) and `moved` (intelligence) are history variables: no action of the
  program reads them (`moved` bounds how much changes during a request).
- Failures have budgets (`MaxFaults`, by kind). They are bounds of the checking,
  and what lets a property speak of one kind ("unless a dead letter was lost").
  The theorems hold for every budget.

## 4. Runs and bounds

| Run | Shows | Instance |
|---|---|---|
| `sp_safety` | `AtLeastOnce`; `LatestInLog`: once caught up, the state of a vessel is that of its last event in the log, whatever was replayed; `NeighboursSpared`: only poison is dead-lettered unless the database went away; `NoSilentDrop`; `RetriedBeforeQuarantine` | 5 events of all kinds, 3 records, flush at 2 rows, isolation after 2 failures; failures: database 1, broker 2, dead letter 1, crash 1, torn poll 1; 4.8 million states |
| `sp_live` | every event is eventually disposed of, the lag returns to zero, and the service implements `Delivery` | 2 partitions, a good and a poison event, an outage of the database, two failures of the broker, a crash and Ctrl-C; 494 thousand states |
| `rs_safety` | `NoSilentDrop` while S3 and the dead-letter topic answer; `BufferBounded`; `ArchivedOnceUnlessReplayed` | 5 events of all kinds in two hours, 3 records, `MaxRows` 3 and `MinRows` 2, every failure once; 1.8 million states |
| `rs_live` | an event with `MinRows - 1` later ones in its partition reaches the archive or the dead-letter topic as long as uploads succeed; the lag falls below `MinRows`; the service implements `Delivery` | 2 partitions of 2 records, 3 events, `MaxRows` 3 and `MinRows` 2, broker failure, crash, Ctrl-C; 239 thousand states |
| `rs_s3_loss`, `rs_breaker` | counterexamples, see section 7 | |
| `ing` | `NoFrameLost`; `StopLosesOne`: a stop costs the frame in hand and no other; `OrderKept`: the records of a vessel keep the order of its frames unless the earlier one timed out; `PublishedOrQuarantined`; `ListensAgain` | 5 frames of all kinds, one vessel, one frame on the wire, every failure once, connections and starts refused any number of times, the back-off overflows on the second retry; 2.2 million states |
| `fresh` | `NeverFreshAndStale`; `StateTracked`: a state row has its position in the track until retention is due; `ReportingShown`: a vessel with a recent position is shown, at that position or later, and not as STALE; `StaleEventually`: one that falls silent is marked | 2 vessels, 2 positions in batches of 1 or 2, 3 ticks, ages 1, 1 and 2; one late position, one replay, one failure of each transaction, S3 may refuse in every cycle; 973 thousand states |
| `dash` | `MapCurrent`; `SelectionShown`; `NeverOlder`; `ErrorsClear` | the fleet with two requests at a time, one section with one, two selections at a time of 2 vessels, 3 versions, one failure; 360 thousand states |
| `pool` | `OneHolder`: a connection serves one handler at a time; `SlotsReturned`: a slot of the pool is lost only with a connection the server broke, or in the race on a return; `CapKept`: no more connections than the limit, but for the races on creation and on the test of room | 3 threads, 2 connections, a limit of 1, one restart of the database; 810 thousand states |
| `dq` | `AnswerCurrent`: the window asked for, listed no earlier than the cache's life before the request; `ReportComplete`: no row of the window missing, but one with a page of other keys of its hour or before, or one whose partition lies before the cutoff's; `Readable`: a listed key is there when it is read; `CacheForward`: the cache goes back only when requests overlap | 2 requests for windows of one and two hours, 3 objects, a page of two keys, every position a tick late, 4 ticks; 7.6 million states |
| `intel` | `SummaryAgrees`, `SpeedAgrees`: no figure of a response is off by more than the vessels that changed between its queries; `DistributionsRight`; `ManeuveringRight`; `ConflictsFound` | 2 vessels that count and one whose MMSI does not, 4 reports at the corners of the scales, 2 changes during a request, limits of 1; 1.9 million states |

Why these bounds are enough to be of use: three records are one full batch of
the stream processor and one more, so that a flush meets a buffer that is refilled, replayed or partly
committed; a threshold of two separates "first failure" from "the last one";
two partitions (in the liveness runs) let one advance while the other is
rewound; one failure of each kind lets any two kinds meet, and a crash and a
broker failure strike in the middle of each other's recovery. `sp_safety` gives
the broker two failures because leaving the loop takes two (a call that fails
and a reconnection that fails), and so does `sp_live`, where the process must come back
from it. In the raw sink's passing runs a batch is three rows and `MinRows` two, as the deployed
default of 100 (`raw_sink/config.py:21`) is above one: one event in the buffer is too few for the timer, two are
enough, and three flush at once. In `ing` the provider may refuse connections and close
them, and the broker be away at a start, without a bound; a frame can be overtaken because the
first of two good frames may time out while the second is handled. `MaxPoll`
records are also the most a poll returns in the code.

In `fresh` two batches on two vessels are what a deadlock takes, and three ticks
let a vessel report, fall silent and be purged; ages of one tick make every
comparison of ages meet its boundary. In `dash` two requests of a kind are what
overtaking takes, and three versions tell "older" from "first".

In `pool` a race takes two threads and its victim is a third; a limit of one makes
every request beyond the first meet it, and with two connection objects a second
one can be there while the first is lost or handed out early. Instances with a
limit of two and up to four connections were searched in part, for some minutes each,
without a violation. In `dq` two requests are what overlapping takes; of three objects a page of two
keys hides one, a scan reads two, and each can be of an hour that is pruned or half
in the window; a position that is one tick late can belong to the hour before the one it
was ingested in; the retention equals the larger window, as the
seven days of the rule equal the 168 hours a request may ask for. In `intel` the
reports lie where a comparison turns: 0.5 knots, 20 knots and "not available"; courses
on either side of north; rates of 4, -126, 127 and -128; pairs of places
that are reported, that are abreast and missed, that lie across a corner of the margins,
and that are near each other on either side of 180 degrees. `Globe` stands for PostGIS there:
it is flat near 60 degrees north, closes at the antimeridian, and has degrees of longitude
half as long as those of latitude. That every course falls into the nearest of the
sixteen sectors is also an assumption of `MCIntelligence`, which TLC evaluates for all 3600
of them before the lemma `SectorNearest` is asked to prove it.

The type and inductive invariants of the modules with proofs are proved (section 6)
and not checked again by the runs; they were checked before they were proved. The
exception is `FleetTypeOK`, which says that the answers of the API fit its response models
and is checked and proved. The inductive invariant of `Intelligence` quantifies over all
fleets (section 6), which TLC cannot enumerate: it was checked with fleets of few
different rows.

`SYMMETRY` exchanges two events, threads, handlers or vessels that no formula of
the run tells apart; it is used in safety runs only. `ing` does not check for
deadlock: the provider may have nothing more to send, and the service then listens,
as it should. `fresh` and `dq` do not either: their clocks, positions, objects and
requests are bounded (the waits of the two transactions of `fresh` for each other are
an action, `Resolve`, and `StaleEventually` would fail if one of them waited for
ever; a request of `dq` waits for nobody). All other runs check for deadlock.

The two `violation` runs are as small as their counterexample allows, and each
has only the failures that it needs.

## 5. Fairness

- *The process takes its next step* (`WF` on `Step`): the loops never wait
  without a timeout: polls, transactions, uploads and sends return or raise.
- *Timers expire* (`WF` on `Tick`).
- *The process is started again* (`Restart` is in `Step`): systemd's
  `Restart=always` (`deploy/systemd/*.service:11`). The consumers too have no process until
  a start finds the broker and, for the stream processor, the database: starts that fail
  are part of the time before `Restart`. In `Ingestion` they are steps.
- *The database comes back* (`sp_live`): without it nothing can be promised, and
  the property under check is that the service then recovers by itself.
- *Ingestion*: the provider may refuse any number of connections, and the broker be away
  at any number of starts, but not at all of them (`SF` on `Connect` and `Start`).
  Nothing is assumed of the broker between: `ListensAgain` rests on the ten seconds of
  `future.get` (`TimesOut`), and on systemd after a start that failed or a back-off that
  overflowed.
- *Freshness*: both services take their next step (`WF`). The steps that take a
  row lock are strongly fair, since a lock that is released goes to the
  transaction that waits for it, and does not return to the other for ever. The
  deadlock detector runs (`WF` on `Resolve`). Nothing is assumed of S3.
- *Dashboard*: timers tick (`Poll`) and requests settle (`Settle`, `Finish`); the user
  and the map's loading are not fair.
- *The API*: none. Its three runs ask for safety only; a handler waits for nothing but
  the database and S3, whose clients return or raise.

No failure is fair: each may or may not happen. In the liveness runs failures
are finite in number (their budget), since no service outlasts endless failure; only
refused connections and starts of `ing` are not counted.

## 6. Proofs

All theorems hold for any number of events, partitions, vessels, threads, requests
and failures, and any limits that satisfy the named assumptions of the modules
(`TopicAssumption`, `EventAssumption`, `LimitAssumption`, `FrameAssumption`,
`BoundAssumption`, `AgeAssumption`, `RowAssumption`, `FeedAssumption`,
`VesselAssumption`, `NoneAssumption`, `SizeAssumption`, `WindowAssumption`,
`ReportAssumption`, `ValueAssumption`, `GeodesicAssumption`). They say
no more than that the constants have their types and that limits are positive
where the code needs it; in `ReportAssumption`, that a report's figures are in the ranges
of AIS, as the validator and the encoding leave them; in `GeodesicAssumption`, that
a distance on the globe is the same both ways, that no degree in any direction is longer than 101 %
of 111 km (the longest, of latitude at a pole, is 111.7), and what `Shrink` means: that, unless the
shorter way crosses 180 degrees, those of a pair are no shorter than the shortest near
either of its places; in the `AgeAssumption` of `Freshness`, that the API's fixed
45 minutes are not above the cleanup's `STATE_STALE_MINUTES` (both are 45 by default);
and in that of `DataQuality`, that no position is farther in the future than the skew
that ingestion admits.

**Both consumers** (`StreamProcessorProofs`, `RawSinkProofs`): `TypeCorrect`,
`Invariance`, `DeliveredAtLeastOnce`, `Implementation`.

`AtLeastOnce` (no offset is committed past an event that is not disposed of) is
not inductive: a commit takes the *position*, and nothing in `AtLeastOnce` speaks
of records between the offset and the position. The strengthening is
`PolledAccounted`: each of these records is disposed of, or is in the buffer or in
the batch. It needs to know that the batch up to `next` is done and that batch
and buffer are empty at a commit (`BatchProgress`; for the raw sink
`FlushProgress`: groups no longer `todo` are done), and that positions stay
within the log (`OffsetsInRange`). The raw sink's flush starts only below the
breaker's threshold (`BreakerCount`), which bounds the count. `IInv` is the
conjunction, proved inductive action by action. `Implementation` maps `handled` to what is in the store, dead-lettered or
dropped by a decision of the code, and shows that each step is a `Handle`,
an `Acknowledge`, a `Produce` or a stutter. It holds for behaviours without a torn
poll: with one it is false (section 8).

`NothingDroppedSilently`, of both, is `AtLeastOnce` once it is known what was disposed
of otherwise than in a store: without a failure of S3 or the dead-letter topic nothing
is in `dropped`, or only events that `build_rows` passes over.

*Of the stream processor alone:* `RetriesFirst` (no dead letter before
`MaxRetainRetries` failed flushes), `MemoryBounded` (at most `FlushRows - 1 + MaxPoll`
events in memory, which no run checks), and two more.
`OnlyPoisonQuarantined` (`NeighboursSpared`) needs to know the state of the connection
at each place of an isolation while the database has not gone away
(`DatabaseSteady`): the connection is good, so that an event whose own insertion fails
is one that the database refuses.
`LatestIsShown` (`LatestInLog`) is about replays. The upsert compares no times, so an older
record read again overwrites a newer row; what saves the projection is that the newer
one is then read again as well. `LatestHeld` says it of the last record of each vessel,
by where it is: acknowledged, it is shown (`Settled`); fetched, it is shown or the last
of its vessel among the rows still to be written (`Shows`); not yet fetched, nothing.
Two more facts carry it: all records of a vessel are in one partition, so that their
order in memory is that of the log (`KeyedByVessel`), and what is in memory is not
acknowledged (`HeldUnacked`), so that the last word has not been forgotten while an
older record is still to be written.

*Of the raw sink alone:* `MemoryBounded` (`BufferBounded`) and `ArchivedOncePerRecord`
(`ArchivedOnceUnlessReplayed`). A reconnection keeps the buffer and reads its events
again, so the buffer may outgrow a batch by a poll, but every such reconnection counts as
a failure and the breaker stops at the threshold: `BufferPerFailure` is that
proportion, before and after the count. For `ArchivedOnceUnlessReplayed`, what is archived
of an event, what is in the buffer and what is pending in the batch are together no
more than the records of it that were polled (`ArchivedFromPolled`): a poll adds to the
buffer what it reads, a drain moves it to the batch, and an upload moves at most that to
the archive, also if it is only reported as failed. That holds as long as the buffer can
be drained. With an event that has no partition key it never is again; then
reconnections do read records again, and `OnceInv` has a second case in which the
archive no longer changes.
`BreakerStaysOpen` is the finding of `rs_breaker` (section 7) for all values of the
constants, as an action property: once the counter is at the threshold, no step but the end of the
process takes it down. It follows from `BreakerCount`.

**Ingestion** (`IngestionProofs`): `TypeCorrect`, `Invariance`, `NothingLost`,
`InOrder`, `Quarantined`, `StopsLoseOneEach`. The invariant has three parts. `Reception`: a frame is on
the wire or in the history once, and everything else speaks of frames that were
received. `Awaited`: a record in flight that has not timed out is that of the
frame received last, and the task waits for it or was cancelled while it did. This
is what makes order and absence of loss hold: the next frame is not read before
the last one is answered. `Answered`: a frame the task waits for is in flight, given
up or published, and without a failure of the dead-letter topic every frame that
timed out is dead-lettered or in hand. Each property is then preserved by every
step that starts in `IInv`. `StopsLoseOneEach` counts: unless `send`
raises or a dead letter is lost, the frames without an outcome are no more than the
stops (`UndecidedFew`), since every other step of the process gives the frame in hand
an outcome before the next one is read.

**Freshness** (`FreshnessProofs`): `TypeCorrect`, `Invariance`, `FreshOrStale`,
`TrackKept`, `ReportingIsShown`. `NeverFreshAndStale` speaks of committed rows, while what makes it hold
is what the cleanup has marked and not committed. `SweepIsOld` says that every
row it has marked, purged or deleted is old at its `now()`; `LocksHeld` that no row is in
the hands of both transactions, so that no commit of the writer changes a marked
row behind the cleanup's back; from both, a commit of the cleanup makes only old
rows STALE (`StaleIsOld`). `StateTracked` needs the same of the writer
(`DraftTracked`): each position it has upserted is in the track or among its
inserted rows, or old enough for the retention, whose deletions are old too. Since
the clock only moves forward, old stays old. `ReportingShown` is inductive in what
the writer is through with (`WrittenShown`) and what its transaction is about to
write (`DraftShown`): for each vessel of the batch the latest position up to the current one
is drafted. A recent position is not marked or purged because the cleanup's
statements only reach rows that are old at its `now()`.

**Dashboard** (`DashboardProofs`): `TypeCorrect`, `Invariance`, `MapIsCurrent`,
`ShowsSelection`, `GoesForward`. `SelectionShown` needs `SelectionInOrder`: without an
overlap there is at most one selection under way, that of the vessel selected.
`NeverOlder` needs `FeedInOrder`: without an overlap a feed has at most one request,
and the version it was answered with is no older than the one shown.

**ApiPool** (`ApiPoolProofs`): `Invariance`, `ConnectionsHaveOneHolder`, `SlotsComeBack`,
`LimitIsKept`.
That a connection has one holder does not follow from the pool's bookkeeping, which
the races falsify, but from where a connection can be: `SlotsOK` says that idle and
lost connections of all pools are disjoint, `PlacesOK` which places of a handler have
a connection at all, and `CreatorsOK` that a thread about to create a pool has none.
A connection becomes idle while its holder is still to delete its key (`Forget`);
another handler may take it meanwhile (`snatched`), lose its key, and with it the
slot. `KeysOK` is the bookkeeping as long as that has not happened, which is why
`SlotsReturned` has this exception, and `OneHolder` has none. `LimitIsKept` (`CapKept`)
counts. Before two handlers cross there is one pool that all use (`OnePool`), made by
one thread (`SoleCreator`); the open connections are then those of its handlers, its idle and
its lost ones, and a handler that finds room finds no idle one, so that the pool's own
count is that of all connections (the lemma `UsedCountsAll`, a bijection between handlers
and connections).

**DataQuality** (`ApiAnswerProofs`): `Invariance`, `AnswersAreCurrent`,
`ReportsAreComplete`, `ListedIsReadable`, `CacheGoesForward`, `PercentileIsQuantile`. Any
handler may put its report into the cache, so the invariant is about every report
there is (`ReportsOK`): cutoff and listing fit its window, and it has the counted
rows of the archive as listed but those of the keys still to be read. A row that is missing has then
been left out by the listing, so that a page of keys sort before it (`Truncated`), or by the partitions;
that the keys sort by hour first makes these keys ones of its hour or before. `ArchiveOK` is
what the cutoff needs to prune partitions: rows are archived after they were ingested, and
ingested no more than the skew before their event time; and a listed object is gone
only with age. `InTurn` says that without an overlap the one request under way is
later than the cache. `PercentileIsQuantile` is about the operator: the element the
code picks exists and is a quantile of the sorted latencies.

**Intelligence** (`ApiAnswerProofs`): `FleetInvariance`, `FleetTypeCorrect`,
`SummariesAgree`, `SpeedsAgree`, `DistributionsAreRight`, `TurnsAreFound`,
`ConflictsAreFound`. `SummaryAgrees` compares figures with each other, but the table each
was taken from is gone, and nothing in the figures bounds what the next query will
find. `FleetIInv` brings the table back: each result held is that of *some* fleet that
agrees with the present one outside of `moved` (`ResultsOfSnapshots`), not of the same one
for all results. A commit adds what it changes to `moved`, so that the fleets of earlier
results stay where they were; a query adds the present fleet. `StaleSilent` (a row marked
STALE is not fresh) makes fresh and stale rows no more than all. Two
fleets that agree outside of `moved` differ by no more than its size in the size of any
part (`GapBound`, `SnapshotsAgree`). A
sum of counts is a cardinality (`Total`), and that the groups of a query add up to its rows is
a bijection between rows and numbered places in groups (`CountedOnce`, `Grouped`), where an
induction over the groups would be out of reach. Maxima exist because the values are bounded
naturals (`MaxIs`, by well-foundedness).
The other three are about any rows whatever. `DistributionsRight` needs that each code has
one label (`OneLabel`) and `SectorNearest`, for the wrap at north. `ManeuveringRight` needs
that the rounded rate never falls as the raw one rises (`DegMinOrder`), so that a threshold on the
first and an order on the second agree, and `ConflictsFound` (by `ConflictsFollow`) that the degrees and the globe
agree as far as it says: a pair the filter takes is not far beyond the radius, by the
longest degree, and one it leaves out is beyond it in degrees (`PlanarFacts`, `GapFacts`), hence
on the globe beyond what the shortest degrees make of it, unless it is across the antimeridian
(`GeodesicFacts`).

`RawTopicProofs` has the lemmas on polls and appends that both consumers use.

**Only model-checked:**

- Liveness (`EverythingHandled`, `EverythingStored`, `EventuallyCaughtUp`,
  `EventuallyBelowMinRows`, `ListensAgain`, `StaleEventually`, `ErrorsClear`): fairness and ENABLED are beyond the prover.

Every invariant and every action property that a passing run checks is a theorem.
There is no recursive definition in the project.

## 7. What the runs found

| Run | Claim | What the code does |
|---|---|---|
| `rs_s3_loss` | "manual offset commits after successful flush (at-least-once)" (`README.md:85`) | `drain` empties the buffer before the uploads; events of a failed upload are kept nowhere, and the next successful flush commits past them (`raw_sink/consumer.py:119-138`). |
| `rs_breaker` | "paused with exponential backoff up to a cap" (`README.md:88`) | The open breaker skips the code that would reset its counter (`raw_sink/consumer.py:149-158`): consumption does not resume before a restart. |

The safety properties that hold name their exceptions accordingly: `AtLeastOnce`
holds unless a poll was torn, `NoSilentDrop` of the raw sink while uploads succeed,
`ArchivedOnceUnlessReplayed`, `NoFrameLost` while `send` does not raise.

## 8. Known and not modelled

Seen in the models, allowed by the properties.

*Consumers and ingestion*

- Ctrl-C while polled messages are being appended: the final flush
  (`stream_processor/consumer.py:204`) commits the position, past records no buffer
  holds, against "At-least-once delivery with idempotency" (`README.md:55`). The raw
  sink has the same shape. Hence the condition of `AtLeastOnce`.
- The upsert does not compare times (`db.py:55`): the last record of the log wins, even
  if its position is older; "a true latest-state projection" (`README.md:95`) is of the
  log's order, as `LatestInLog` says.
- `producer.send` itself may raise, outside of the `try` (`ingestion/main.py:65`): the frame
  has no outcome, against `README.md:78`, and the websocket is torn down. Hence the
  conditions of `NoFrameLost` and `StopLosesOne`.
- A batch that `build_rows` refuses goes back to the buffer without its timer
  (`stream_processor/consumer.py:90-97`): below the size threshold it is not tried
  again, although "failed batches are retried" (`README.md:96`), and the lag stays.
  Ingestion writes no such event; the events of `sp_live` can all be built.
- Replay "is idempotent at the storage layer" (`README.md:85`) only as long as it
  cuts the same groups: after a crash between upload and commit the same records
  may be grouped by other limits, whose objects have other keys, and an event is
  archived twice. Hence the condition of `ArchivedOnceUnlessReplayed`.
- `send_to_dlq` swallows its failures (`common/dlq.py:48`): the caller commits, and
  the event is gone. The properties say so (`faults["dlq"] = 0`).
- If the database comes back between a failed insert and the health check, a sound
  event is blamed and dead-lettered (`stream_processor/consumer.py:133`), hence the
  condition of `NeighboursSpared`.
- The failure count survives a failed commit: the next batch is isolated sooner
  than three failures of its own.
- A stop loses the record that is in flight (`Exit`): the end of the main task ends
  `asyncio.run`, which cancels `_shutdown` before it closes the producers
  (`ingestion/main.py:86-94`); only the thread in `future.get` still gives the
  current record up to ten seconds.
- A frame on which the handler raises (a latitude that is a string,
  `validator.py:94`; a JSON array, `ais_client.py:45`) is not dead-lettered, and costs the
  connection. A repeated frame gets another event id, since the digest includes
  `_received_at`.
- Below `parquet_min_rows` (100 by default) the raw sink's timer flushes nothing
  (`buffer.py:38`, "never fragments into trivial files", `README.md:86`): the last events of a
  quiet topic stay in memory, and a lag of up to 99 stays, until more come.
  `EverythingStored` and `EventuallyBelowMinRows` say what is left of "eventually". After a failed
  upload with no further events the lag stays too.
- Ingestion builds two producers before it connects (`ingestion/main.py:105-108`): with the
  broker away the process ends, and nothing is read, until a restart finds the broker (`StartFails`).
- Records without a partition key, unbuildable ones and poison rows come only from
  other writers to the topic or from fields the validator does not check (`Cog`).

*Cleanup and dashboard*

- With `STATE_STALE_MINUTES` below the API's fixed 45 (`api/main.py:35`) a vessel is
  counted as fresh and as stale; `AgeAssumption` excludes it.
- A position that overtakes another, or a batch written again, may show a vessel at
  an older position, or as one that is silent: the condition of `ReportingShown`.
- The lifecycle rule is put without those the bucket had (`s3_lifecycle.py:41-44`):
  a rule of somebody else is gone after the first cycle (`ApplyRule`).
- A vessel selected while the last selection is under way, or closed meanwhile, may
  end with the detail and track of the other (`App.jsx:46-50`), and polls that
  overlap may show something older (`App.jsx:18-32`): the conditions of
  `SelectionShown` and `NeverOlder`. The detail of the last vessel stays on the panel
  until that of the next one arrives.
- An image that fails to load leaves the map without vessels until the tab is opened
  again (`VesselMap.jsx:98`): `ImageLoads` is not fair.

*API*

- Two first requests each create a pool (`db.py:10`); the first one is closed when its
  handler is done with it. Between the test of the limit and the connection that it
  guards another handler may pass the same test, and since the limit is compared for
  equality, a pool above it goes on connecting. Both are the exceptions of `CapKept`.
- A handler that takes a connection while its previous holder is still deleting its
  key (`putconn`) finds no key when it returns it: the error replaces the rows it has
  fetched, the route answers 503, and the slot is lost.
- A restart of PostgreSQL between a query and the return of its connection loses a slot:
  the rollback in `putconn` raises before the slot is freed. Ten of these, over any
  time, and the pool is exhausted until the API is started again. A pool that is
  exhausted fails at once (`db.py:17`), it does not wait.
- Two requests for data quality that overlap may leave the older report in the cache
  (the exception of `CacheForward`), and answers of two windows evict each other.
- The listing is of the first 1000 keys, those of the oldest hours, before the window is
  applied (`data_quality.py:66-78`): a bucket with more has reports that miss the newest rows,
  up to all of them, without saying so. `ReportComplete` excepts a row only if a page of other
  keys is of its hour or before (within the hour the digests decide), and the late rows,
  which count by ingestion but are looked for in the partition of their event time.
  Rows that were archived twice are counted twice.
- The seven days of the lifecycle rule are no more than the longest window, 168 hours: a
  scan that takes long enough loses an object it has listed, and the request fails.
  `Readable` says when.
- The queries of one response see different states of the tables: the fastest vessel
  may be faster than the maximum, and the counts by status need not add up to the total.
  `SummaryAgrees` bounds the difference.
- A speed of 102.3 knots is "not available" and is not normalized: such a vessel is
  moving, and the fastest. A course of 360 is left out of the flow, as it should.
- A rate of turn of 127 or -127 has port and starboard the other way round from all
  others (`main.py:66`); it comes first in the query, but is dropped by a threshold above 10
  degrees per minute. A rate of zero is "port", of no consequence for a threshold above
  zero. Hence the exceptions of `ManeuveringRight`.
- Conflicts are found by degrees of 111 km in both directions, where `README.md:115` speaks
  of geodesic distance: two vessels abreast at latitude φ are missed if they are between about
  cos φ times the radius and the radius apart. As 111 km is a round figure, a pair that is reported may
  be beyond the radius by up to 0.7 %; the property allows 1 %.
- Two vessels on either side of 180 degrees are never a conflict, however close: the margins
  and `ST_DWithin` on geometry take longitude for a line (`main.py:341-343`). `ConflictsFound` says
  all this.
- The status names of `README.md:66` and 159 (MOVING, IDLE, OFFLINE) are not those of
  `status.py`.

Not modelled:

- Records that are not JSON (the deserializer raises inside `poll`) or null; what
  kafka-python does with its position then is not settled here.
- Averages, medians and the count of recent positions among the statistics; the nearby
  route, which is one query of PostGIS; the layout of JSON and pages, logging.
- `profiler.py`, installation scripts, and columns that no property is about.
- The blocking of the event loop by `send_to_dlq`: it has no effect but time.
- `close_pool` and `remove_rule`, which nothing calls.

## 9. Plan

Done: `Delivery`, `RawTopic`, `StreamProcessor`, `RawSink`, `Ingestion`, `Freshness`,
`Dashboard`, `ApiPool`, `DataQuality`, `Intelligence`, what a stop of ingestion costs,
their runs, and the proofs of section 6.

1. `Pipeline`: ingestion composed with a consumer, from frame to row.
2. What the pool owes in the long run: liveness of a request needs a bound on the
   restarts of the database, since each may cost a slot for good.
