# Verification of the behavior pipeline

TLA+ models of the Taobao behavior pipeline (replay client and HTTP ingress,
Kafka, the Flink SQL job, the Redis materializers and the API's reads beside
them, ClickHouse ingestion, the product catalog from its generator to
ClickHouse, the closing accounting), checked with TLC on small instances and, for
the parts that matter most, proved with TLAPS for every value of the constants.
Every definition is translated from the code; `PROJECT.json` ("map") names the
lines each one stands for.

- [Inventory](#inventory)
- [Modules](#modules)
- [How the models correspond to the code](#how-the-models-correspond-to-the-code)
- [Runs](#runs) · [Bounds](#bounds-and-why-they-are-enough) · [Fairness](#fairness)
- [What is proved](#what-is-proved)
- [Disagreements found](#disagreements-found)
- [Not modelled](#not-modelled) · [Plan](#plan)

## Inventory

| Component | Code | State it keeps | Operations | What is hard |
|---|---|---|---|---|
| Event contract | `libs/taobao_events/contracts.py`, `services/taobao_api/ingestion.py`, the CASE and ORDER BY of `sql/transformations.sql` | none | identity, row and request validation, validation reason, order of cart transitions | identity must repeat on a rerun and on nothing else; three places validate, each differently |
| Event publisher | `libs/taobao_events/kafka.py` | producer queue, list of delivery errors, lock | publish, publish_confirmed, close, delivery callback | late deliveries after a timeout, errors that outlive their request, full queue |
| HTTP ingress | `services/taobao_api/app.py` | one shared publisher | POST /v1/events | concurrent handlers over one producer, answers under failures |
| Replay client | `clients/taobao_replay` | position in the file, batch, totals, output files | publish, http, replay commands | partial runs and reruns by another command, requests written after the client gave up, exit status, order |
| Flink SQL job | `flink-python-pipeline` | dedup ids, open windows, Top-1 rows, watermarks, source offset; five output topics | validate, deduplicate, classify late, aggregate, Top-1; checkpoint, restart, TTL | restores, at-least-once output, watermark that is not state, TTL, resubmission without state |
| Cart materializer | `services/taobao_serving/redis_cart.py` | group offset, Redis hashes with TTL | HSET+EXPIRE / HDEL, commit | no version guard: order and redelivery alone decide; two calls per record; a Redis host that loses its last second |
| Feature materializer | `services/taobao_serving/redis_features.py` | group offset, Redis hashes with version and TTL | checked, versioned Lua write, commit | poison records, duplicates of one version, rewinds |
| Serving reads | `services/taobao_api/serving.py` | none | cart, features, trending | two Redis reads per answer, beside a materializer that repeats itself |
| ClickHouse ingestion | `infra/clickhouse/schema.sql` | ReplacingMergeTree tables | Kafka Engine consumption, merges, FINAL views | equal versions, blocks inserted in part and read again, merges at any time |
| Catalog generator | `tools/taobao_catalog/generator.py` | SQLite counts; catalog and manifest | batched counting, choice of the category, two output files | ties, the last batch, a death between the two files |
| Catalog CDC | `infra/postgres/init.sql`, `scripts/load_product_catalog.sh`, `scripts/register_connector.py`, Debezium, ClickHouse | product rows and versions, the connector's offset | guarded update, reload, registration, snapshot and streaming | updates during the snapshot, a task that fails before its first offset, a reload beside a trigger that rejects regressions |
| Verification | `scripts/verify.py` | none | accounting and comparison of all stores | operands that come from stores deduplicated by different keys |
| Deployment | `scripts/*.sh`, `infra/docker-compose.yml` | jobs running | start, stop, replay, recovery test | a second job, waits satisfied by an old one |

Interaction: the replay client and the API write `user-behavior-events`; the
job reads it and writes five topics; the feature materializer reads
`taobao-user-features-1m`, the cart materializer the compacted
`taobao-active-cart-mutations`; ClickHouse reads the raw, metrics, features and
quality topics; the API reads Redis and ClickHouse. Beside this stream the
generator makes a catalog of the same source file, a script loads it into
PostgreSQL, and Debezium sends its rows to ClickHouse; `verify.py` counts what all
of it left behind. All topics have one partition, the job's parallelism is one, and nothing spans two systems in a
transaction: what makes the whole correct is identity, order and idempotence,
which is what the properties below are about.

What makes each component correct:

- *contract*: two deliveries have the same id exactly if they are the same source
  row, so that running the client again repairs what partial runs left and adds
  nothing (`RerunIsIdempotent`);
- *ingress*: 202 means durable (`AcceptedIsDurable`); an answer is about the
  request's own message (`FlushCoversOwn`, `FailureIsOwn`); threads, producer and
  broker together implement a promise of four operations (`ImplementsIngress`);
  every request is answered (`EveryRequestAnswered`);
- *replay*: success means complete and in order (`SuccessIsComplete`,
  `SourceOrderKept`), what http delivers has no gap (`HttpLeavesNoGap`), an output
  file is one run's (`OutputKeptUnlessForced`), and a run ends (`RunEnds`);
- *job*: nothing is lost (`NoEventLost`), canonical raw is unique
  (`CanonicalRawExact`), lateness is a function of the source
  (`LateIffBehind`), accepted = on time + late (`AcceptedIsPlaced`), closed
  windows are final (`ClosedWindowStable`), versions increase
  (`FeatureVersionsIncrease`), the cart topic converges (`CartConverges`), output
  is acknowledged (`EventuallyAcknowledged`);
- *accounting*: what `verify.py` derives by subtraction is what the topic holds, up to
  what its operands do not see: rows never delivered, and rows of other runs or files
  (`DuplicatesAccounted`, `MetricsInputAccounted`);
- *materializers*: a committed offset covers what Redis shows
  (`CommittedIsApplied`, `CommittedIsServed`), the greatest version is served
  (`RefinesRegister`, `ServesFirstOfVersion`), no cart stays without expiry
  (`NoImmortalCart`), everything is consumed (`EveryMutationConsumed`,
  `EverySnapshotConsumed`);
- *reads*: a client that asks again is never shown something older
  (`AnswersNeverGoBack`, of carts and of features);
- *ClickHouse*: the canonical view of what is committed is a function of the topic
  (`CommittedIsCanonical`), merges cannot be observed through it (`MergeInvisible`),
  redelivery never takes a key back (`VersionsNeverDecrease`), every row gets in
  (`EveryRowIngested`);
- *catalog*: the file is the reference's (`GeneratedIsDominant`), one version of a
  product is one content (`VersionNamesContent`), ClickHouse shows PostgreSQL's rows
  once it has all of them (`DrainedIsCurrent`) and gets there (`CatalogConverges`).

## Modules

| Module | Models |
|---|---|
| `EventContract` | identity, validation and order of events: operators used by the modules below |
| `StreamJob` | the Flink job with its five sinks, checkpoints, failures, resubmission and TTL |
| `Accounting` | `reconcile_accounting` over the job's outputs (extends `StreamJob`) |
| `MCStreamJob` | the events of the instances of both |
| `EventPublisher` | the Kafka publisher, shared by the next two |
| `EventIngress` | what POST /v1/events promises: submit, write or drop, confirm, fail |
| `IngressApi`, `MCIngressApi` | POST /v1/events on several threads; implements `EventIngress` |
| `ReplayClient`, `MCReplayClient` | the three commands, run and rerun; http relies on `EventIngress` |
| `RedisCart` | the cart materializer with its topic, Redis hash, TTL and append-only file |
| `CartReads` | GET .../cart beside it |
| `FeatureRegister` | what the online store promises: a register per user that only a greater version replaces |
| `RedisFeatures` | the feature materializer; implements `FeatureRegister` |
| `FeatureReads`, `MCRedisFeatures` | GET .../features beside it, by several clients |
| `ClickHouseIngest`, `MCClickHouseIngest` | one topic's Kafka Engine consumer, ReplacingMergeTree table and FINAL view |
| `CatalogGenerator` | `generate_catalog` and its two files, against a reference over the whole source file |
| `CatalogCdc`, `MCCatalog` | PostgreSQL, the load, the registration, the connector and ClickHouse's current rows, composed with the generator |
| `StreamJobProofs`, `StreamWindowProofs` | theorems of the job: loss, dedup, cart; windows, lateness, accounting ([below](#what-is-proved)) |
| `IngressApiProofs`, `ReplayClientProofs` | theorems of the two producers |
| `RedisFeaturesProofs`, `RedisCartProofs` | theorems of the materializers and of the reads beside them |
| `ClickHouseIngestProofs`, `CatalogProofs` | theorems of ingestion and of the catalog from file to view |

Operators named as mutated forms of a definition ("Mutant:" in the comment
above them) are plausible bugs; each property is known to fail under one of
them, so a property that passes is not passing for want of something to catch.

## How the models correspond to the code

**StreamJob.** An event is named by its offset in `source`. One `Process...`
action is one record going through the whole plan, one action per outcome of
the views: invalid (`classified_events`), duplicate
(`accepted_unique_events`), accepted on time or late. `ReadEvent` is what all
four share: the record's row reaches the operators, then the watermark the
source derives from that same record (`'on-event'`), and the windows this
closes are written out. `job` is what a checkpoint holds: offset, dedup ids, open
windows with the window operators' own watermark, Top-1 rows. The source
watermark `wm` is outside it and is NULL after a restore until a record is read,
because `CURRENT_WATERMARK` is not operator state. `Checkpoint` is atomic: at
parallelism one the barrier travels between two records through one linear
plan, and the at-least-once sinks flush before it completes. `TaskFailure` and
`JobManagerLoss` keep, in each topic separately, an arbitrary prefix of the
writes after the last flush. `TaskFailure` counts attempts over the life of the
job (`fixed-delay`); `JobManagerLoss` is the end of the job, as compose gives the
job manager no HA store; `Resubmit` is `flink-submit`: no savepoint, earliest
offset. `Emissions` leaves the order of the keys in one window open.
`ExpireId` / `ExpireTop` drop a dedup id or a Top-1 row at any moment: more
than the 168 h TTL allows, so what holds here holds of the code. A bounded
source (`KAFKA_SOURCE_BOUNDED`) is not used by the compose deployment and is
left out; the idle timeout changes no watermark with a single partition. The
pairs of rows an upsert sink writes for a replaced row are left to `RedisCart`,
where they matter.

**Accounting.** The operands of `reconcile_accounting` are read from the model's
output topics as the canonical views would show them: canonical raw by `event_id`,
quality by `quality_event_id` (the tuple of the fields whose SHA-256 the job takes).
The two differ in a filter: quality rows are selected by the two fixed run ids
(`ReplayRunIds`), raw rows are not. `Decoded` is the whole fixture file once per fixed
run id; it does not look at the topic. So `duplicate` counts the deliveries that repeat
an accepted event in another run, *plus* the rows of the fixture that were never
delivered, *less* the deliveries that the fixture does not account for, and the
reconciliation raises when the last outweigh the others. `DuplicatesAccounted` states
exactly this, once the job is idle, against what really stands in the source topic: the
number is right if both runs delivered the whole file and nothing else did, as
`scripts/replay.sh` leaves it; `--snapshot-only` reports it in any case.
A late event first delivered by another run has a raw row and no audit row that is
selected, and counts as aggregated (`HiddenLate` in `MetricsInputAccounted`).
`IdentityAssumption` says that ids are taken of all fields but the run. The
reconciliation may raise after a dedup entry has expired as well: an event that is
late in two runs then has two audit rows, and fewer accepted rows than late ones are
left. `DuplicatesAccounted` excludes that case for the raise and for nothing else.

**EventPublisher / IngressApi.** The producer's queue, the reports it has not
delivered to callbacks yet, and the broker are external; callbacks run in
whichever call polls next, on whichever thread. A failed delivery may have
reached the topic. A handler's steps are: validate, take the lock, publish (or
fail on a full queue), flush, answer. `EventIngress` has none of that: a
submitted message is in flight until it is written, once, or dropped, and it is
accepted only when written. The mapping takes a request number for a message, the
queue for what is in flight, and 202 for `Confirm`.

**ReplayClient.** `NextBatch` is one turn of `iter_event_batches`: the rows that were
taken are split into those that parse and those that do not, each part in source order
(`InOrder`); the rejected ones go to the invalid output, the others are emitted one by
one into the sink of the command: `Emit` publishes, `EmitLine` writes a line, `Post`
sends a request and waits for `Posted` or `PostFails`. The API at the other end is `EventIngress`, which
`IngressApi` is shown to implement: it may write an event long after the client gave
up on it. A run ends with 0, 2 or a traceback (`BufferError` is handled by nobody);
a new run is a new process with another run id and any command. `StartRun` checks
the outputs, then opens and thereby empties them. What a process that dies had
buffered, of its output or of its queue, may be lost.

**RedisCart.** `HSet`, `SetExpiry`, `HDel` and `Commit` are steps of their own,
since each is a network call after which the process may die; a hash field
holds the offset that wrote it, which tells values apart. A tombstone is skipped
without a commit, as in the code. `Produce` writes a mutation, with or without
the tombstone an upsert sink puts before a replacing row. Compaction removes any
record a later one of its key shadows. `Rebuild` is the operator's new group,
over an emptied Redis or the old one. `Sync` is the append-only file's fsync, once
a second; `LoseWrites` brings Redis back as that file has it. `intact` is no state
of the code: it says that nothing has been lost since the last rebuild began.

**CartReads.** A request is the one HGETALL; the TTL read after it is left out here,
as `FeatureReads` has that second call. `seen` is no state of the code either: what a
client that asks again and again has learnt.

**RedisFeatures.** The Lua script is one step. `Refuse` is the ValueError that
leaves the loop: the process ends without a commit and finds the same record
again. `Rewind` is a new group or an offset that is gone. Its refinement mapping
gives `FeatureRegister` the store as `served` and the accepted snapshots as what
may be offered.

**FeatureReads.** `ReadHash` and `Answer` are the HGETALL and the TTL of one request,
any number of which are under way. `answered` is no state of the code: the greatest
version an answer has shown.

**ClickHouseIngest.** The four behavior tables and the catalog table of
`schema.sql` differ in their columns only, so one module stands for each: a row has
the ORDER BY key, its `record_version` and its content, and PARTITION BY is a
function of the key in all of them. How the Kafka Engine and ReplacingMergeTree work
is ClickHouse's own and modelled from what the schema relies on (`Abort` and `Merge`
are external): `Poll` takes a block of any length, `Insert` makes one part per
partition visible by itself, `Commit` follows the last of them, and `Abort` (a failed
insert, a failed commit, a server that dies) leaves what is inserted and reads the
rest again, cut anew. A part holds, per key, the topic offset of its row, so two rows
of one version stay distinguishable. `Canonical` is the FINAL read; `Merge` joins
two neighbouring parts of a partition at any time. The server's disk is taken as
durable.

**CatalogGenerator.** `pending` are the rows of the current batch, `observations` the
SQLite table (which lives in a temporary directory and dies with the process);
`ReadRow` flushes when the batch is full and `WriteCatalog` flushes the rest, as
`flush_pending` is called. Category and product of a row are kept, the other columns
are functions of the product. The catalog replaces the old file by a rename, so it is
there as a whole; the manifest is written in place afterwards, so `KillGenerator`
may leave the new catalog beside the old manifest or beside a cut one. The
reference, `DominantOf`, counts the rows of the whole file that the *job* would
accept: that the generator's own parser agrees with client and job is part of what
is checked.

**CatalogCdc.** `Update` is an UPDATE the version trigger lets through (one it
rejects, and a DELETE, change nothing). `Load` is the script's transaction, past the
row triggers, with the comparison of the counts *after* its commit. `PutConfig` is
`register_connector.py`, which may be run again. The connector is external and does what
its configuration asks for: a snapshot of one point of the log unless an offset is
stored, sent row by row, then the log from that point; TRUNCATE is not passed on; a
failed task stays failed until somebody restarts it. `current` is the row of the
greatest version, the last inserted of equal ones, as `ClickHouseIngest` shows of
these tables.

## Runs

| Run | Expect | Asks |
|---|---|---|
| `sj_recovery` | pass | Do checkpoints, lost writes, restores and resubmissions keep raw complete and exact and the cart topic convergent, are the duplicates `verify.py` derives the redelivered ones, up to undelivered and foreign rows, and is everything acknowledged in the end? |
| `sj_replay` | pass | Without a restore: is lateness a function of the source, is every accepted event placed once, are closed windows final, do versions increase, is the derived metrics input what the aggregates count? |
| `sj_restore_features` | violation | ... and with a restore: a closed window gets a second, different row |
| `sj_restore_placed` | violation | ... an accepted event is dropped without an audit record |
| `sj_ttl_cart` | violation | ... and after the TTL of the Top-1 row |
| `api` | pass | Does 202 mean durable, does a flush cover its own message, is every request answered, and does all of it implement `EventIngress`? |
| `api_sticky_errors` | violation | one failed delivery fails later requests |
| `rc` | pass | Two runs by any commands, forced or not: is success complete and ordered, does http leave no gap, do outputs survive, does a rerun repair without adding or making late, does every run end? |
| `rcart` | pass | Does Redis show what the group has committed and a client never an older cart, is every hash bound to expire, is everything consumed, also beside a Redis that loses writes? |
| `ch` | pass | Does the canonical view end at the last row of the greatest version whatever is read again and merged, and is every row ingested? |
| `rf` | pass | Does the store implement the register with two readers beside it, do commits cover it, do answers advance, is everything before a refused record consumed? |
| `catalog` | pass | Is the catalog the reference's, does a version name one content, and does ClickHouse end at PostgreSQL's rows, from generator to view? |

`CHECK_DEADLOCK FALSE` everywhere: every one of these systems may rightly stop,
having read all there is, with a job that is gone or with its bounds used up.

### Bounds and why they are enough

- `MaxSource = 3` records, of five or six kinds: a transition, the same one from another
  run, a transition a window later, one behind every watermark, an invalid one a
  minute ahead, another user's in the same window. Three suffice for each hazard: what
  is lost or late, what makes it so, and what closes its window. Dedup, lateness,
  window and Top-1 state interact pairwise.
  `sj_recovery` keeps to one window, so that no aggregate multiplies its states, with an
  invalid record of three runs late enough to put the transitions behind the watermark,
  and a transition as old as another to the millisecond and the sequence number.
- The fixture of the accounting is one row, delivered by both run ids with two of the
  three records, so that a complete replay, a partial one, rows of the same runs that
  are not in the fixture and rows of a third run all fit.
- `RestartAttempts`: 0 or 1, so that a failure can end the job or restore it;
  `MaxResubmits = 1`. `MaxExpiries` is 1 where nothing is restored and in `sj_ttl_cart`;
  what a restore and an expiry do together is left to the theorems, which bound neither.
- `Delay` 5000 and `WindowSize` 60000 are the code's defaults; `NoWatermark` stands for
  Flink's least long value.
- API: two threads, four requests, `QueueLimit = 2` (a message left behind by a timeout
  fills half the queue), one failed delivery, one crash. Three actors on a
  lock would add no new kind of interleaving: the lock admits one.
- Replay: a file of five rows (a repeated row, one that does not parse, one with an
  unknown behavior) and one of four (one of a negative time), batches of two so that
  the last is short in one and full in the other, two runs of any command, one
  failed delivery.
- Cart: one user, two items, three records, one crash, expiry, rebuild and loss. A
  record, its redelivery and the record that supersedes it are the longest chains in
  the code, which handles one record at a time; users share nothing. A crash and a
  loss in one behavior are what the recovery has to be right about.
- Features: three records, one user, two clients, one crash, one expiry, one rewind.
  Nothing in code or properties relates two users.
- ClickHouse: three rows of two keys in different partitions, with two versions and
  two contents of one version; two aborts. A block of all three, given up after one
  partition and read again in two blocks, leaves four parts to merge.
- Catalog: a file of six rows with a majority, a tie and a refused row, and one with
  fewer products and other categories; batches of three, so that one is exactly full
  and one is left at the end; two generations, so that the second may be killed beside
  the first one's manifest; one load, two updates, versions up to 2, one failure of the task, one
  reread. The ACTION_CONSTRAINT `GeneratorFirst` takes the generator's steps before
  all others. That loses nothing: what the generator shares with the rest are its two
  files, which `Load` alone reads, and the one load permitted comes after the last
  generator step that it can see; its steps commute with all others.

### Fairness

- Job: weak fairness of processing, of checkpoints (a timer) and of restarts (a
  timer). None on failures, none on resubmission (nobody is obliged to run
  `start.sh` again), so `EventuallyAcknowledged` allows a job that is gone.
- API: weak fairness per thread; a flush ends by its timeout at the latest. None on the
  broker. Requests are finitely many, so weak fairness of `Lock` suffices.
- Replay: weak fairness of the client's own steps, a timeout among them; none on the
  broker or the API.
- Materializers: weak fairness of the loop and of the restart
  (`restart: unless-stopped`); none on reads, on the fsync or on failures.
- ClickHouse: weak fairness of ingestion (poll, insert, commit) as a whole; none on
  merges, which the server may put off for ever. Aborts are finitely many.
- Catalog: weak fairness of a *running* task's steps and of the consumer. Nobody is
  obliged to generate, load, register or restart a failed task, so `CatalogConverges`
  is about a task that is up in the end.

## What is proved

With TLAPS, for all values of the constants under the named ASSUMEs. Every safety
invariant, action property and refinement that a passing run checks is also a theorem;
the runs show on small instances what the theorems say of all of them, and the
strengthenings were checked as invariants of the same runs before they were proved.

*Assumptions.* Bounds, batch sizes and the delay are naturals, queue limit and window
are positive, event fields are integers, and a NULL watermark is below every event's.
Beyond these: an event id is taken of all fields but the run (`IdentityAssumption`,
which holds of `UserBehaviorEvent`); fixture and run ids of the accounting are finite
(`FixtureAssumption`); source files are finite sequences of rows
(`FilesAssumption`, `SourceFilesAssumption`); a run id is not blank
(`RunIdsAssumption`: `parse_event` refuses a blank one before any row is delivered); the
seed catalog is finite (`SeedAssumption`); and the values that stand for "none" are no
members of the sets they are added to. TLC evaluates each of them in a run.

**The job** (`StreamJobProofs`, `StreamWindowProofs`)

- `TypeCorrect`. The work is in `Emissions` (rows of a finite set are finitely many, so
  a sequence of them exists and has the right type) and in `Survivors`.
- `NothingLost`: `Spec => []NoEventLost`. `NoEventLost` speaks of what the running job has
  moved past; a failure replaces job and output at once, so it is not inductive. The
  invariant adds that the *acknowledged* output covers the *checkpointed* job, that the
  output extends the acknowledged one, and that dedup ids have their event in raw. A
  checkpoint makes the first clause, a failure uses it. Resubmission is the empty case,
  and expiry can only shrink the dedup state.
- `RawExact`: `Spec => []CanonicalRawExact`. The strengthening: while nothing has expired,
  dedup state (running and checkpointed) is exactly what the first `position` records give
  it, and output and acknowledged output hold first occurrences only. Rereading decides
  the same way every time.
- `CartConvergence`: `Spec => []CartConverges`. The topic may be ahead of a job that reads
  again, so "the last mutation of a key is the job's Top-1" is false in between. `CartInv`
  says instead that this last mutation is the Top-1 row *or still to be read*
  (`Follows`), that it was the newest of its key when it was written
  (`NewestWhenRead`), so that reading it again writes it again, and that what is written
  but not acknowledged lies behind the checkpoint (`InFlightInv`).
- `LateExactly`, `Placement`, `StableWindows` and `MetricsInput`, each
  `Spec /\ NoRestore => [](...)` with `NoRestore == [][~Restart]_vars`. The hypothesis is
  what the runs `sj_restore_features` and `sj_restore_placed` show to be necessary: after
  a restore the source watermark is NULL and the window operators' is not. Failures,
  loss of the job manager and new submissions are permitted. `WatermarkInv` makes the
  watermark the maximum over the records this submission has read, which is what
  `BehindWatermark` says of the topic; `WholeInv` says that an open or a written
  window holds exactly the counted events of its key, which is why a second submission
  writes the same row.
- `VersionsIncrease`: `Spec => []FeatureVersionsIncrease`; until restored or submitted
  again, what is written is closed and what is open is not (`OrderInv`).
- `Duplicates`: `Spec => []DuplicatesAccounted`, restores and expiries included. Only first
  occurrences and their ids count in canonical raw, and the selected invalid deliveries
  in quality, so subtraction leaves the repeated deliveries; the rest is cardinalities:
  of the valid and the selected invalid deliveries, which are disjoint and together what
  the views show (`ShownCounts`), of the first occurrences, one per accepted id
  (`RawCounts`), and of what fixture and views have in common (`DecodedCounts`).
  `MetricsInput` needs the late events besides, one audit row for each that is selected
  (`LateCounts`).

**The producers** (`IngressApiProofs`, `ReplayClientProofs`)

- `TypeCorrect`, `Durable` (`Spec => []AcceptedIsDurable`) and `CoversOwn`
  (`Spec => []FlushCoversOwn`) of the API, for any number of threads. The invariant `IInv`
  is the lock's: a thread between its publish and its answer holds the lock, and while it
  flushes its message is the last of the queue or, with the queue empty, is in the topic
  or in the error list the flush looks at. That is why an empty queue and no error are
  enough for 202, whatever earlier requests left behind.
- `Implementation`: `Spec => ImplementsIngress`. Every step is a `Submit`, `Write`, `Drop`,
  `Confirm`, `Fail` or a stutter of `EventIngress`. It needs `OnePlaceInv`: a message is in
  the hands of one handler, in the queue once, or in the topic, so that a failed delivery
  that was written all the same is a `Write` and not a second one.
- `SuccessComplete`, `OrderKept`, `NoGap`, `OutputsKept`, `RerunSafe` of the replay client, all
  from one invariant, `RCInv` (theorem `ClientInvariant`). Its parts: log, queue and
  batch of a run follow each other in source order (`OrderInv`, `BatchInv`); a row that
  has been taken and is not in hand was delivered, is queued or is known to have failed
  (`DeliveredInv`), so an empty queue without errors means all of them were delivered; whatever
  the API holds of an http run, every accepted row before it is in the topic (`GapInv`), so
  that a late write of a request given up on extends the prefix and nothing else;
  an output holds one run's lines in order up to what it has read (`FileInv`).
  `RerunSafe` combines them: equal ids give equal rows because the id is taken of the row
  number; a success leaves every accepted row in the topic, where no run can put another;
  and of two first occurrences that http wrote, the run that sent the newer row had sent
  the older one before it (`GapInv`, `OrderInv`), so an older row that comes second is
  no first occurrence. With `publish` that fails: a delivery that expires leaves a gap
  which the rerun fills behind newer rows.

**The materializers and the reads** (`RedisFeaturesProofs`, `RedisCartProofs`)

- `TypeCorrect`, `Refinement`: every step of the feature materializer is an `Offer`, a
  `Forget` or a stutter of the register. `CommittedServed`: everything up to the *polled*
  position was accepted and is served in that version or a newer one, and the committed
  offset is not ahead of it. `FirstServed`: `Spec => []ServesFirstOfVersion`, as nothing
  before the polled position is newer than what is served.
- `CommittedApplied`: `Spec => []CommittedIsApplied`. The cart materializer keeps no
  version, so the invariant `CartInv` is about what is still to come: a tombstone or a
  compacted record has a later write of its key (`SupersededInv`), so the last write of
  a key is always there to be read; of what lies between the committed offset and the
  record in hand nothing is due (`SkippedInv`); and the hash is the projection for
  every key whose writes all lie behind the position (`AppliedInv`).
- `CartsExpire`: `Spec => []NoImmortalCart`; a hash without an expiry has a write that is
  still to be carried out, or whose EXPIRE is (`ExpiryInv`).
- `ReadsDisturbNothing` (in both modules): `ReadSpec => Spec`, so that all of the above holds
  beside any number of reads. `AnswersAdvance` of features: the version an answer has
  shown, the one a request holds between its two calls and the one in the store are in
  this order, and only an expiry takes the last one back. `AnswersAdvance` of carts: a
  field is as of some offset that no answer has gone beyond and no redelivery will go
  behind (`SeenInv`).

**ClickHouse and the catalog** (`ClickHouseIngestProofs`, `CatalogProofs`)

- `CommittedCanonical`: `Spec => []CommittedIsCanonical`. FINAL breaks a tie by the age of
  the parts, and a block that is read again may put an older row into a newer part;
  `CoveredInv` is therefore said of the rows below the committed offset, and of the block
  in hand for those partitions whose part is in. `MergesInvisible` and
  `VersionsAdvance`, the two action properties, follow from the same invariant: a merge of
  neighbours keeps, per key, the row FINAL would have shown.
- `CatalogIsReference`: `GeneratorSpec => []GeneratedIsDominant`, for any files, batch size
  and number of runs. The invariant `GInv` says that table and pending rows together
  count the rows read, each row in one of them, so that the last flush leaves the
  reference's counts. The manifest counts products and the catalog has a row per product:
  `DominantPerProduct` shows that of the finitely many categories of a product exactly
  one is dominant, and a bijection gives the cardinalities.
- `CatalogStaysReference`: the same of the composed `Spec`.
- `OneContentPerVersion` and `DrainedCurrent`: `Spec => []VersionNamesContent`,
  `Spec => []DrainedIsCurrent`, as the properties say while no load follows the
  registration. `CdcInv` is about everything that is *told*: sent, in the snapshot in hand, or
  logged after where the task is or would go on. What is told is at or below the row in
  the table and agrees with it on equal versions (`ToldInv`); the table's row is always
  among it (`LatestInv`), whichever point a failed task starts again from.

**Model-checked only**: liveness (`EventuallyAcknowledged`, `EveryRequestAnswered`, `RunEnds`,
`EveryMutationConsumed`, `EverySnapshotConsumed`, `EveryRowIngested`, `CatalogConverges`),
since fairness and ENABLED are outside what the prover handles; the runs that end in a
violation, which are counterexamples. The theorems speak of one component each; what
they give together, from the source file to Redis and ClickHouse, is not stated yet
([Plan](#plan), 8 and 10).

## Disagreements found

1. *A restore changes closed features* (`sj_restore_features`).
   `CURRENT_WATERMARK` is NULL after a restore, so the first record read again is on
   time whatever it was before; in the checkpoint its window is still open, and a
   different row is written for a window already published
   (`transformations.sql:59`, against its comment at 68-70 and
   `recovery_test.sh:26-29`).
2. *An accepted event in no account* (`sj_restore_placed`). For the same reason the
   on-time predicate passes a record that the window operator, whose watermark is
   restored, drops silently (against `docs/SEMANTICS.md:10`).
3. *An older cart after a newer buy, by TTL* (`sj_ttl_cart`), against `README.md:60-62`. It is
   not transient. (A restored job also writes older cart rows behind a newer buy, as
   at-least-once output may; that is transient: `CartConverges` passes.)
4. *Delivery errors are never cleared* (`api_sticky_errors`): after one failed
   delivery the API answers 503 to every request although their events are
   written, until it is restarted.

## Not modelled

- *Deployment scripts*: `start.sh` run twice leaves two jobs over the same topics; their
  joint states are beyond the checker at the bounds the single job needs. The waits are
  polls of external services. What the scripts decide for the running system
  (restart policies, submission without a savepoint, the append-only file of the carts, the
  registration and the load) is in the models.
- *Configuration, SQL templating, connector packaging, CI, image builds*: checks of
  environment variables, string substitution and build files keep no state over time;
  the publisher's security options neither.
- *Verification beside the accounting*: the comparison with golden files and the checks
  of TTLs are equality tests of fixed data.
- *Trending*: one ClickHouse statement over two views; nothing of the API's own happens
  around it.
- *Durability of Redis' features*: the append-only file may lose its last second of the
  feature hashes as it does of the carts. It is modelled for the carts (`LoseWrites`),
  where only a rebuild repairs it; here the next snapshot of the user does, and until
  then `CommittedIsServed` and the two properties beside it hold of a Redis that keeps
  what it has answered.
- Inside modelled parts: a rebalance between several consumers of one group (compose
  runs one); a broker that loses acknowledged records; event times outside the 64-bit
  range; a bounded source; the replay client's pacing, which only delays a row.

## Plan

Done: 1-7 and 9. Left: 8 and 10.

1. `EventContract`, `StreamJob` (the core), its instances and first theorems.
2. `EventPublisher` with `IngressApi` and `ReplayClient`; `EventIngress`, the promise
   that lets the client's http command be modelled without the API's threads.
3. `RedisCart`; `FeatureRegister` and `RedisFeatures` with the refinement; Redis
   durability; the reads beside both.
4. `ClickHouseIngest`: redelivery of blocks, merges, FINAL, equal versions.
5. `Accounting` over `StreamJob`'s outputs.
6. `CatalogGenerator` against its reference, `CatalogCdc` composed with it.
7. First theorems: types, `NoEventLost`, `CanonicalRawExact`, the register refinement,
   `CommittedIsServed`, `AcceptedIsDurable`, `FlushCoversOwn`, `AnswersNeverGoBack` of
   features, `GeneratedIsDominant`.
8. `Pipeline`: `StreamJob` composed with both materializers over shared topics; the end-to-end
   statements (Redis' cart is the newest transition of each key, offline and online
   features agree) and what a restore does to them: of two rows of one version Redis
   keeps the first (`ServesFirstOfVersion`) and ClickHouse shows the last
   (`CommittedIsCanonical`), and a restore can produce two (`sj_restore_features`).
   `Deployment`, if two jobs can be made small enough.
9. The other safety properties as theorems: the cart topic, the windows and the
   accounting, both producers, the cart store with its reads, ClickHouse, the catalog's
   change stream, and that `IngressApi` implements `EventIngress`.
10. Theorems across components: the cart topic of `StreamJob` as the topic `RedisCart`
    reads, so that `CartConvergence` and `CommittedApplied` give the end-to-end statement;
    a register refinement of `ClickHouseIngest`.
