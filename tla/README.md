# TLA+ model of the Postgres-to-MongoDB CDC pipeline

The pipeline moves row changes from Postgres to MongoDB:

    Postgres -> Debezium -> cdc.* -> transformer -> transformed.* -> sink -> MongoDB

The two Go services, `services/transformer` and `services/sink`, carry its own
logic; Postgres, Debezium, the Kafka brokers, franz-go and MongoDB are external
and modelled from how the services use them.

## Inventory

| Component | State | Operations | Interacts with | What is hard | Correct when |
|---|---|---|---|---|---|
| sink consume loop (`consumer.go`, `runLoop` in `main.go`) | the batch of the running `RunOnce` | poll, decode, apply, mark, commit; early return on every error; retry after backoff | franz-go, decoder, writer | an error after the poll has moved the position; crash between write and commit; rebalance during a batch | a committed event is in MongoDB; MongoDB becomes the source table |
| Kafka client (`franz.go`) | position and marks per assigned partition | `Poll`, `MarkCommit`, `CommitMarked` | broker: assignment, committed offsets | a fetch error drops other partitions' records; a commit after losing the partition | what is committed was marked, and what is marked was applied |
| LSN gate (`writer.go`, `adapter.go`) | `sourceLsn` of a document | upsert, delete | MongoDB filters, the unique `_id` index | replays and reordering; a delete leaves no LSN behind | a document never moves to an older image |
| Mongo writer (`mongo_writer.go`) | none between calls; the skip counter | `ApplyBatch`, one unordered `BulkWrite` per collection | MongoDB | execution order, partial failure, E11000, write concern errors | the newest image wins; a replay changes nothing |
| checkpointer (`checkpoint.go`) | `maxLSN`, `eventCount`, `dirty`, `idleTicks`, last write time; the document | `MarkProgress`, `Run`, `Flush` | consume loop, `main`, MongoDB, other replicas | three goroutines over separate atomics; timeouts; restarts; a shared document | `lastLSN` never runs ahead of the loop, and catches up |
| transformer loop (`transformer/main.go`) | the poll being worked through | poll, map and produce record by record, commit | franz-go consumer and producer, mapper | partial commit after an error; produce that failed but landed; rebalance | every committed record was produced; per-key order |
| decoder (`decoder.go`) | none | `Decode` | consume loop | what the mapper made of the record | one outcome per record: event, tombstone or error |
| mapper (`mapper.go`) | the rule set | `Load`, `ApplyJSON` | transformer | topic-tail fallback, map order, numbers that pass through float64 | the same record gives the same event; LSNs keep their order |
| retry backoff (`main.go`) | the failure count | `backoffDuration` | consume loop | a shift past 64 bits | doubles, then stays at the cap |
| lag probe (`lag.go`) | total lag, time of the last probe | `Probe`, `Run` | broker, consume loop | two reads at different times, unreadable partitions, a goroutine that ends | lag is not understated; the gauges tell the truth in the end |
| DLQ tool (`dlqtool/main.go`) | counters of one run | list, scan, replay | dead-letter topic, source topics | the topic changes under the scan and is fed by the replay | ends although it feeds itself; exit code 0 means replayed |
| load generator (`loadgen`) | the table `users` | insert, update, delete | Postgres | which row a statement hits | the source of the pipeline |

`PROJECT.json` lists every component, and under `hazards` each place where this
code can go wrong in a way a test would hardly reach.

## Modules

| Module | Models |
|---|---|
| `LsnGate` | what one event does to one document |
| `Sink` (extends `LsnGate`) | the sink: any number of replicas, partitions, collections |
| `RowReplica` | the abstract promise of the sink |
| `SinkRefinement` (extends `Sink`, instantiates `RowReplica`) | the refinement mapping between the two |
| `MongoWriter` (extends `LsnGate`) | one `ApplyBatch` and the redelivery of its batch |
| `Checkpoint` | the checkpoint document and the goroutines around it |
| `Transformer` | the transformer: any number of replicas and partitions |
| `LoadGen` (extends `LsnGate`) | the writer of the source table and what Debezium captures |
| `Pipeline` (instantiates `LoadGen`, `Transformer`, `Sink`) | the services composed through the topics |
| `Envelope` | the content of a record: `mapper` and `decoder` |
| `Backoff` | `backoffDuration` in 64-bit arithmetic |
| `LagProbe` (extends `Backoff`) | the lag gauge beside the consume loop |
| `DlqTool` | one run of the dead-letter tool |
| `MCSink`, `MCMongoWriter`, ... | constants of the small instances |
| `TransformerProofs`, `CheckpointProofs`, `MongoWriterProofs`, `EnvelopeProofs`, `DlqToolProofs`, `LagProbeProofs` | theorems about the module each extends |
| `SinkProofs` (extends `SinkRefinement`) | theorems about the sink and the refinement |
| `PipelineProofs` (extends `Pipeline`, instantiates `SinkProofs`, `TransformerProofs`) | theorems about the whole pipeline |

Definitions introduced by a comment `Mutant:` are wrong on purpose; nothing
uses them. Each is a plausible bug of the definition that follows it, and
replacing that definition by it makes a run fail (`mutants` in `PROJECT.json`).

### LsnGate

A document is its `sourceLsn`, or `Absent`, or `NoLsn` (a document the sink did
not write). An upsert sets the whole row image together with the LSN, so the LSN
stands for the image. (A column that disappears from the row image is not
`$unset`; the model does not see it.) `Outcome` is MongoDB's answer to the filter
`BuildWriteOp` makes: a filter that matches nothing makes an upsert insert, and
the `_id` index answers E11000 when the document exists after all.

### Sink

`log[p]` is a partition of `transformed.*`, `rows` the source table, `docs` the
collections. Per member, `pc`, `batch`, `ends`, `pending`, `inserting` and
`table` are the locals of the running `RunOnce`, and `pos` and `marks` the state
of the franz-go session. Actions follow the code:

- `Poll`, `PollError`: `FranzConsumer.Poll`. Both advance `pos`; only `Assign`
  resets it. This is what franz-go does: `PollFetches` never returns a record
  twice in a session.
- `Decode`, `DecodeError`: the decode loop and the build loop of `ApplyBatch`,
  which write nothing before both have succeeded.
- `StartTable`, `ExecuteWrite`, `FindNothing`, `InsertFound`, `FinishTable`,
  `ApplyError`: `ApplyBatch`. One bulk per collection, collections in any order,
  the writes of a bulk in any order. `FindNothing` and `InsertFound` split an
  upsert of a missing document where MongoDB does, always: any other writer may
  come in between. MongoDB is taken to work on one model of a command at a time.
- `MarkCommit`, `CommitMarked`, `CommitError`: the end of `RunOnce`. Every record of
  the batch is marked, of partitions the member has lost too. An error may come
  before or after the broker took the offsets. `StoreMarks` has no assignment
  check, for neither the code nor the broker has one (a commit is fenced by member
  and generation): the marks of a partition that was taken away may go out or be
  gone, and may set the committed offset back.
- `GiveUp`: `runLoop` after an error; the batch is forgotten and the next
  iteration polls from the current position.
- `Crash`, `Restart`, `Assign`: the process and the group. Crash includes a
  shutdown and `runLoop` returning. With the fault "late" MongoDB may carry out
  the rest of a bulk whose client is gone (`LateWrite`).
- `Change`, `Reproduce`, `ProduceUnusable`: what arrives in the topic: row changes
  with increasing LSNs, deletes followed by a tombstone, the end of a partition
  again after a transformer restart, records nobody can decode or build.

`executed`, `abandoned` and `swallowed` are histories; no action reads them.

The model takes `MarkCommitRecords` and `CommitMarkedOffsets` to have the effect
the code relies on (`franz.go:89-103`, confirmed by the repository's own
observation in `docs/chaos-findings.md:101`): the client keeps the highest mark of
a partition per session and commits what is marked. Both services set
`kgo.DisableAutoCommit` and not `kgo.AutoCommitMarks` (`franz.go:29`,
`transformer/main.go:63`); whether the client honours marks without the latter is a
matter of the library, which is not part of the repository.

### RowReplica and SinkRefinement

`RowReplica` says what a user of the sink relies on, without partitions, offsets,
batches, members or MongoDB commands: per row, the LSNs the source has published
(`images`, `deletes`), the image shown (`view`) and the images acknowledged
upstream (`acked`) or given up (`lost`). The view moves to a newer published image,
or to none by a newer delete; an image is acknowledged only once the view has it or
a newer one, or after it was lost (claimed for rows without a delete, because a
delete leaves no LSN behind); an acknowledgement may be withdrawn, when an old owner
sets an offset back. `SinkRefinement` maps the log to `images` and `deletes`, `docs`
to `view`, the committed offsets to `acked` and the two histories to `lost`. The
refinement needs no hypothesis on what fails.

### MongoWriter

The same writer, one batch at a time, seen closely: it starts from every small
document state and batch, counts what MongoDB answers, and delivers the batch a
second time, after an error ("retry") or after a success that was not committed
("replay").

### Checkpoint

Per replica: the consume loop (`ApplyBatch`, the three stores of `MarkProgress`,
`Commit`), `Run` (`Tick`, then `flush` as four steps: two loads, the update, the
clear) and, once `runLoop` has returned, the deferred `Flush` of `main`, which runs
the same four steps under its own context. `ApplyFails` is a batch that was decoded
or written with an error: nothing is marked, and the next poll goes on behind it.
`ApplyBlocks` is an inner writer that does not come back. `runLoop` returns after a
signal (`FinalFlush`) or after a deadline of one iteration (`LoopTimesOut`), and then
the final flush runs beside a `Run` that is still alive. A batch is of one
partition: one with several has the same effect as one after the other, but for the
marks in between. Time passes in ticks of `Interval`; a flush is shorter than a tick
(5 s of 10 s). The gauge is `stale`, followed up to `MaxStale`.

### Transformer

Like `Sink` on the consuming side. `Forward` and `ProduceError` are one visit of
`EachRecord` each; `SkipRest` is what `firstErr` does to the remaining records;
`Commit` commits what was produced before. `out[k]` is the sequence of key `k`'s
records in `transformed.*`, named by their input offset.

### LoadGen and Pipeline

`LoadGen` has one action per handler of the load generator, with the row its SQL
picks, and the records Debezium makes of it. `Pipeline` instantiates it with
`Transformer` and `Sink`: what `LoadGen` captures is the input log of the
transformer, and each record a transformer produces is appended to the log of the
sink in the same step. The sink checked alone makes up its input (`Change`,
`Reproduce`), which replays the end of a partition as one block; in `Pipeline`
the input is what real transformers do, with records of an old owner appended
between those of the new one. Only crashes, rebalances and failed commits are
faults here; what in-process errors lose is the subject of `Sink` and
`Transformer`.

### Envelope

Two records of one row, the older and the newer, go through `ApplyJSON` and
`Decode` in any order and any number of times, under rule files that may change
with a restart. A record is reduced to what the two functions look at. An
operator that depends on Go's map order (`lookupByTopicTail`, `renameKeys`)
returns the set of possible results. A float64 has `Mantissa` bits and an int64
`IntBits`, so that both limits are met by small numbers. `json.Marshal` writes the
shortest decimal that reads back as the float64, which for a large number need not
be the integer value of the float64 that `ThroughFloat64` gives; it lies in the same
rounding interval, so no order and no class depends on the difference.

### LagProbe and Backoff

`RunOnce` is one step here, since only its commits and errors matter: the position
moves with every poll, the marks only if the batch was applied (`ConsumeFails`
leaves them behind), the committed offsets only if the commit went through. `spoiled`
is the history of the partitions whose last batch ended in an error. There is one
process, so that no other member sets its offsets back. A probe is
the two broker reads inside `adm.Lag`, with anything in between. `age` is counted
in probe intervals. A `Duration` is counted in units of 256 ns, of which both
constants are multiples, and kept in two 28-bit halves: the arithmetic is that
of int64.

### DlqTool

`ListEnd` and `ListStart` are the two admin calls, `OpenClients` makes the consumer and
the producer (or exits 1), `Poll` to `Check` is one iteration
of the scan, with one step per record. The topic grows (`DeadLetter`, which is
also how a replayed record comes back) and is truncated (`Truncate`) at any time.
`MaxFetch` stands for what the client buffers for a partition; the code sets no
limit of its own.
The context of the run may end at any point of the scan.

## Runs

Passing runs:

| Run | Instance | Shows |
|---|---|---|
| `SinkFaults` | 2 members, 1 partition, 2 keys, 2 row changes, every fault, at most 2 | `NoSilentLoss`, `ImagesAreReal`, `UndeletedMirror`, `DocumentNeverGoesBack`, `ImplementsReplica`, `TypeOK` |
| `SinkSole` | 1 member, 2 partitions, 2 collections, 2 records of each per poll, deletes; crash, commit error, replay; fair | `NoLoss`, `EventuallyMirrored` |
| `WriterBatch` | batches over 2 documents in 2 collections, every initial state, server and write concern errors, one redelivery | `NewestImageWins`, `ReplayOfUpsertsIsNoOp`, `SkipsNeverUndercount`, `ConfirmedUnlessDuplicate`, `TypeOK` |
| `CheckpointFaults` | 1 replica, 1 partition; 2 errors, timeouts, failed or blocked batches, kills or shutdowns; fair | `AnchorIsReached`, `StaleOnlyByFailures`, `ProgressIsPersisted`, `TypeOK` |
| `TransformerFaults` | 2 members, 2 partitions, all faults, at most 2 | `NoSilentSkip`, `OvertakesOnlySkipped`, `TypeOK` |
| `Pipeline` | 2 transformers, 1 sink, 2 row changes; crash, rebalance of the transformers, commit error, one per service; fair | `EndToEndMirror`, `EndToEndNoLoss`, `EventuallyEndToEnd` |
| `DlqReplay` | 2 partitions, 4 records, dry run and replay, `-max` 0 and 2, one fault; fair | `FeedbackIsBounded`, `SuccessMeansReplayed`, `Terminates` |
| `LagProbe` | 2 partitions, 2 records, 2 faults, 58 failures in a row; fair | `BackoffSaturates`, `LagIsNotUnderstated`, `AgeOnlyByFailures`, `LagSettles` |
| `Envelope` | 11 rule directories, 11 kinds of record, LSNs around each limit, 2 deliveries | `RedeliveryIsIdentical`, `OrderSurvivesRounding`, `MappingKeepsClass` |

Runs that end in a counterexample, each against a sentence of the repository
(quoted in full under `findings`):

| Run | Property | The sentence | What happens |
|---|---|---|---|
| `SinkApplyErrorLoses` | `NoLoss` | "Kafka redelivers on next poll" (`consumer.go:67`) | the position is past the failed batch; the next commit covers it |
| `SinkBulkResurrects` | `QuiescentMirror` | "It was not a separate bug" (`chaos-findings.md:271`) | insert after delete inside one unordered bulk |
| `CheckpointStallUnseen` | `StallIsNoticed` | "Climbs when the consume loop stalls" (`checkpoint.go:119`) | the heartbeat of `Run` refreshes the gauge while the loop is blocked |

`SinkBulkResurrects` rests on MongoDB being free to run the models of an unordered
bulk in any order. A driver that groups the models of such a bulk by kind before it
sends them would decide the order of an insert and a delete by the kinds alone,
always or never the bad one; that is a matter of the driver, which is not part of
the repository. `docs/invariants.md:7` is about an UPDATE that overtakes an INSERT,
which the LSN gate absorbs (`NewestImageWins`).

More sentences of the repository do not hold of the code. Each is a definition of
its module, refuted by TLC on the instance named here; none has a run of its own:

| Definition | The sentence | Refuted by | What happens |
|---|---|---|---|
| `NoLoss` | "no configuration of crashes can cause data loss" (ADR-003) | 1 member, 1 key, 2 upserts; crash and late write | the orphaned insert of a killed process lands between the find and the insert of a newer upsert, whose E11000 is taken for a stale replay |
| `AnchorIsSafe` | "the disaster-recovery anchor" (`checkpoint.go:6`) | 2 partitions (`TwoLogs`), no fault | `lastLSN` is a maximum and passes an event of a slower partition |
| `RunOutlivesErrors` | "Errors from Mongo are logged but do not stop the loop" (`checkpoint.go:148`) | 1 timeout | the deadline of one flush ends `Run` |
| `MaxIsACap` | "cap how many to read" (`dlqtool/main.go:16`) | `-max 1`, fetches of 2, 2 records | `-max` is compared after a whole fetch, so a replay can send back a fetch more than asked |
| `DrainsToTheMark` | "every record currently in the DLQ topic up to the high-water-mark at start" (`dlqtool/main.go:4`) | no `-max`, fetches of 2, 3 records | newer records of one partition are counted for old ones of another |
| `ProbeOutlivesErrors` | "Returns when ctx is canceled. Probe failures are logged" (`lag.go:98`) | 1 timeout | the deadline of one probe ends `Run` |

**What the passing properties leave open.** Each exception in a passing property
is there because the model reaches it, and marks a place where the code does
less than one would hope:

- `NoSilentLoss`, `UndeletedMirror` and `ImplementsReplica` except abandoned batches:
  besides `ApplyError`, a fetch error on one partition drops the records of the
  others (`franz.go:64`), and one event that does not decode or build drops its
  batch; the position is not rewound in any of these cases.
- They also except swallowed events: a write that races the upsert of a missing
  document makes it fail with E11000, which is taken for "already newer"
  (`mongo_writer.go:87`). A second member after a rebalance is enough for this, and so
  is a `BulkWrite` that outlives its process. `NoLoss` therefore holds only for a
  single process whose writes do not outlive it.
- Committed offsets can move back, when an old owner commits its marks after the new
  one. What follows is a replay; no property says that it does not happen.
- `UndeletedMirror` and `EventuallyMirrored` speak of rows that were never deleted: a
  delete leaves no LSN, so an older event applied after it (a replay by a second
  owner, or the same bulk) brings the row back.
- `ReplayOfUpsertsIsNoOp` excludes deletes for the same reason.
- `SkipsNeverUndercount` is one-sided: one E11000 counts the whole bulk as skipped.
- `ConfirmedUnlessDuplicate`: a bulk with an E11000 is reported as a success even
  if its write concern was missed.
- `AnchorIsReached` says nothing of other partitions, nor of the events of a batch that
  was given up: `lastLSN` passes both, and `AnchorIsSafe` fails.
- `lastLSN` can move back: by the heartbeat of a new process, which starts from 0, by
  an update that outlived its client, by another replica, and by a `Run` that flushes
  beside the final `Flush`. `ProgressIsPersisted` says that it comes again.
- `StaleOnlyByFailures` and `ProgressIsPersisted` speak of a `Run` that has not
  returned. The gauge is computed when scraped, so after that it climbs.
- `ProgressIsPersisted` speaks of catching up in the end: the `dirty` flag of a
  `MarkProgress` during a flush is lost, and its LSN waits for the heartbeat.
- `NoSilentSkip` and `OvertakesOnlySkipped` except records an error skipped. Two
  transformers can leave an old copy as the last one of a key; `EndToEndMirror`
  shows that the LSN gate absorbs it, for rows that are never deleted.
- `EndToEndMirror` and `EndToEndNoLoss` are about one sink whose writes do not outlive
  it, for the same reason as `NoLoss`.
- `RedeliveryIsIdentical` excepts rules that are ambiguous: two schemas with one
  table name and a record of neither, or two fields renamed to one target. `Load`
  accepts both. A record of `audit.users` is also mapped by the rule of
  `public.users` when it is the only one, through the topic tail.
- `OrderSurvivesRounding` promises a strict order only up to 2^53, and none between
  a record that was mapped and one that was passed through beyond it.
- `LagSettles` excepts the partitions whose last batch was given up or whose last
  commit failed: the gauge shows their records as lag, and nothing applies or commits
  them until the next record of the partition arrives. A partition that cannot be
  read counts as 0.
- `FeedbackIsBounded` allows a fetch on top of the mark, and if retention moves a
  start past the listed end, the target can be 0 or negative although there are
  records.
- `Terminates` assumes that a produce of the tool comes back; `-timeout` is what ends
  one that does not.

**Bounds.** Two members are what a rebalance needs; a third only repeats the
role of one of them. Two row changes are an insert and an update or a delete of
one row, or an event of each of two rows: the least that can be lost, overtaken or
replayed past each other. Two keys let a batch mix rows. A row that is deleted and
inserted again needs three (`SinkSole`; with every fault and two members
three changes exceed what TLC does in minutes, and the theorems have any number).
`MaxPoll` 2 puts two events of a row in one bulk. Two faults are a failure and
one during its recovery. `MaxStale` is one tick past the largest healthy value,
and so is `MaxAge`. In `Pipeline` an insert and an update of one row are the least
that can be reordered, and one fault per service includes both failing at once.
58 failures take the shift through the sign bit, the values that wrap to positive
ones and, from 57 on, zero. `Mantissa` 4 and `IntBits` 6 keep the order of 53 and
63 and leave LSNs on both sides of each. Four dead-lettered records on two
partitions are a snapshot of two and two newer ones that a scan may count instead.
Deadlock is not checked: a source that has made all its changes, a batch that was
delivered twice, a run of a tool that has exited and a process that nobody
restarts are legitimate ends; only `LagProbe` never ends.

**Symmetry** (members; keys of one partition and collection) is used only in runs
without liveness properties.

**Fairness.** `runLoop` and `main` of the transformer call their `RunOnce` in a
loop for as long as the process lives: weak fairness of each member's own steps.
Containers are restarted (`restart: unless-stopped`): weak fairness of `Restart`.
The broker assigns a free partition to a live member, MongoDB finishes a command
it has received, a ticker fires. Nothing obliges the source to write or a fault
to happen, and the number of faults is finite. `Pipeline` takes the fairness of
its services. The lag ticker fires and a probe ends, with an answer, an error or
its timeout; the DLQ tool runs. In `Checkpoint` restarts are not
assumed; the properties speak of live processes.

## Proofs

The theorems hold for all sets of members, partitions and keys, all bounds and
all fault sets that the `ASSUME` of the module allows, unless the table says
otherwise. Every inductive invariant was checked with TLC on the instance of its
run before it was proved. The assumptions on the constants are those of the code:
finite sets of partitions and of rule files, and LSNs of at most 64 bits
(`EnvelopeAssumption`: below 2^(`IntBits` + 1)).

| Module | Theorem | Statement | Assuming |
|---|---|---|---|
| `SinkProofs` | `TypeCorrect` | `[]TypeOK` | |
| | `AtLeastOnce` | `[]NoSilentLoss` | |
| | `SoleWriterLosesNothing` | `[]NoLoss` | one process (`SoleWriter`); crashes, rebalances, commit errors and replays (`CrashFaults`) |
| | `GateIsMonotone` | `DocumentNeverGoesBack` | |
| | `NoForeignImage` | `[]ImagesAreReal` | |
| | `MirrorAtRest` | `[]UndeletedMirror` | |
| | `SinkImplementsReplica` | `ImplementsReplica` | |
| `TransformerProofs` | `TypeCorrect` | `[]TypeOK` | |
| | `ProducedBeforeCommit` | `[]NoSilentSkip` | |
| | `RowOrderKept` | `[]OvertakesOnlySkipped` | |
| `PipelineProofs` | `NothingLostEndToEnd` | `[]EndToEndNoLoss` | one sink (`OneSink`) |
| | `MirrorEndToEnd` | `[]EndToEndMirror` | one sink (`OneSink`) |
| `CheckpointProofs` | `TypeCorrect` | `[]TypeOK` | |
| | `StaleIsBounded` | `[]StaleOnlyByFailures` | |
| | `AnchorNamesWhatWasReached` | `[]AnchorIsReached` | |
| `MongoWriterProofs` | `TypeCorrect` | `[]TypeOK` | |
| | `NewestWins` | `[]NewestImageWins` | |
| | `ReplayIsIdempotent` | `[]ReplayOfUpsertsIsNoOp` | |
| | `SkipsAreCounted` | `[]SkipsNeverUndercount` | |
| | `WriteConcernIsReported` | `[]ConfirmedUnlessDuplicate` | |
| `EnvelopeProofs` | `ClassIsKept` | `[]MappingKeepsClass` | |
| | `OrderIsKept` | `[]OrderSurvivesRounding` | |
| | `RedeliveryGivesTheSame` | `[]RedeliveryIsIdentical` | |
| `DlqToolProofs` | `ExitCodeIsTrue` | `[]SuccessMeansReplayed` | |
| | `ScanIsBounded` | `[]FeedbackIsBounded` | |
| `LagProbeProofs` | `AgeIsBounded` | `[]AgeOnlyByFailures` | |
| | `LagIsHonest` | `[]LagIsNotUnderstated` | |
| | `BackoffNeverSpins` | `[]BackoffSaturates` | |

### The sink

`NoSilentLoss` is not inductive: it says nothing of marks, positions or the batch
in hand. The inductive invariant `SinkInv` adds

- `LogInv`: a key's records are in its partition, and every id in hand or in a
  history names a record of the log;
- `BatchInv`: at each program counter, which records of the batch are pending,
  inserting or executed;
- `OffsetInv`: below a committed or marked offset everything is settled (executed
  or abandoned), and below the position of an owner or the end of a batch it is
  settled or in hand; nothing relates the marks of two members, or a mark and the
  committed offset, because nothing in the code does;
- `DocInv`: an upsert that ran, and was not swallowed, of a row that is never
  deleted, is reflected in MongoDB.

The argument: a poll extends the position by exactly what it puts in hand
(`OffsetInv`), the program counter says that what is marked was executed
(`BatchInv`), a commit stores nothing but marks, whoever sends them, and the gate
never moves a document back (`EffectGrows`), so what was executed stays reflected
(`DocInv`). `GateIsMonotone` needs only types and `EffectGrows`.

`SoleWriterLosesNothing` adds `CleanInv`: nothing is abandoned, swallowed or running
behind its client's back, and the one upsert that may be between its find and its
insert still finds no document. The last clause is what a second member, or a late
write, breaks (the first counterexample of the second table): the hypotheses are those of the code's happy case
and cannot be dropped.

`MirrorInv` adds what relates documents to the source: `SentInv` (only what
`BuildWriteOp` accepted is on its way to MongoDB, and no delete is ever
inserting), `LsnInv` (an LSN in the log is one the source has handed out) and
`RowsInv` (the image of a row is in the log, and is the newest one there unless
the row was deleted). A document at rest is then at least the newest image
(`DocInv`) and at most it (`ImagesAreReal`, `RowsInv`): `MirrorAtRest`, for every row of
which no event is in one of the two histories. For `SinkImplementsReplica` each step
is mapped: a source step publishes, a write refreshes or removes, giving a batch up
or swallowing an E11000 loses, a commit acknowledges what `OffsetInv` says is
settled and `DocInv` says is shown (or withdraws an acknowledgement), and everything
else is a stutter. Neither needs a hypothesis on the faults.

### The transformer

`TransformerInv` has the same `OffsetInv`, with "in `transformed.*` or skipped" for
settled. `RowOrderKept` needs more: that a member may still produce records of a
partition it has lost. `TodoInv` says that what is older than a record in hand is
settled or in hand as well, wherever the partition is now; since `EachRecord`
visits the least offset of a partition, everything below it is then settled.

### The pipeline

The step lemmas of `SinkProofs` and `TransformerProofs` do not use how records come
into the input topic: they are stated for `Step`, in which `Arrives` lets records of
the right partition be appended by anyone. The
environment of each module alone satisfies `Arrives` (`SourceArrives`,
`CaptureArrives`), and so do, in `PipelineProofs`, a row change for the
transformers (`WriteArrives`) and a produced record for the sinks (`ForwardStep`).
`PipelineInv` joins the two invariants with `CdcInv` and `RowsInv` (as in the sink,
for `cdc.*`) and `LinkInv`: everything in `transformed.*` is a record of `cdc.*`, and
everything the transformers count as produced is there. `NothingLostEndToEnd` goes
through it from left to right: a committed record is settled, so produced, so in
the log of the sink, so executed once the sink has caught up, so reflected.
`MirrorEndToEnd` goes back as well: the image of a document is in the log, so in
`cdc.*`, so not newer than the row. The pipeline has crashes, rebalances and
failed commits only (`PipelineAssumption`), and the theorems are about one sink
(`OneSink`) beside any number of transformers: in-process errors lose records
(`SinkApplyErrorLoses`), and so does a second sink in an upsert race.

### The checkpointer

`StaleInv` bounds the gauge by the tick counter `idleTicks` as well as by the
heartbeat, because a flush that fails leaves `idleTicks` and the gauge one tick
apart for each failure. `AnchorInv` says of every LSN on its way to the document
(loaded by a flusher, held by `MarkProgress`, in an update whose client is gone)
that its partition was applied, or given up, all the way to it. This is kept by
every load, store, update and restart in any order, since a maximum and a copy of
such LSNs are such LSNs, and needs no hypothesis on replicas or partitions.

### The writer and the tools

`WriterInv`: `ImageInv` says that a row without a delete in the batch never moves
back and that the events already run are reflected, which makes every order of
execution end in the newest image and a second delivery change nothing; `CountInv`
says that what changed nothing is counted or part of the bulk whose result is
still to be read. `ReplayInv` of the DLQ tool keeps "visited = landed" until a
replay fails, and that a failure is remembered up to the exit. `AgeInv` of the lag
probe splits the bound by where `Run` is: a failed probe costs its tick when it
ends.

### The envelope

`EnvelopeInv` says that the rules in use are ones `Load` accepts (finitely many, one
for a source), and that every delivery in `seen` is one result of `ApplyJSON` and `Decode` under
the rules it names. The three theorems are then about the two functions alone.

- `OrderIsKept` is the monotonicity of rounding to `Mantissa` bits. Within one
  binade (2^n to 2^(n+1)) the spacing is fixed and rounding to the nearest
  multiple, ties to even, is monotone (`NearestMonotone`); a number never leaves
  its closed binade (`RoundToBinade`), so two numbers of different binades are not
  exchanged; and up to 2^`Mantissa` rounding is the identity (`RoundToExact`).
- `ClassIsKept` needs which side of 2^`IntBits` a number ends up on
  (`RoundToSide`): only a number rounded up to exactly that limit changes from one
  `LSN.Int64` reads to one it refuses.
- `RedeliveryGivesTheSame`: unambiguous rules leave one choice to each of the two
  places where the code follows Go's map order (`OneRule`, `OneResult`).

### The DLQ tool and the lag probe

`ScanInv` counts: `processed` is the number of visited records, visited records and
those of the current fetch are below the position, and between two fetches the
count is still below its target. A fetch is at most `FetchSize` records
(`FetchIsBounded`, an injection into pairs of a partition and a number up to
`MaxFetch`), which bounds the overshoot.

`LagInv`: the committed offsets only grow, and the ends of a probe are read after
its committed offsets, so that each partition's share of the gauge is at least
what is left of its lag (`SumMonotone` carries this over to the total).

`BackoffNeverSpins`: the 64-bit shift and the saturating doubling are compared
number of failures by number of failures up to the point where the shifted value
no longer has a bit below the sign (`ShiftedTable`, `ShiftedOut`); from there on
both checks keep giving the cap (`BackoffIsSaturated`).

### Induction

The sums over partitions, the powers of two and the shift are defined by recursion,
and the library's induction theorems take an operator as a parameter. The proofs
use instead that a set of natural numbers has a least element (`WFMin`,
`NatLessThanWellFounded`): a set that holds 0 and with every number its successor
holds all of them (`Induct`), and the same for the subsets of a finite set
(`SubsetInduct`). A recursive function is defined by `CHOOSE`; that it satisfies
its equation is shown through its finite approximations, which exist, are unique,
and agree (`ApproxExists`, `OrbitForever`, `FoldExists`). The lemmas stand in each
module that needs them.

### Only model-checked

Liveness (`EventuallyMirrored`, `EventuallyEndToEnd`, `ProgressIsPersisted`,
`LagSettles`, `Terminates`): reasoning
with fairness and `ENABLED` is out of the prover's reach. Every invariant and every
action property of a passing run is a theorem.

## Not modelled

- Broker loss, compaction, and retention of the pipeline's own topics (retention of
  the dead-letter topic is in `DlqTool`).
- The content of a row image beyond field names: a column that disappears is not
  `$unset`, and numbers other than the LSN are rounded like it.
- Metrics other than the skip counter, the staleness, lag and age gauges and the
  failure count; `classify` only labels a counter.
- Tracing: spans and headers, which no delivery decision reads.
- HTTP servers, configuration parsing and the `main` of the load generator, which
  start the rest and hold no state. In `UpdateRandomUser` the fallback to the lowest
  id never runs on an empty sample, against its comment (`db.go:62-65`): an empty
  sample returns early. The model has what the code does: no row changes.
- Connectors, Helm charts and chaos scripts: configuration, used as evidence for the
  environment.
- Who writes the DLQ: Kafka Connect, not the code of either service. `DlqTool` takes
  its records as given.

## What could come next

1. the composition under in-process errors and with several sinks: what a sink loses
   in the pipeline is what `NoSilentLoss` excepts, and what a transformer skips is what
   `NoSilentSkip` excepts;
2. a mirror that includes deleted rows: it needs deletes that leave their LSN behind,
   or batches with one event of a row, and a single writer.
