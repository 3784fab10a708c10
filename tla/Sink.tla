-------------------------------- MODULE Sink --------------------------------
(***************************************************************************)
(* The sink service: several replicas of one consumer group move records   *)
(* from the transformed.* topics into Mongo.                               *)
(*                                                                         *)
(*   consumer.RunOnce   Poll -> Decode -> ApplyBatch -> MarkCommit ->      *)
(*                      CommitMarked, and every early return between them  *)
(*   main.runLoop       what happens to the process after an error         *)
(*   kafka.FranzConsumer the consumer-group client: a position per         *)
(*                      assigned partition that every poll advances and    *)
(*                      that only a new assignment resets                  *)
(*   writer.MongoWriter one unordered BulkWrite per collection             *)
(*                                                                         *)
(* Offsets are 1-based: committed[p] = n means that the first n records    *)
(* of p are committed.  A record in hand is a pair <<p, i>>.               *)
(***************************************************************************)
EXTENDS LsnGate, Sequences, FiniteSets

CONSTANTS
  Member,       \* sink replicas (processes)
  Partition,    \* topic-partitions of transformed.*
  Key,          \* document ids, "<table>:<pk>"
  PartitionOf,  \* the partition a key is produced to
  TableOf,      \* the table (collection) of a key
  NoMember,     \* "not assigned"
  NoTable,      \* "no BulkWrite running"
  SourceOps,    \* the row changes the source database makes
  Faults,       \* what may go wrong, see the actions below
  MaxPoll,      \* bound: records per partition in one poll
  MaxLsn,       \* bound: row changes made by the source
  MaxFaults     \* bound: faults in one behaviour

FaultKind ==
  {"crash", "rebalance", "commit", "fetch", "apply", "malformed",
   "replay", "late"}

ASSUME SinkAssumption ==
  /\ PartitionOf \in [Key -> Partition]
  /\ NoMember \notin Member
  /\ NoTable \notin {TableOf[k] : k \in Key}
  /\ SourceOps \subseteq {"c", "u", "d"}
  /\ Faults \subseteq FaultKind
  /\ MaxPoll \in Nat \ {0}
  /\ MaxLsn \in Nat
  /\ MaxFaults \in Nat

VARIABLES
  log,        \* partition -> sequence of records
  rows,       \* key -> LSN of the row image in Postgres, or Absent
  lastLsn,    \* the last LSN the source handed out
  docs,       \* key -> state of the Mongo document
  late,       \* writes still running in Mongo although their client gave up
  committed,  \* partition -> committed offset of the group
  owner,      \* partition -> member it is assigned to
  pc,         \* member -> where RunOnce is
  pos,        \* member -> partition -> fetch position of the session
  marks,      \* member -> partition -> marked offset of the session
  batch,      \* member -> records of the current RunOnce
  ends,       \* member -> partition -> last offset of the batch, 0 if none
  table,      \* member -> collection whose BulkWrite is running
  pending,    \* member -> records whose write has not run yet
  inserting,  \* member -> upserts that matched nothing and are about to insert
  faultCount,
  executed,   \* history: records whose write ran, or that need none
  abandoned,  \* history: records polled and given up without a commit
  swallowed   \* history: records refused with E11000 by an older document

sourceVars == <<log, rows, lastLsn>>
mongoVars  == <<docs, late>>
groupVars  == <<committed, owner>>
memberVars == <<pc, pos, marks, batch, ends, table, pending, inserting>>
historyVars == <<executed, abandoned, swallowed>>
vars == <<sourceVars, mongoVars, groupVars, memberVars, faultCount, historyVars>>

-----------------------------------------------------------------------------
(* Records.                                                                *)

\* A record of transformed.*: a CDC event, the tombstone Debezium sends after
\* a delete, or a value the decoder cannot read.
Record == [op : CDCOp \cup {"tombstone", "malformed"}, after : BOOLEAN,
           key : Key, lsn : Nat]

RecordAt(x) == log[x[1]][x[2]]
KeyAt(x)    == RecordAt(x).key
TableAt(x)  == TableOf[KeyAt(x)]
EventsOf(S) == {x \in S : RecordAt(x).op \in CDCOp}

Offsets(p) == 1 .. Len(log[p])

\* No delete of k was ever produced.
NeverDeleted(k) ==
  \A i \in Offsets(PartitionOf[k]) :
    ~(log[PartitionOf[k]][i].op = "d" /\ log[PartitionOf[k]][i].key = k)

\* x carries a row image (c, u, r).
IsUpsert(x) == RecordAt(x).op \in CDCOp \ {"d"} /\ RecordAt(x).after

-----------------------------------------------------------------------------
Init ==
  /\ log = [p \in Partition |-> <<>>]
  /\ rows = [k \in Key |-> Absent]
  /\ lastLsn = 0
  /\ docs = [k \in Key |-> Absent]
  /\ late = {}
  /\ committed = [p \in Partition |-> 0]
  /\ owner = [p \in Partition |-> NoMember]
  /\ pc = [m \in Member |-> "poll"]
  /\ pos = [m \in Member |-> [p \in Partition |-> 0]]
  /\ marks = [m \in Member |-> [p \in Partition |-> 0]]
  /\ batch = [m \in Member |-> {}]
  /\ ends = [m \in Member |-> [p \in Partition |-> 0]]
  /\ table = [m \in Member |-> NoTable]
  /\ pending = [m \in Member |-> {}]
  /\ inserting = [m \in Member |-> {}]
  /\ faultCount = 0
  /\ executed = {}
  /\ abandoned = {}
  /\ swallowed = {}

\* One more fault of kind f.
Fault(f) ==
  /\ f \in Faults
  /\ faultCount < MaxFaults
  /\ faultCount' = faultCount + 1

NoFault == UNCHANGED faultCount

-----------------------------------------------------------------------------
(* The topics: Postgres, Debezium and the transformer as the sink sees     *)
(* them.                                                                   *)

Event(o, k, n) == [op |-> o, after |-> o # "d", key |-> k, lsn |-> n]

Tombstone(k) == [op |-> "tombstone", after |-> FALSE, key |-> k, lsn |-> 0]

AppendAll(p, s) == log' = [log EXCEPT ![p] = @ \o s]

\* A row change.  A delete is followed by its tombstone (tombstones.on.delete).
Change(k, o) ==
  /\ o \in SourceOps
  /\ lastLsn < MaxLsn
  /\ (o = "c") <=> (rows[k] = Absent)
  /\ lastLsn' = lastLsn + 1
  /\ rows' = [rows EXCEPT ![k] = IF o = "d" THEN Absent ELSE lastLsn + 1]
  /\ AppendAll(PartitionOf[k],
               IF o = "d" THEN <<Event(o, k, lastLsn + 1), Tombstone(k)>>
                          ELSE <<Event(o, k, lastLsn + 1)>>)
  /\ NoFault
  /\ UNCHANGED <<mongoVars, groupVars, memberVars, historyVars>>

\* A record the sink cannot apply: Decode fails on it, or it is an event
\* without an after-image, on which BuildWriteOp fails.
ProduceUnusable(k) ==
  /\ Fault("malformed")
  /\ \E o \in {"malformed", "u"} :
       AppendAll(PartitionOf[k],
                 <<[op |-> o, after |-> FALSE, key |-> k, lsn |-> 0]>>)
  /\ UNCHANGED <<rows, lastLsn, mongoVars, groupVars, memberVars, historyVars>>

\* The transformer restarts from its last commit and produces the end of a
\* partition again.
Reproduce(p) ==
  /\ Fault("replay")
  /\ \E i \in Offsets(p) : AppendAll(p, SubSeq(log[p], i, Len(log[p])))
  /\ UNCHANGED <<rows, lastLsn, mongoVars, groupVars, memberVars, historyVars>>

-----------------------------------------------------------------------------
(* The consumer group.                                                     *)

\* Mutant: the committed offset is taken for the last one processed.
StartOffByOne(p) == committed[p] - 1

\* Where a session starts to read.
StartOffset(p) == committed[p]

\* p is assigned to m, which starts from the committed offset with nothing
\* marked.  Taking p from a live member is a rebalance: that member keeps
\* working on the records it already has.
Assign(p, m) ==
  /\ pc[m] # "down"
  /\ owner[p] # m
  /\ IF owner[p] = NoMember THEN NoFault ELSE Fault("rebalance")
  /\ owner' = [owner EXCEPT ![p] = m]
  /\ pos' = [pos EXCEPT ![m][p] = StartOffset(p)]
  /\ marks' = [marks EXCEPT ![m][p] = StartOffset(p)]
  /\ UNCHANGED <<sourceVars, mongoVars, committed, pc, batch, ends, table,
                 pending, inserting, historyVars>>

-----------------------------------------------------------------------------
(* RunOnce.                                                                *)

\* The records of m's partitions that a fetch of n[p] records per partition
\* returns.
Fetchable(m, n) ==
  \A p \in Partition :
    n[p] # 0 => owner[p] = m /\ pos[m][p] + n[p] <= Len(log[p])

Fetched(m, n) ==
  UNION {{<<p, i>> : i \in pos[m][p] + 1 .. pos[m][p] + n[p]} : p \in Partition}

AdvancePos(m, n) ==
  pos' = [pos EXCEPT ![m] = [p \in Partition |-> pos[m][p] + n[p]]]

\* PollFetches returns records; the position of the client moves past them.
Poll(m) ==
  /\ pc[m] = "poll"
  /\ \E n \in [Partition -> 0 .. MaxPoll] :
       /\ Fetchable(m, n)
       /\ Fetched(m, n) # {}
       /\ AdvancePos(m, n)
       /\ batch' = [batch EXCEPT ![m] = Fetched(m, n)]
       /\ ends' = [ends EXCEPT ![m] = [p \in Partition |->
                     IF n[p] = 0 THEN 0 ELSE pos[m][p] + n[p]]]
  /\ pc' = [pc EXCEPT ![m] = "decode"]
  /\ NoFault
  /\ UNCHANGED <<sourceVars, mongoVars, groupVars, marks, table, pending,
                 inserting, historyVars>>

\* One partition of the fetch reports an error: Poll returns the error and
\* drops the records of every other partition of that fetch.
PollError(m) ==
  /\ pc[m] = "poll"
  /\ Fault("fetch")
  /\ \E n \in [Partition -> 0 .. MaxPoll] :
       /\ Fetchable(m, n)
       /\ Fetched(m, n) # {}
       /\ AdvancePos(m, n)
       /\ abandoned' = abandoned \cup Fetched(m, n)
  /\ UNCHANGED <<sourceVars, mongoVars, groupVars, pc, marks, batch, ends,
                 table, pending, inserting, executed, swallowed>>

\* RunOnce is over; what it had in hand is gone.
Forget(m) ==
  /\ batch' = [batch EXCEPT ![m] = {}]
  /\ ends' = [ends EXCEPT ![m] = [p \in Partition |-> 0]]
  /\ pending' = [pending EXCEPT ![m] = {}]
  /\ inserting' = [inserting EXCEPT ![m] = {}]
  /\ table' = [table EXCEPT ![m] = NoTable]

\* RunOnce returns an error that runLoop retries: the batch is gone, and the
\* next iteration polls from wherever the position is by now.
GiveUp(m) ==
  /\ Forget(m)
  /\ pc' = [pc EXCEPT ![m] = "poll"]
  /\ abandoned' = abandoned \cup
       {x \in batch[m] : owner[x[1]] = m /\ x[2] <= pos[m][x[1]]}

\* Mutant: the offsets are committed before the batch is applied.
CommitAfterDecode(m) == "mark"

\* Mutant: a batch of tombstones waits for a BulkWrite that never comes.
ApplyAfterDecode(m) == "apply"

\* ApplyBatch is called only if there are events.
AfterDecode(m) == IF EventsOf(batch[m]) = {} THEN "mark" ELSE "apply"

\* Every record decodes (or is a tombstone) and every event becomes a WriteOp.
Decode(m) ==
  /\ pc[m] = "decode"
  /\ \A x \in batch[m] : RecordAt(x).op # "malformed"
  /\ \A x \in EventsOf(batch[m]) : ~BuildFails(RecordAt(x))
  /\ pending' = [pending EXCEPT ![m] = EventsOf(batch[m])]
  /\ executed' = executed \cup (batch[m] \ EventsOf(batch[m]))
  /\ pc' = [pc EXCEPT ![m] = AfterDecode(m)]
  /\ NoFault
  /\ UNCHANGED <<sourceVars, mongoVars, groupVars, pos, marks, batch, ends,
                 table, inserting, abandoned, swallowed>>

\* A record does not decode, or BuildWriteOp fails: nothing is written.
DecodeError(m) ==
  /\ pc[m] = "decode"
  /\ \/ \E x \in batch[m] : RecordAt(x).op = "malformed"
     \/ \E x \in EventsOf(batch[m]) : BuildFails(RecordAt(x))
  /\ GiveUp(m)
  /\ NoFault
  /\ UNCHANGED <<sourceVars, mongoVars, groupVars, pos, marks, executed,
                 swallowed>>

\* bulkWriteTable for the next collection of byColl, in map order.
StartTable(m) ==
  /\ pc[m] = "apply"
  /\ table[m] = NoTable
  /\ \E x \in pending[m] : table' = [table EXCEPT ![m] = TableAt(x)]
  /\ NoFault
  /\ UNCHANGED <<sourceVars, mongoVars, groupVars, pc, pos, marks, batch,
                 ends, pending, inserting, historyVars>>

\* x may run next in the BulkWrite of m.  ordered=false: any model may; Mongo
\* works on one model of a command at a time.
Runnable(m, x) ==
  /\ pc[m] = "apply"
  /\ x \in pending[m]
  /\ TableAt(x) = table[m]
  /\ inserting[m] = {}

\* The upsert of x would match no document.
FindsNothing(x) == RecordAt(x).op # "d" /\ docs[KeyAt(x)] = Absent

\* A delete, or an upsert that finds its document.
ExecuteWrite(m, x) ==
  /\ Runnable(m, x)
  /\ ~FindsNothing(x)
  /\ docs' = [docs EXCEPT ![KeyAt(x)] = Effect(RecordAt(x), @)]
  /\ pending' = [pending EXCEPT ![m] = @ \ {x}]
  /\ executed' = executed \cup {x}
  /\ NoFault
  /\ UNCHANGED <<sourceVars, late, groupVars, pc, pos, marks, batch, ends,
                 table, inserting, abandoned, swallowed>>

\* An upsert of a missing document is a find followed by an insert.  This is
\* the find; another client may insert the document before m does.
FindNothing(m, x) ==
  /\ Runnable(m, x)
  /\ FindsNothing(x)
  /\ pending' = [pending EXCEPT ![m] = @ \ {x}]
  /\ inserting' = [inserting EXCEPT ![m] = @ \cup {x}]
  /\ NoFault
  /\ UNCHANGED <<sourceVars, mongoVars, groupVars, pc, pos, marks, batch,
                 ends, table, historyVars>>

\* The insert of that upsert: it inserts, or gets E11000.
InsertFound(m, x) ==
  /\ pc[m] = "apply"
  /\ x \in inserting[m]
  /\ docs' = [docs EXCEPT ![KeyAt(x)] = IF @ = Absent THEN RecordAt(x).lsn ELSE @]
  /\ swallowed' = IF docs[KeyAt(x)] # Absent /\ docs[KeyAt(x)] < RecordAt(x).lsn
                  THEN swallowed \cup {x} ELSE swallowed
  /\ inserting' = [inserting EXCEPT ![m] = @ \ {x}]
  /\ executed' = executed \cup {x}
  /\ NoFault
  /\ UNCHANGED <<sourceVars, late, groupVars, pc, pos, marks, batch, ends,
                 table, pending, abandoned>>

\* ApplyBatch goes on to the next collection.
AfterTable(m) ==
  IF pending[m] \cup inserting[m] = {} THEN "mark" ELSE "apply"

\* The BulkWrite returns no error, or only E11000 errors, which
\* bulkWriteTable takes for success.  After the last collection ApplyBatch
\* returns nil.
FinishTable(m) ==
  /\ pc[m] = "apply"
  /\ table[m] # NoTable
  /\ \A x \in pending[m] \cup inserting[m] : TableAt(x) # table[m]
  /\ table' = [table EXCEPT ![m] = NoTable]
  /\ pc' = [pc EXCEPT ![m] = AfterTable(m)]
  /\ NoFault
  /\ UNCHANGED <<sourceVars, mongoVars, groupVars, pos, marks, batch, ends,
                 pending, inserting, historyVars>>

\* Writes m has sent to Mongo that a disappearing client leaves behind.
InFlight(m) ==
  {x \in pending[m] \cup inserting[m] : TableAt(x) = table[m]}

LeaveBehind(m) ==
  \/ late' = late
  \/ "late" \in Faults /\ late' = late \cup InFlight(m)

\* A BulkWrite fails with anything but E11000: ApplyBatch returns the error,
\* whatever ran stays, the remaining collections are not written.
ApplyError(m) ==
  /\ pc[m] = "apply"
  /\ table[m] # NoTable
  /\ Fault("apply")
  /\ LeaveBehind(m)
  /\ GiveUp(m)
  /\ UNCHANGED <<sourceVars, docs, groupVars, pos, marks, executed, swallowed>>

\* Mongo finishes a write whose client is gone.  An upsert that looked for its
\* document before another client inserted it gets an E11000 nobody hears.
LateWrite(x) ==
  /\ x \in late
  /\ \/ docs' = [docs EXCEPT ![KeyAt(x)] = Effect(RecordAt(x), @)]
     \/ RecordAt(x).op # "d" /\ docs[KeyAt(x)] # Absent /\ UNCHANGED docs
  /\ late' = late \ {x}
  /\ NoFault
  /\ UNCHANGED <<sourceVars, groupVars, memberVars, historyVars>>

MaxOf(a, b) == IF a < b THEN b ELSE a

\* MarkCommit of every record of the batch, of partitions m has lost too; the
\* client keeps the highest offset per partition.
MarkCommit(m) ==
  /\ pc[m] = "mark"
  /\ marks' = [marks EXCEPT ![m] = [p \in Partition |-> MaxOf(marks[m][p], ends[m][p])]]
  /\ pc' = [pc EXCEPT ![m] = "commit"]
  /\ NoFault
  /\ UNCHANGED <<sourceVars, mongoVars, groupVars, pos, batch, ends, table,
                 pending, inserting, historyVars>>

(***************************************************************************)
(* The broker fences a commit by the generation of the member, not by the  *)
(* assignment: it takes whatever offsets a current member sends, higher or *)
(* lower than the stored ones.  A member sends the marks of the batch it   *)
(* holds; the mark of a partition it has lost may be gone from the client  *)
(* (a revoke clears it) or go out all the same, and so may one left from a *)
(* failed commit.                                                          *)
(***************************************************************************)
StoreMarks(m) ==
  \E S \in SUBSET {p \in Partition : marks[m][p] # 0} :
    /\ \A p \in Partition : owner[p] = m /\ ends[m][p] # 0 => p \in S
    /\ committed' = [p \in Partition |-> IF p \in S THEN marks[m][p] ELSE committed[p]]

\* CommitMarked succeeds and RunOnce returns nil.
CommitMarked(m) ==
  /\ pc[m] = "commit"
  /\ StoreMarks(m)
  /\ Forget(m)
  /\ pc' = [pc EXCEPT ![m] = "poll"]
  /\ NoFault
  /\ UNCHANGED <<sourceVars, mongoVars, owner, pos, marks, historyVars>>

\* CommitMarked returns an error, before or after the broker took the
\* offsets; the marks stay for the next commit.
CommitError(m) ==
  /\ pc[m] = "commit"
  /\ Fault("commit")
  /\ StoreMarks(m) \/ UNCHANGED committed
  /\ Forget(m)
  /\ pc' = [pc EXCEPT ![m] = "poll"]
  /\ UNCHANGED <<sourceVars, mongoVars, owner, pos, marks, historyVars>>

\* The process ends: a kill, a shutdown signal, or runLoop returning because
\* RunOnce failed with context.Canceled or DeadlineExceeded.  The group takes
\* its partitions away; nothing is committed.
Crash(m) ==
  /\ pc[m] # "down"
  /\ Fault("crash")
  /\ LeaveBehind(m)
  /\ Forget(m)
  /\ pc' = [pc EXCEPT ![m] = "down"]
  /\ owner' = [p \in Partition |-> IF owner[p] = m THEN NoMember ELSE owner[p]]
  /\ marks' = [marks EXCEPT ![m] = [p \in Partition |-> 0]]
  /\ UNCHANGED <<sourceVars, docs, committed, pos, historyVars>>

\* The container is started again.
Restart(m) ==
  /\ pc[m] = "down"
  /\ pc' = [pc EXCEPT ![m] = "poll"]
  /\ NoFault
  /\ UNCHANGED <<sourceVars, mongoVars, groupVars, pos, marks, batch, ends,
                 table, pending, inserting, historyVars>>

-----------------------------------------------------------------------------
Source ==
  \/ \E k \in Key : ProduceUnusable(k) \/ \E o \in SourceOps : Change(k, o)
  \/ \E p \in Partition : Reproduce(p)

\* The steps a member takes by itself when nothing fails.
RunOnce(m) ==
  \/ Poll(m) \/ Decode(m) \/ DecodeError(m) \/ StartTable(m) \/ FinishTable(m)
  \/ \E x \in pending[m] : ExecuteWrite(m, x) \/ FindNothing(m, x)
  \/ \E x \in inserting[m] : InsertFound(m, x)
  \/ MarkCommit(m) \/ CommitMarked(m)

Failure(m) == PollError(m) \/ ApplyError(m) \/ CommitError(m) \/ Crash(m)

Next ==
  \/ Source
  \/ \E x \in late : LateWrite(x)
  \/ \E m \in Member :
       \/ RunOnce(m) \/ Failure(m) \/ Restart(m)
       \/ \E p \in Partition : Assign(p, m)

Spec == Init /\ [][Next]_vars

(***************************************************************************)
(* Weak fairness: runLoop calls RunOnce for as long as the process lives,  *)
(* the container runtime restarts it (restart: unless-stopped), the broker *)
(* assigns every unassigned partition to a live member, and Mongo finishes *)
(* the commands it has received.  Nothing obliges the source to write or a *)
(* fault to happen.                                                        *)
(***************************************************************************)
Fairness ==
  /\ \A m \in Member : WF_vars(RunOnce(m)) /\ WF_vars(Restart(m))
  /\ \A p \in Partition :
       WF_vars(owner[p] = NoMember /\ \E m \in Member : Assign(p, m))
  /\ WF_vars(\E x \in late : LateWrite(x))

FairSpec == Spec /\ Fairness

-----------------------------------------------------------------------------
(* Correctness.                                                            *)

PCs == {"poll", "decode", "apply", "mark", "commit", "down"}

RecordIds == SUBSET (Partition \X (Nat \ {0}))

\* Every variable has its type, and offsets in hand exist in the log.
TypeOK ==
  /\ log \in [Partition -> Seq(Record)]
  /\ rows \in [Key -> Lsn \cup {Absent}]
  /\ lastLsn \in Nat
  /\ docs \in [Key -> Nat \cup {Absent}]
  /\ late \in RecordIds
  /\ committed \in [Partition -> Nat]
  /\ owner \in [Partition -> Member \cup {NoMember}]
  /\ pc \in [Member -> PCs]
  /\ pos \in [Member -> [Partition -> Nat]]
  /\ marks \in [Member -> [Partition -> Nat]]
  /\ batch \in [Member -> RecordIds]
  /\ ends \in [Member -> [Partition -> Nat]]
  /\ table \in [Member -> {TableOf[k] : k \in Key} \cup {NoTable}]
  /\ pending \in [Member -> RecordIds]
  /\ inserting \in [Member -> RecordIds]
  /\ faultCount \in Nat
  /\ executed \in RecordIds
  /\ abandoned \in RecordIds
  /\ swallowed \in RecordIds

\* Mongo holds the image x carries, or a newer one.
Reflected(x) == docs[KeyAt(x)] >= RecordAt(x).lsn

\* The committed upserts of rows that are never deleted.
CommittedUpserts ==
  {x \in UNION {{<<p, i>> : i \in 1 .. committed[p]} : p \in Partition} :
     IsUpsert(x) /\ NeverDeleted(KeyAt(x))}

\* At-least-once delivery, without exception: the offset of an upsert is
\* committed only when Mongo holds its image or a newer one.  This is what
\* "commits every offset iff the batch succeeded" (RunOnce) is for.  It holds
\* while no error makes RunOnce give a batch up and nobody else writes to
\* Mongo: a second writer, be it the old owner of a partition or the orphaned
\* BulkWrite of a killed process, can make an upsert run into E11000.
NoLoss == \A x \in CommittedUpserts : Reflected(x)

\* The same with the two ways the code loses an event named: the offset of
\* an upsert that Mongo does not hold is committed only if RunOnce gave up
\* the record's batch and the client polled on (abandoned), or if
\* allDuplicateKey took an E11000 for a stale replay although the stored
\* document was older (swallowed).
NoSilentLoss ==
  \A x \in CommittedUpserts : Reflected(x) \/ x \in abandoned \cup swallowed

\* Every document is an image the source produced for that very row.
ImagesAreReal ==
  \A k \in Key : docs[k] # Absent =>
    \E i \in Offsets(PartitionOf[k]) :
      /\ log[PartitionOf[k]][i].key = k
      /\ log[PartitionOf[k]][i].lsn = docs[k]
      /\ IsUpsert(<<PartitionOf[k], i>>)

Idle(m) == pc[m] \in {"poll", "down"}

Quiescent ==
  /\ \A p \in Partition : committed[p] = Len(log[p])
  /\ \A m \in Member : Idle(m)
  /\ late = {}

\* When everything is committed and nothing runs, Mongo is the source table.
QuiescentMirror == Quiescent => docs = rows

\* The rows one of whose events was given up or taken for a stale replay.
LostRows == {KeyAt(x) : x \in abandoned \cup swallowed}

\* The same for the rows that were never deleted and of which no event was
\* lost in one of the two ways: replays, rebalances, late writes, offsets set
\* back by an old owner and the order inside a bulk leave no trace on them.
UndeletedMirror ==
  Quiescent => \A k \in Key : NeverDeleted(k) /\ k \notin LostRows => docs[k] = rows[k]

\* The LSN gate: a document that is not deleted only moves to newer images,
\* whichever member, replay or late write touches it.
DocumentNeverGoesBack ==
  [][\A k \in Key : docs[k] # Absent /\ docs'[k] # Absent => docs[k] <= docs'[k]]_docs

\* Once the source falls silent, every row that was never deleted reaches
\* Mongo and stays there, after every crash, failed commit and replay.
EventuallyMirrored == <>[](\A k \in Key : NeverDeleted(k) => docs[k] = rows[k])
=============================================================================
