--------------------------- MODULE PipelineProofs ---------------------------
(***************************************************************************)
(* Proofs about the whole pipeline, for every set of rows, partitions and  *)
(* replicas and every bound.  They put together what SinkProofs and        *)
(* TransformerProofs prove of the two services, each for any records that  *)
(* arrive in its input topic.                                              *)
(***************************************************************************)
EXTENDS Pipeline, SequenceTheorems, TLAPS

SP == INSTANCE SinkProofs WITH
  Member <- Sinks, Faults <- SinkFaults, SourceOps <- {}

TP == INSTANCE TransformerProofs WITH
  Member <- Transformers, Faults <- TransformerFaults, MaxRecords <- 2 * MaxLsn,
  log <- [p \in Partition |->
            [i \in 1 .. Len(cdc[p]) |-> [key |-> cdc[p][i].key, poison |-> FALSE]]],
  committed <- tCommitted, owner <- tOwner, pc <- tPc, pos <- tPos, marks <- tMarks,
  todo <- tTodo, cur <- tCur, ends <- tEnds, faultCount <- tFaultCount,
  abandoned <- tAbandoned

-----------------------------------------------------------------------------
(* The inductive invariant.                                                *)

\* A record Debezium writes.
CdcRecord ==
  {r \in [op : {"c", "u", "d", "tombstone"}, after : BOOLEAN, key : Key, lsn : Nat] :
     r.op \in {"c", "u"} => r.after}

\* r carries an image of row k.
Image(r, k) == r.key = k /\ r.op \in {"c", "u"}

\* A single sink writes to Mongo.  With two of them an upsert may run into the
\* insert of another sink and be taken for a stale replay.
OneSink == \A s, u \in Sinks : s = u

\* The sinks keep the invariants of SinkProofs that do not speak of the
\* source table, and no error makes them give a record up.
SinkPart == SP!SinkInv /\ SP!CleanInv /\ SP!SentInv /\ SP!ImagesAreReal

\* The transformers keep theirs, and skip nothing.
TransformerPart == TP!TransformerInv /\ tAbandoned = {}

\* Every record of cdc.* is in the partition of its row, and an image carries
\* an LSN that Postgres has handed out.
CdcInv ==
  /\ cdc \in [Partition -> Seq(CdcRecord)]
  /\ lastLsn \in Nat /\ rows \in [Key -> Lsn \cup {Absent}]
  /\ \A p \in Partition : \A i \in 1 .. Len(cdc[p]) :
       /\ PartitionOf[cdc[p][i].key] = p
       /\ cdc[p][i].op \in {"c", "u"} => cdc[p][i].lsn \in 1 .. lastLsn

\* The image of a row is in cdc.*, and is the newest one if the row was never
\* deleted.
RowsInv ==
  \A k \in Key :
    /\ rows[k] # Absent =>
         \E i \in 1 .. Len(cdc[PartitionOf[k]]) :
           Image(cdc[PartitionOf[k]][i], k) /\ cdc[PartitionOf[k]][i].lsn = rows[k]
    /\ k \notin Deleted =>
         \A i \in 1 .. Len(cdc[PartitionOf[k]]) :
           Image(cdc[PartitionOf[k]][i], k) => cdc[PartitionOf[k]][i].lsn <= rows[k]

\* The two topics belong together: transformed.* holds nothing that is not in
\* cdc.*, and it holds what the transformers have produced.
LinkInv ==
  /\ \A p \in Partition : \A i \in 1 .. Len(log[p]) :
       \E j \in 1 .. Len(cdc[p]) : log[p][i] = cdc[p][j]
  /\ \A k \in Key : \A j \in DOMAIN out[k] :
       \E i \in 1 .. Len(log[PartitionOf[k]]) :
         log[PartitionOf[k]][i] = cdc[PartitionOf[k]][out[k][j]]

PipelineInv == SinkPart /\ TransformerPart /\ CdcInv /\ RowsInv /\ LinkInv

-----------------------------------------------------------------------------
(* The steps of the services, as the proofs about them know them.          *)

\* A sink works in the pipeline as it does alone.
LEMMA SinkWorks ==
  ASSUME NEW s \in Sinks,
         \/ RunSink(s) \/ SinkFails(s) \/ RestartSink(s)
         \/ \E p \in Partition : AssignSink(p, s)
  PROVE  SP!Internal
<1> USE DEF Sink!NoFault, Sink!Fault, Sink!sourceVars, Sink!mongoVars, Sink!groupVars,
        Sink!memberVars, Sink!historyVars,
        SP!NoFault, SP!Fault, SP!sourceVars, SP!mongoVars, SP!groupVars,
        SP!memberVars, SP!historyVars
<1> USE DEF Sink!Forget, SP!Forget, Sink!GiveUp, SP!GiveUp, Sink!StoreMarks,
        SP!StoreMarks, Sink!Runnable, SP!Runnable, Sink!FindsNothing, SP!FindsNothing, Sink!LeaveBehind, SP!LeaveBehind, Sink!InFlight, SP!InFlight,
        Sink!RecordAt, SP!RecordAt, Sink!KeyAt, SP!KeyAt, Sink!TableAt, SP!TableAt,
        Sink!EventsOf, SP!EventsOf, Sink!CDCOp, SP!CDCOp, Sink!BuildFails, SP!BuildFails,
        Sink!Absent, SP!Absent
<1>1. Sink!Poll(s) => SP!Poll(s)
  BY DEF Sink!Poll, Sink!Fetchable, Sink!Fetched, Sink!AdvancePos,
     SP!Poll, SP!Fetchable, SP!Fetched, SP!AdvancePos
<1>2. Sink!Decode(s) => SP!Decode(s)
  BY DEF Sink!Decode, Sink!AfterDecode, SP!Decode, SP!AfterDecode
<1>3. Sink!DecodeError(s) => SP!DecodeError(s)
  BY DEF Sink!DecodeError, SP!DecodeError
<1>4. Sink!StartTable(s) => SP!StartTable(s)
  BY DEF Sink!StartTable, SP!StartTable
<1>5. Sink!FinishTable(s) => SP!FinishTable(s)
  BY DEF Sink!FinishTable, SP!FinishTable, Sink!AfterTable, SP!AfterTable
<1>6. ASSUME NEW x, Sink!ExecuteWrite(s, x) PROVE SP!ExecuteWrite(s, x)
  BY <1>6 DEF Sink!ExecuteWrite, SP!ExecuteWrite, Sink!Effect, SP!Effect,
     Sink!Outcome, SP!Outcome, Sink!DeleteMatches, SP!DeleteMatches,
     Sink!UpsertMatches, SP!UpsertMatches, Sink!Lsn, SP!Lsn, Sink!NoLsn, SP!NoLsn
<1>7. ASSUME NEW x, Sink!InsertFound(s, x) PROVE SP!InsertFound(s, x)
  BY <1>7 DEF Sink!InsertFound, SP!InsertFound
<1>8. ASSUME NEW x, Sink!FindNothing(s, x) PROVE SP!FindNothing(s, x)
  BY <1>8 DEF Sink!FindNothing, SP!FindNothing
<1>9. Sink!MarkCommit(s) => SP!MarkCommit(s)
  BY DEF Sink!MarkCommit, SP!MarkCommit, Sink!MaxOf, SP!MaxOf
<1>10. Sink!CommitMarked(s) => SP!CommitMarked(s)
  BY DEF Sink!CommitMarked, SP!CommitMarked
<1>11. Sink!CommitError(s) => SP!CommitError(s)
  BY DEF Sink!CommitError, SP!CommitError
<1>12. Sink!Crash(s) => SP!Crash(s)
  BY DEF Sink!Crash, SP!Crash
<1>13. Sink!Restart(s) => SP!Restart(s)
  BY DEF Sink!Restart, SP!Restart
<1>14. ASSUME NEW p \in Partition, Sink!Assign(p, s) PROVE SP!Assign(p, s)
  BY <1>14 DEF Sink!Assign, SP!Assign, Sink!StartOffset, SP!StartOffset
<1> QED
  BY <1>1, <1>2, <1>3, <1>4, <1>5, <1>6, <1>7, <1>8, <1>9, <1>10, <1>11, <1>12, <1>13,
     <1>14 DEF RunSink, SinkFails, RestartSink, AssignSink, Sink!RunOnce, SP!Internal,
               SP!RunOnce, SP!Failure

\* A sink touches nothing but its own state.
LEMMA SinkTouches ==
  ASSUME NEW s \in Sinks,
         \/ RunSink(s) \/ SinkFails(s) \/ RestartSink(s)
         \/ \E p \in Partition : AssignSink(p, s)
  PROVE  UNCHANGED <<cdc, transformerVars, log, rows, lastLsn>>
<1>1. UNCHANGED <<cdc, transformerVars>>
  BY DEF RunSink, SinkFails, RestartSink, AssignSink, QuietSink, loadVars
<1>2. UNCHANGED <<log, rows, lastLsn>>
  BY SinkWorks, SP!OthersKeepLog, PipelineAssumption DEF SP!FaultKind
<1> QED  BY <1>1, <1>2

\* A transformer works in the pipeline as it does alone, and skips nothing.
LEMMA TransformerWorks ==
  ASSUME NEW t \in Transformers,
         \/ Transform!Poll(t) \/ Transform!Commit(t) \/ Transform!CommitError(t)
         \/ Transform!Crash(t) \/ Transform!Restart(t)
         \/ \E p \in Partition : Transform!Assign(p, t)
  PROVE  TP!Step /\ UNCHANGED <<out, tAbandoned>>
<1> USE DEF Transform!NoFault, Transform!Fault, Transform!groupVars, Transform!memberVars,
        TP!NoFault, TP!Fault, TP!groupVars, TP!memberVars, Transform!Marked, TP!Marked,
        Transform!Stored, TP!Stored, Transform!MaxOf, TP!MaxOf
<1>1. Transform!Poll(t) => TP!Poll(t)
  BY DEF Transform!Poll, Transform!Fetchable, Transform!Fetched, Transform!AdvancePos,
     TP!Poll, TP!Fetchable, TP!Fetched, TP!AdvancePos
<1>2. Transform!Commit(t) => TP!Commit(t)
  BY DEF Transform!Commit, TP!Commit
<1>3. Transform!CommitError(t) => TP!CommitError(t)
  BY DEF Transform!CommitError, TP!CommitError
<1>4. Transform!Crash(t) => TP!Crash(t)
  BY DEF Transform!Crash, TP!Crash
<1>5. Transform!Restart(t) => TP!Restart(t)
  BY DEF Transform!Restart, TP!Restart
<1>6. ASSUME NEW p \in Partition, Transform!Assign(p, t) PROVE TP!Assign(p, t)
  BY <1>6 DEF Transform!Assign, TP!Assign, Transform!StartOffset, TP!StartOffset
<1>7. TP!Step
  BY <1>1, <1>2, <1>3, <1>4, <1>5, <1>6 DEF TP!Step, TP!RunOnce, TP!Failure
<1>8. UNCHANGED <<out, tAbandoned>>
  BY DEF Transform!Poll, Transform!Commit, Transform!CommitError, Transform!Crash,
     Transform!Restart, Transform!Assign
<1> QED  BY <1>7, <1>8

\* The same for the step that produces a record.
LEMMA ForwardWorks ==
  ASSUME NEW t \in Transformers, NEW x \in tTodo[t], Transform!Forward(t, x)
  PROVE  TP!Step /\ TP!Produce(x) /\ UNCHANGED tAbandoned
<1>1. TP!Forward(t, x)
  BY DEF Transform!NoFault, TP!NoFault, Transform!groupVars, TP!groupVars,
     Transform!Forward, TP!Forward, Transform!Visits, TP!Visits, Transform!RecordAt,
     TP!RecordAt, Transform!Produce, TP!Produce, Transform!Commits, TP!Commits
<1> QED  BY <1>1 DEF TP!Step, TP!RunOnce, TP!Forward

-----------------------------------------------------------------------------
(* What keeps each part of the invariant.                                  *)

\* Whatever the sinks do, and whatever arrives for them, keeps their part.
LEMMA SinkKeeps ==
  ASSUME OneSink, SinkPart, SP!Step,
         SP!Arrives => \A p \in Partition : \A i \in 1 .. Len(log'[p]) :
                         SP!Usable(log'[p][i])
  PROVE  SinkPart'
<1>1. SP!SinkInv'
  BY SP!InvStep, PipelineAssumption DEF SinkPart, SP!FaultKind
<1>2. SinkFaults \subseteq SP!CrashFaults
  BY PipelineAssumption DEF SP!CrashFaults
<1>3. SP!CleanInv'
  BY <1>2, SP!CleanStep, PipelineAssumption
     DEF SinkPart, SP!FaultKind, OneSink, SP!SoleWriter
<1>4. SP!SentInv' /\ SP!ImagesAreReal'
  BY SP!SentStep, SP!ImageStep, PipelineAssumption DEF SinkPart, SP!FaultKind
<1> QED  BY <1>1, <1>3, <1>4 DEF SinkPart

\* So does a step that is invisible to them.
LEMMA SinkKept ==
  ASSUME OneSink, SinkPart, UNCHANGED <<log, rows, lastLsn, sinkVars>>
  PROVE  SinkPart'
<1>1. UNCHANGED SP!vars
  BY DEF sinkVars, SP!vars, SP!sourceVars, SP!mongoVars, SP!groupVars, SP!memberVars,
     SP!historyVars
<1>2. SP!Step
  BY <1>1, SP!StutterArrives, PipelineAssumption DEF SinkPart, SP!FaultKind, SP!Step
<1>3. \A p \in Partition : \A i \in 1 .. Len(log'[p]) : SP!Usable(log'[p][i])
  BY DEF SinkPart, SP!CleanInv
<1> QED  BY <1>2, <1>3, SinkKeeps

\* A step of the transformers that skips nothing keeps their part.
LEMMA TransformerKeeps ==
  ASSUME TransformerPart, TP!Step, UNCHANGED tAbandoned
  PROVE  TransformerPart'
BY TP!InvStep, PipelineAssumption DEF TransformerPart, TP!FaultKind

\* So does a step that is invisible to them.
LEMMA TransformerKept ==
  ASSUME TransformerPart, UNCHANGED <<cdc, transformerVars>>
  PROVE  TransformerPart'
<1>1. UNCHANGED TP!vars
  BY DEF transformerVars, TP!vars, TP!groupVars, TP!memberVars
<1>2. TP!Step
  BY <1>1, TP!StutterArrives, PipelineAssumption DEF TransformerPart, TP!FaultKind, TP!Step
<1> QED  BY <1>2, TransformerKeeps DEF transformerVars

\* The source and its capture are as they were.
LEMMA LoadKept ==
  ASSUME CdcInv, RowsInv, UNCHANGED <<cdc, rows, lastLsn>>
  PROVE  CdcInv' /\ RowsInv'
BY DEF CdcInv, RowsInv, Deleted

-----------------------------------------------------------------------------
(* The source.                                                             *)

\* Every handler of the load generator that changes the table commits one row
\* change and captures it.
LEMMA WriteCaptures ==
  ASSUME Write
  PROVE  /\ \E k \in Key, o \in {"c", "u", "d"} : Source!Captured(k, o)
         /\ UNCHANGED <<transformerVars, log, sinkVars>>
BY DEF Write, Source!Next, Source!insert, Source!InsertUser, Source!updateRandom,
   Source!UpdateRandomUser, Source!deleteRandom, Source!DeleteRandomUser

\* What it captures is appended to the partition of the row.
LEMMA CapturedAppends ==
  ASSUME CdcInv, NEW k \in Key, NEW o \in {"c", "u", "d"}, Source!Captured(k, o)
  PROVE  LET q == PartitionOf[k]
             e == Source!Event(o, k, lastLsn + 1)
         IN /\ cdc' \in [Partition -> Seq(CdcRecord)]
            /\ \A p \in Partition :
                 /\ Len(cdc[p]) \in Nat /\ Len(cdc'[p]) \in Nat
                 /\ Len(cdc[p]) <= Len(cdc'[p])
                 /\ \A i \in 1 .. Len(cdc[p]) : cdc'[p][i] = cdc[p][i]
                 /\ \A i \in 1 .. Len(cdc'[p]) :
                      \/ i \in 1 .. Len(cdc[p])
                      \/ /\ p = q /\ cdc'[p][i].key = k
                         /\ cdc'[p][i] = e \/ cdc'[p][i].op = "tombstone"
            /\ \E i \in 1 .. Len(cdc'[q]) : cdc'[q][i] = e
<1> USE PipelineAssumption
<1> DEFINE q == PartitionOf[k]
           e == Source!Event(o, k, lastLsn + 1)
           d == [op |-> "tombstone", after |-> FALSE, key |-> k, lsn |-> 0]
           a == IF o = "d" THEN <<d>> ELSE <<>>
           s == Append(cdc[q], e)
<1>1. q \in Partition /\ cdc \in [Partition -> Seq(CdcRecord)] /\ lastLsn + 1 \in Nat
  BY DEF CdcInv
<1>2. e \in CdcRecord /\ e.key = k /\ d \in CdcRecord /\ d.key = k /\ d.op = "tombstone"
  BY <1>1 DEF CdcRecord, Source!Event
<1>3. cdc' = [cdc EXCEPT ![q] = s \o a]
  BY <1>1 DEF Source!Captured
<1> HIDE DEF q, e, d
<1>4. /\ a \in Seq(CdcRecord) /\ Len(a) \in Nat
      /\ \A i \in 1 .. Len(a) : a[i] = d
  BY <1>2
<1> HIDE DEF a
<1>5. /\ s \in Seq(CdcRecord)
      /\ Len(s) = Len(cdc[q]) + 1
      /\ \A i \in 1 .. Len(cdc[q]) : s[i] = cdc[q][i]
      /\ s[Len(cdc[q]) + 1] = e
  BY <1>1, <1>2, AppendProperties
<1>6. Len(cdc[q]) \in Nat /\ Len(s) \in Nat
  BY <1>1, <1>5, LenProperties
<1> HIDE DEF s
<1>7. /\ s \o a \in Seq(CdcRecord)
      /\ Len(s \o a) = Len(s) + Len(a)
      /\ \A i \in 1 .. Len(s) + Len(a) : (s \o a)[i] =
           IF i <= Len(s) THEN s[i] ELSE a[i - Len(s)]
  <2>1. s \in Seq(CdcRecord) /\ a \in Seq(CdcRecord)
    BY <1>4, <1>5
  <2> QED  BY ONLY <2>1, ConcatProperties
<1>8. cdc' \in [Partition -> Seq(CdcRecord)]
  BY <1>1, <1>3, <1>7
<1>9. cdc'[q] = s \o a /\ \A p \in Partition : p # q => cdc'[p] = cdc[p]
  BY <1>1, <1>3
<1>10. /\ Len(cdc'[q]) \in Nat /\ Len(cdc[q]) < Len(cdc'[q])
       /\ \A i \in 1 .. Len(cdc[q]) : cdc'[q][i] = cdc[q][i]
       /\ cdc'[q][Len(cdc[q]) + 1] = e
  <2>1. Len(cdc'[q]) = Len(s) + Len(a) /\ Len(cdc'[q]) \in Nat /\ Len(cdc[q]) < Len(cdc'[q])
    BY <1>4, <1>5, <1>6, <1>7, <1>9
  <2>2. ASSUME NEW i \in 1 .. Len(s) PROVE cdc'[q][i] = s[i]
    <3>1. i \in 1 .. Len(s) + Len(a) /\ i <= Len(s)
      BY <1>4, <1>6
    <3>2. (s \o a)[i] = s[i]
      BY <1>7, <3>1
    <3> QED  BY <1>9, <3>2
  <2>3. \A i \in 1 .. Len(cdc[q]) : i \in 1 .. Len(s)
    BY <1>5, <1>6
  <2>4. Len(cdc[q]) + 1 \in 1 .. Len(s)
    BY <1>5, <1>6
  <2>5. \A i \in 1 .. Len(cdc[q]) : cdc'[q][i] = cdc[q][i]
    BY <1>5, <2>2, <2>3
  <2>6. cdc'[q][Len(cdc[q]) + 1] = e
    BY <1>5, <2>2, <2>4
  <2> QED  BY <2>1, <2>5, <2>6
<1>11. ASSUME NEW i \in 1 .. Len(cdc'[q]), i \notin 1 .. Len(cdc[q])
       PROVE  cdc'[q][i] = e \/ cdc'[q][i] = d
  <2>1. CASE i <= Len(s)
    BY <1>5, <1>6, <1>10, <1>11, <2>1
  <2>2. CASE i > Len(s)
    <3>1. i - Len(s) \in 1 .. Len(a) /\ cdc'[q][i] = a[i - Len(s)]
      BY <1>4, <1>6, <1>7, <1>9, <1>11, <2>2
    <3> QED  BY <1>4, <3>1
  <2> QED  BY <1>6, <1>10, <2>1, <2>2
<1>12. ASSUME NEW p \in Partition
       PROVE  /\ Len(cdc[p]) \in Nat /\ Len(cdc'[p]) \in Nat
              /\ Len(cdc[p]) <= Len(cdc'[p])
              /\ \A i \in 1 .. Len(cdc[p]) : cdc'[p][i] = cdc[p][i]
              /\ \A i \in 1 .. Len(cdc'[p]) :
                   \/ i \in 1 .. Len(cdc[p])
                   \/ /\ p = q /\ cdc'[p][i].key = k
                      /\ cdc'[p][i] = e \/ cdc'[p][i].op = "tombstone"
  <2>1. CASE p # q
    <3>1. Len(cdc[p]) \in Nat
      BY <1>1, LenProperties
    <3> QED  BY <1>9, <2>1, <3>1
  <2>2. CASE p = q
    BY <1>2, <1>6, <1>10, <1>11, <2>2
  <2> QED  BY <2>1, <2>2
<1>13. \E i \in 1 .. Len(cdc'[q]) : cdc'[q][i] = e
  <2>1. Len(cdc[q]) + 1 \in 1 .. Len(cdc'[q])
    BY <1>6, <1>10
  <2> QED  BY <1>10, <2>1
<1> QED  BY <1>8, <1>12, <1>13 DEF q, e

\* So nothing that was captured is lost.
LEMMA CapturedKeeps ==
  ASSUME CdcInv, NEW k \in Key, NEW o \in {"c", "u", "d"}, Source!Captured(k, o)
  PROVE  \A p \in Partition :
           /\ Len(cdc[p]) \in Nat /\ Len(cdc'[p]) \in Nat
           /\ Len(cdc[p]) <= Len(cdc'[p])
           /\ \A i \in 1 .. Len(cdc[p]) : cdc'[p][i] = cdc[p][i]
BY CapturedAppends

\* The transformers read a partition of cdc.* record by record.
LEMMA ViewOfCdc ==
  ASSUME NEW s \in Seq(CdcRecord)
  PROVE  LET v == [i \in 1 .. Len(s) |-> [key |-> s[i].key, poison |-> FALSE]]
         IN v \in Seq(TP!Record) /\ Len(v) = Len(s)
<1> DEFINE v == [i \in 1 .. Len(s) |-> [key |-> s[i].key, poison |-> FALSE]]
<1>1. Len(s) \in Nat
  BY LenProperties
<1>2. \A i \in 1 .. Len(s) : s[i] \in CdcRecord
  BY ElementOfSeq
<1>3. v \in [1 .. Len(s) -> TP!Record]
  BY <1>2 DEF CdcRecord, TP!Record
<1>4. v \in Seq(TP!Record)
  BY <1>1, <1>3, SeqDef
<1>5. Len(v) \in Nat /\ DOMAIN v = 1 .. Len(v) /\ DOMAIN v = 1 .. Len(s)
  BY <1>4, LenProperties
<1>6. Len(v) = Len(s)
  <2> HIDE DEF v
  <2> QED  BY <1>1, <1>5
<1> QED  BY <1>4, <1>6

\* For the transformers a row change is the arrival of its records.
LEMMA WriteArrives ==
  ASSUME PipelineInv, NEW k \in Key, NEW o \in {"c", "u", "d"}, Source!Captured(k, o),
         UNCHANGED transformerVars
  PROVE  TP!Arrives
<1> DEFINE In(s) == [i \in 1 .. Len(s) |-> [key |-> s[i].key, poison |-> FALSE]]
           in  == [p \in Partition |-> In(cdc[p])]
           inn == [p \in Partition |-> In(cdc'[p])]
<1>c. CdcInv
  BY DEF PipelineInv
<1>1. /\ cdc \in [Partition -> Seq(CdcRecord)] /\ cdc' \in [Partition -> Seq(CdcRecord)]
      /\ \A p \in Partition :
           /\ Len(cdc[p]) \in Nat /\ Len(cdc'[p]) \in Nat
           /\ Len(cdc[p]) <= Len(cdc'[p])
           /\ \A i \in 1 .. Len(cdc[p]) : cdc'[p][i] = cdc[p][i]
           /\ \A i \in 1 .. Len(cdc'[p]) :
                \/ i \in 1 .. Len(cdc[p])
                \/ p = PartitionOf[k] /\ cdc'[p][i].key = k
  BY <1>c, CapturedAppends DEF CdcInv
<1>2. \A p \in Partition :
        /\ In(cdc[p]) \in Seq(TP!Record) /\ Len(In(cdc[p])) = Len(cdc[p])
        /\ In(cdc'[p]) \in Seq(TP!Record) /\ Len(In(cdc'[p])) = Len(cdc'[p])
  BY <1>1, ViewOfCdc
<1>3. \A p \in Partition :
        /\ \A i \in 1 .. Len(cdc[p]) : In(cdc[p])[i].key = cdc[p][i].key
        /\ \A i \in 1 .. Len(cdc[p]) : In(cdc'[p])[i] = In(cdc[p])[i]
        /\ \A i \in 1 .. Len(cdc'[p]) : In(cdc'[p])[i].key = cdc'[p][i].key
  <2>1. \A s : \A i \in 1 .. Len(s) : In(s)[i] = [key |-> s[i].key, poison |-> FALSE]
    OBVIOUS
  <2>0. \A s : \A i \in 1 .. Len(s) : In(s)[i].key = s[i].key
    OBVIOUS
  <2> HIDE DEF In
  <2> SUFFICES ASSUME NEW p \in Partition
               PROVE  /\ \A i \in 1 .. Len(cdc[p]) : In(cdc[p])[i].key = cdc[p][i].key
                      /\ \A i \in 1 .. Len(cdc[p]) : In(cdc'[p])[i] = In(cdc[p])[i]
                      /\ \A i \in 1 .. Len(cdc'[p]) : In(cdc'[p])[i].key = cdc'[p][i].key
    OBVIOUS
  <2>2. \A i \in 1 .. Len(cdc[p]) : i \in 1 .. Len(cdc'[p]) /\ cdc'[p][i] = cdc[p][i]
    BY <1>1
  <2>3. \A i \in 1 .. Len(cdc[p]) : In(cdc'[p])[i] = In(cdc[p])[i]
    <3> SUFFICES ASSUME NEW i \in 1 .. Len(cdc[p]) PROVE In(cdc'[p])[i] = In(cdc[p])[i]
      OBVIOUS
    <3>1. i \in 1 .. Len(cdc'[p]) /\ cdc'[p][i] = cdc[p][i]
      BY ONLY <2>2
    <3>2. In(cdc[p])[i] = [key |-> cdc[p][i].key, poison |-> FALSE]
      BY ONLY <2>1
    <3>3. In(cdc'[p])[i] = [key |-> cdc'[p][i].key, poison |-> FALSE]
      BY ONLY <2>1, <3>1
    <3> QED  BY ONLY <3>1, <3>2, <3>3
  <2>4. \A i \in 1 .. Len(cdc[p]) : In(cdc[p])[i].key = cdc[p][i].key
    BY <2>0
  <2>5. \A i \in 1 .. Len(cdc'[p]) : In(cdc'[p])[i].key = cdc'[p][i].key
    BY <2>0
  <2> QED  BY <2>3, <2>4, <2>5
<1> HIDE DEF In
<1>4. inn \in [Partition -> Seq(TP!Record)]
  BY <1>2
<1>5. \A p \in Partition :
        /\ Len(in[p]) \in Nat /\ Len(inn[p]) \in Nat
        /\ Len(in[p]) <= Len(inn[p])
        /\ \A i \in 1 .. Len(in[p]) : inn[p][i] = in[p][i]
        /\ \A i \in 1 .. Len(inn[p]) :
             i \in 1 .. Len(in[p]) \/ PartitionOf[inn[p][i].key] = p
  <2> SUFFICES ASSUME NEW p \in Partition
               PROVE  /\ Len(in[p]) \in Nat /\ Len(inn[p]) \in Nat
                      /\ Len(in[p]) <= Len(inn[p])
                      /\ \A i \in 1 .. Len(in[p]) : inn[p][i] = in[p][i]
                      /\ \A i \in 1 .. Len(inn[p]) :
                           i \in 1 .. Len(in[p]) \/ PartitionOf[inn[p][i].key] = p
    OBVIOUS
  <2>1. in[p] = In(cdc[p]) /\ inn[p] = In(cdc'[p])
    OBVIOUS
  <2> HIDE DEF in, inn
  <2>2. Len(in[p]) = Len(cdc[p]) /\ Len(inn[p]) = Len(cdc'[p])
    BY <1>2, <2>1
  <2>3. \A i \in 1 .. Len(cdc[p]) : inn[p][i] = in[p][i]
    BY <1>3, <2>1
  <2>4. \A i \in 1 .. Len(cdc'[p]) :
          i \in 1 .. Len(cdc[p]) \/ PartitionOf[inn[p][i].key] = p
    BY <1>1, <1>3, <2>1
  <2> QED  BY <1>1, <2>2, <2>3, <2>4
<1>6. tFaultCount' \in Nat
  BY DEF PipelineInv, TransformerPart, TP!TransformerInv, TP!TypeOK, transformerVars
<1>7. UNCHANGED <<out, TP!groupVars, TP!memberVars, tAbandoned>>
  BY DEF transformerVars, TP!groupVars, TP!memberVars
<1> QED  BY <1>4, <1>5, <1>6, <1>7 DEF TP!Arrives, In

\* A row change keeps the source table and cdc.* together.
LEMMA WriteKeepsRows ==
  ASSUME CdcInv, RowsInv, NEW k \in Key, NEW o \in {"c", "u", "d"}, Source!Captured(k, o)
  PROVE  CdcInv' /\ RowsInv'
<1> USE PipelineAssumption
<1> DEFINE q == PartitionOf[k]
           n == lastLsn + 1
           e == Source!Event(o, k, n)
<1>1. /\ lastLsn \in Nat /\ rows \in [Key -> Lsn \cup {Absent}]
      /\ lastLsn' = n /\ n \in Lsn
      /\ rows' = [rows EXCEPT ![k] = IF o = "d" THEN Absent ELSE n]
  BY DEF CdcInv, Source!Captured, Lsn, Source!Absent, Absent
<1>2. /\ cdc' \in [Partition -> Seq(CdcRecord)]
      /\ \A p \in Partition :
           /\ Len(cdc[p]) \in Nat /\ Len(cdc'[p]) \in Nat
           /\ Len(cdc[p]) <= Len(cdc'[p])
           /\ \A i \in 1 .. Len(cdc[p]) : cdc'[p][i] = cdc[p][i]
           /\ \A i \in 1 .. Len(cdc'[p]) :
                \/ i \in 1 .. Len(cdc[p])
                \/ /\ p = q /\ cdc'[p][i].key = k
                   /\ cdc'[p][i] = e \/ cdc'[p][i].op = "tombstone"
      /\ \E i \in 1 .. Len(cdc'[q]) : cdc'[q][i] = e
  BY CapturedAppends
<1>3. e.op = o /\ e.key = k /\ e.lsn = n
  BY DEF Source!Event
<1> HIDE DEF e, q, n
<1>4. CdcInv'
  <2>1. ASSUME NEW p \in Partition, NEW i \in 1 .. Len(cdc'[p])
        PROVE  /\ PartitionOf[cdc'[p][i].key] = p
               /\ cdc'[p][i].op \in {"c", "u"} => cdc'[p][i].lsn \in 1 .. lastLsn'
    <3>1. CASE i \in 1 .. Len(cdc[p])
      <4>1. cdc'[p][i] = cdc[p][i]
        BY <1>2, <3>1
      <4>2. /\ PartitionOf[cdc[p][i].key] = p
            /\ cdc[p][i].op \in {"c", "u"} => cdc[p][i].lsn \in 1 .. lastLsn
        BY <3>1 DEF CdcInv
      <4> QED  BY <1>1, <4>1, <4>2 DEF n
    <3>2. CASE i \notin 1 .. Len(cdc[p])
      BY <1>1, <1>2, <1>3, <3>2 DEF q, n
    <3> QED  BY <3>1, <3>2
  <2>2. rows' \in [Key -> Lsn \cup {Absent}] /\ lastLsn' \in Nat
    BY <1>1 DEF n
  <2> QED  BY <1>2, <2>1, <2>2 DEF CdcInv
<1>5. Deleted \subseteq Deleted'
  <2> SUFFICES ASSUME NEW l \in Deleted PROVE l \in Deleted'
    OBVIOUS
  <2>1. PICK p \in Partition : \E i \in 1 .. Len(cdc[p]) : cdc[p][i].op = "d" /\ cdc[p][i].key = l
    BY DEF Deleted
  <2>2. \E i \in 1 .. Len(cdc'[p]) : cdc'[p][i].op = "d" /\ cdc'[p][i].key = l
    BY <1>2, <2>1
  <2> QED  BY <2>2 DEF Deleted
<1>6. o = "d" => k \in Deleted'
  <2>1. PICK i \in 1 .. Len(cdc'[q]) : cdc'[q][i] = e
    BY <1>2
  <2>2. q \in Partition
    BY DEF q
  <2> QED  BY <1>3, <2>1, <2>2 DEF Deleted
<1>7. ASSUME NEW l \in Key
      PROVE  rows'[l] # Absent =>
               \E i \in 1 .. Len(cdc'[PartitionOf[l]]) :
                 Image(cdc'[PartitionOf[l]][i], l) /\ cdc'[PartitionOf[l]][i].lsn = rows'[l]
  <2>1. PartitionOf[l] \in Partition
    OBVIOUS
  <2>2. CASE l # k
    <3>1. rows'[l] = rows[l]
      BY <1>1, <2>2
    <3>2. rows[l] # Absent =>
            \E i \in 1 .. Len(cdc[PartitionOf[l]]) :
              Image(cdc[PartitionOf[l]][i], l) /\ cdc[PartitionOf[l]][i].lsn = rows[l]
      BY DEF RowsInv
    <3>3. ASSUME rows[l] # Absent
          PROVE  \E i \in 1 .. Len(cdc'[PartitionOf[l]]) :
                   Image(cdc'[PartitionOf[l]][i], l) /\ cdc'[PartitionOf[l]][i].lsn = rows[l]
      <4>1. PICK i \in 1 .. Len(cdc[PartitionOf[l]]) :
              Image(cdc[PartitionOf[l]][i], l) /\ cdc[PartitionOf[l]][i].lsn = rows[l]
        BY <3>2, <3>3
      <4>2. i \in 1 .. Len(cdc'[PartitionOf[l]])
            /\ cdc'[PartitionOf[l]][i] = cdc[PartitionOf[l]][i]
        BY <1>2, <2>1
      <4> QED  BY <4>1, <4>2
    <3> QED  BY <3>1, <3>3
  <2>3. CASE l = k
    <3>1. rows'[k] = IF o = "d" THEN Absent ELSE n
      BY <1>1
    <3> QED  BY <1>2, <1>3, <2>3, <3>1 DEF Image, q
  <2> QED  BY <2>2, <2>3
<1>8. ASSUME NEW l \in Key, l \notin Deleted', NEW i \in 1 .. Len(cdc'[PartitionOf[l]]),
             Image(cdc'[PartitionOf[l]][i], l)
      PROVE  cdc'[PartitionOf[l]][i].lsn <= rows'[l]
  <2>1. PartitionOf[l] \in Partition /\ l \notin Deleted
    BY <1>5, <1>8
  <2>2. l = k => rows'[l] = n /\ n \in Nat
    BY <1>1, <1>6, <1>8 DEF Lsn
  <2>3. CASE i \in 1 .. Len(cdc[PartitionOf[l]])
    <3>1. cdc'[PartitionOf[l]][i] = cdc[PartitionOf[l]][i]
      BY <1>2, <2>1, <2>3
    <3>2. cdc[PartitionOf[l]][i].lsn <= rows[l]
      BY <1>8, <2>1, <2>3, <3>1 DEF RowsInv
    <3>3. cdc[PartitionOf[l]][i].lsn \in 1 .. lastLsn
      BY <1>8, <2>1, <2>3, <3>1 DEF CdcInv, Image
    <3>4. CASE l = k
      BY <1>1, <2>2, <3>1, <3>3, <3>4 DEF n
    <3>5. CASE l # k
      <4>1. rows'[l] = rows[l]
        BY <1>1, <3>5
      <4> QED  BY <3>1, <3>2, <4>1
    <3> QED  BY <3>4, <3>5
  <2>4. CASE i \notin 1 .. Len(cdc[PartitionOf[l]])
    <3>1. /\ cdc'[PartitionOf[l]][i].key = k
          /\ cdc'[PartitionOf[l]][i] = e \/ cdc'[PartitionOf[l]][i].op = "tombstone"
      BY <1>2, <2>1, <2>4
    <3>2. l = k /\ cdc'[PartitionOf[l]][i] = e
      BY <1>8, <3>1 DEF Image
    <3> QED  BY <1>3, <2>2, <3>2
  <2> QED  BY <2>3, <2>4
<1>9. RowsInv'
  BY <1>7, <1>8 DEF RowsInv
<1> QED  BY <1>4, <1>9

\* A row change keeps the invariant.
LEMMA WriteStep ==
  ASSUME OneSink, PipelineInv, Write
  PROVE  PipelineInv'
<1> USE PipelineAssumption DEF PipelineInv
<1>1. PICK k \in Key, o \in {"c", "u", "d"} : Source!Captured(k, o)
  BY WriteCaptures
<1>2. UNCHANGED <<transformerVars, log, sinkVars>>
  BY WriteCaptures
<1>3. CdcInv' /\ RowsInv'
  BY <1>1, WriteKeepsRows
<1>4. TransformerPart'
  BY <1>1, <1>2, WriteArrives, TransformerKeeps DEF TP!Step, transformerVars
<1>5. SP!Arrives
  <2>1. rows' \in [Key -> SP!Lsn \cup {SP!Absent}] /\ lastLsn' \in Nat
    BY <1>3 DEF CdcInv, SP!Lsn, SP!Absent, Lsn, Absent
  <2>2. log \in [Partition -> Seq(SP!Record)] /\ faultCount \in Nat
    BY DEF SinkPart, SP!SinkInv, SP!TypeOK
  <2>3. \A p \in Partition : Len(log[p]) \in Nat
    BY <2>2, LenProperties
  <2>4. UNCHANGED <<SP!mongoVars, SP!groupVars, SP!memberVars, SP!historyVars, faultCount>>
    BY <1>2 DEF sinkVars, SP!mongoVars, SP!groupVars, SP!memberVars, SP!historyVars
  <2> QED  BY <1>2, <2>1, <2>2, <2>3, <2>4 DEF SP!Arrives
<1>6. SinkPart'
  <2>1. \A p \in Partition : \A i \in 1 .. Len(log'[p]) : SP!Usable(log'[p][i])
    BY <1>2 DEF SinkPart, SP!CleanInv
  <2> QED  BY <1>5, <2>1, SinkKeeps DEF SP!Step
<1>7. LinkInv'
  <2>1. \A p \in Partition :
          /\ Len(cdc[p]) \in Nat /\ Len(cdc'[p]) \in Nat
          /\ Len(cdc[p]) <= Len(cdc'[p])
          /\ \A i \in 1 .. Len(cdc[p]) : cdc'[p][i] = cdc[p][i]
    BY <1>1, CapturedKeeps
  <2>2. UNCHANGED <<log, out>>
    BY <1>2 DEF transformerVars
  <2>3. ASSUME NEW p \in Partition, NEW i \in 1 .. Len(log[p])
        PROVE  \E j \in 1 .. Len(cdc'[p]) : log[p][i] = cdc'[p][j]
    <3>1. PICK j \in 1 .. Len(cdc[p]) : log[p][i] = cdc[p][j]
      BY DEF LinkInv
    <3>2. j \in 1 .. Len(cdc'[p]) /\ cdc'[p][j] = cdc[p][j]
      BY <2>1
    <3> QED  BY <3>1, <3>2
  <2>4. ASSUME NEW l \in Key, NEW j \in DOMAIN out[l]
        PROVE  \E i \in 1 .. Len(log[PartitionOf[l]]) :
                 log[PartitionOf[l]][i] = cdc'[PartitionOf[l]][out[l][j]]
    <3>1. PartitionOf[l] \in Partition
      OBVIOUS
    <3>2. out[l][j] \in 1 .. Len(cdc[PartitionOf[l]])
      <4>1. out \in [Key -> Seq(Nat \ {0})]
        BY DEF TransformerPart, TP!TransformerInv, TP!TypeOK
      <4>2. out[l][j] \in Nat \ {0}
        BY <4>1, ElementOfSeq, LenProperties
      <4>3. cdc[PartitionOf[l]] \in Seq(CdcRecord)
        BY <3>1 DEF CdcInv
      <4> DEFINE v == [i \in 1 .. Len(cdc[PartitionOf[l]]) |->
                         [key |-> cdc[PartitionOf[l]][i].key, poison |-> FALSE]]
      <4>4. out[l][j] <= Len(v)
        BY <3>1 DEF TransformerPart, TP!TransformerInv, TP!LogInv
      <4>5. Len(v) = Len(cdc[PartitionOf[l]])
        BY <4>3, ViewOfCdc
      <4> HIDE DEF v
      <4> QED  BY <2>1, <3>1, <4>2, <4>4, <4>5
    <3>3. cdc'[PartitionOf[l]][out[l][j]] = cdc[PartitionOf[l]][out[l][j]]
      BY <2>1, <3>1, <3>2
    <3>4. PICK i \in 1 .. Len(log[PartitionOf[l]]) :
            log[PartitionOf[l]][i] = cdc[PartitionOf[l]][out[l][j]]
      BY DEF LinkInv
    <3> QED  BY <3>3, <3>4
  <2>5. (\A p \in Partition : \A i \in 1 .. Len(log[p]) :
           \E j \in 1 .. Len(cdc[p]) : log[p][i] = cdc[p][j])'
    BY <2>2, <2>3
  <2>6. (\A l \in Key : \A j \in DOMAIN out[l] :
           \E i \in 1 .. Len(log[PartitionOf[l]]) :
             log[PartitionOf[l]][i] = cdc[PartitionOf[l]][out[l][j]])'
    BY <2>2, <2>4
  <2> QED  BY <2>5, <2>6 DEF LinkInv
<1> QED  BY <1>3, <1>4, <1>6, <1>7

-----------------------------------------------------------------------------
(* The transformers produce.                                               *)

\* A record a transformer has in hand is a record of cdc.*, in the partition
\* of its row.
LEMMA InHand ==
  ASSUME PipelineInv, NEW t \in Transformers, NEW x \in tTodo[t]
  PROVE  LET r == cdc[x[1]][x[2]] IN
         /\ x[1] \in Partition /\ x[2] \in 1 .. Len(cdc[x[1]])
         /\ r \in CdcRecord /\ PartitionOf[r.key] = x[1]
         /\ TP!RecordAt(x).key = r.key
<1> USE PipelineAssumption DEF PipelineInv
<1>1. x \in TP!RecordId /\ TP!InLog(x)
  BY TP!InHand DEF TransformerPart, TP!FaultKind
<1>2. x[1] \in Partition
  BY <1>1 DEF TP!RecordId
<1>3. cdc[x[1]] \in Seq(CdcRecord)
  BY <1>2 DEF CdcInv
<1> DEFINE v == [i \in 1 .. Len(cdc[x[1]]) |->
                   [key |-> cdc[x[1]][i].key, poison |-> FALSE]]
<1>4. x[2] \in 1 .. Len(v)
  BY <1>1, <1>2 DEF TP!InLog
<1>5. Len(v) = Len(cdc[x[1]])
  BY <1>3, ViewOfCdc
<1>6. x[2] \in 1 .. Len(cdc[x[1]])
  BY <1>4, <1>5
<1>7. cdc[x[1]][x[2]] \in CdcRecord
  BY <1>3, <1>6, ElementOfSeq
<1>8. PartitionOf[cdc[x[1]][x[2]].key] = x[1]
  BY <1>2, <1>6 DEF CdcInv
<1>9. TP!RecordAt(x).key = cdc[x[1]][x[2]].key
  BY <1>2, <1>6 DEF TP!RecordAt
<1> QED  BY <1>2, <1>6, <1>7, <1>8, <1>9

\* transformed.* grows by at most that record.
LEMMA ForwardAppends ==
  ASSUME PipelineInv, NEW t \in Transformers, NEW x \in tTodo[t], Forward(t, x)
  PROVE  LET r == cdc[x[1]][x[2]] IN
         /\ log' \in [Partition -> Seq(SP!Record)]
         /\ \A p \in Partition :
              /\ Len(log[p]) \in Nat /\ Len(log'[p]) \in Nat
              /\ Len(log[p]) <= Len(log'[p])
              /\ \A i \in 1 .. Len(log[p]) : log'[p][i] = log[p][i]
              /\ \A i \in 1 .. Len(log'[p]) :
                   i \in 1 .. Len(log[p]) \/ (p = x[1] /\ log'[p][i] = r)
         /\ out' = out \/ \E i \in 1 .. Len(log'[x[1]]) : log'[x[1]][i] = r
<1> USE PipelineAssumption DEF PipelineInv
<1> DEFINE r == cdc[x[1]][x[2]]
           q == x[1]
           s == Append(log[q], r)
<1>1. q \in Partition /\ r \in CdcRecord
  BY InHand
<1>2. r \in SP!Record
  BY <1>1 DEF CdcRecord, SP!Record, SP!CDCOp
<1>3. log \in [Partition -> Seq(SP!Record)]
  BY DEF SinkPart, SP!SinkInv, SP!TypeOK
<1>4. \A p \in Partition : Len(log[p]) \in Nat
  BY <1>3, LenProperties
<1>5. CASE out' = out
  BY <1>3, <1>4, <1>5 DEF Forward
<1>6. CASE out' # out
  <2>1. log' = [log EXCEPT ![q] = s]
    BY <1>6 DEF Forward
  <2> HIDE DEF r, q
  <2>2. /\ s \in Seq(SP!Record)
        /\ Len(s) = Len(log[q]) + 1
        /\ \A i \in 1 .. Len(log[q]) : s[i] = log[q][i]
        /\ s[Len(log[q]) + 1] = r
    BY <1>1, <1>2, <1>3, AppendProperties
  <2> HIDE DEF s
  <2>3. log'[q] = s /\ \A p \in Partition : p # q => log'[p] = log[p]
    BY <1>1, <1>3, <2>1
  <2>4. log' \in [Partition -> Seq(SP!Record)]
    BY <1>3, <2>1, <2>2
  <2>5. \A i \in 1 .. Len(s) : i \in 1 .. Len(log[q]) \/ s[i] = r
    BY <1>1, <1>4, <2>2
  <2>6. ASSUME NEW p \in Partition
        PROVE  /\ Len(log[p]) \in Nat /\ Len(log'[p]) \in Nat
               /\ Len(log[p]) <= Len(log'[p])
               /\ \A i \in 1 .. Len(log[p]) : log'[p][i] = log[p][i]
               /\ \A i \in 1 .. Len(log'[p]) :
                    i \in 1 .. Len(log[p]) \/ (p = q /\ log'[p][i] = r)
    <3>1. CASE p # q
      BY <1>4, <2>3, <3>1
    <3>2. CASE p = q
      BY <1>1, <1>4, <2>2, <2>3, <2>5, <3>2
    <3> QED  BY <3>1, <3>2
  <2>7. \E i \in 1 .. Len(log'[q]) : log'[q][i] = r
    <3>1. Len(log[q]) + 1 \in 1 .. Len(log'[q])
      BY <1>1, <1>4, <2>2, <2>3
    <3> QED  BY <2>2, <2>3, <3>1
  <2> QED  BY <2>4, <2>6, <2>7 DEF q, r
<1> QED  BY <1>5, <1>6

\* Producing a record keeps the invariant.
LEMMA ForwardStep ==
  ASSUME OneSink, PipelineInv, NEW t \in Transformers, NEW x \in tTodo[t], Forward(t, x)
  PROVE  PipelineInv'
<1> USE PipelineAssumption DEF PipelineInv
<1> DEFINE r == cdc[x[1]][x[2]]
           q == x[1]
<1>1. /\ UNCHANGED <<loadVars, rows, lastLsn, sinkVars>>
      /\ Transform!Forward(t, x)
  BY DEF Forward
<1>2. TP!Step /\ TP!Produce(x) /\ UNCHANGED tAbandoned
  BY <1>1, ForwardWorks
<1>3. TransformerPart'
  BY <1>2, TransformerKeeps
<1>4. CdcInv' /\ RowsInv'
  BY <1>1, LoadKept DEF loadVars
<1>5. /\ q \in Partition /\ x[2] \in 1 .. Len(cdc[q])
      /\ r \in CdcRecord /\ PartitionOf[r.key] = q
      /\ TP!RecordAt(x).key = r.key
  BY InHand
<1>6. /\ log' \in [Partition -> Seq(SP!Record)]
      /\ \A p \in Partition :
           /\ Len(log[p]) \in Nat /\ Len(log'[p]) \in Nat
           /\ Len(log[p]) <= Len(log'[p])
           /\ \A i \in 1 .. Len(log[p]) : log'[p][i] = log[p][i]
           /\ \A i \in 1 .. Len(log'[p]) :
                i \in 1 .. Len(log[p]) \/ (p = q /\ log'[p][i] = r)
      /\ out' = out \/ \E i \in 1 .. Len(log'[q]) : log'[q][i] = r
  BY ForwardAppends
<1>7. SP!Arrives
  <2>1. rows' \in [Key -> SP!Lsn \cup {SP!Absent}] /\ lastLsn' \in Nat
    BY <1>4 DEF CdcInv, SP!Lsn, SP!Absent, Lsn, Absent
  <2>2. faultCount \in Nat
    BY DEF SinkPart, SP!SinkInv, SP!TypeOK
  <2>3. UNCHANGED <<SP!mongoVars, SP!groupVars, SP!memberVars, SP!historyVars, faultCount>>
    BY <1>1 DEF sinkVars, SP!mongoVars, SP!groupVars, SP!memberVars, SP!historyVars
  <2>4. \A p \in Partition : \A i \in 1 .. Len(log'[p]) :
          i \in 1 .. Len(log[p]) \/ PartitionOf[log'[p][i].key] = p
    BY <1>5, <1>6
  <2> QED  BY <1>6, <2>1, <2>2, <2>3, <2>4 DEF SP!Arrives
<1>8. SinkPart'
  <2>1. SP!Usable(r)
    BY <1>5 DEF CdcRecord, SP!Usable, SP!CDCOp, SP!BuildFails
  <2>2. ASSUME NEW p \in Partition, NEW i \in 1 .. Len(log'[p])
        PROVE  SP!Usable(log'[p][i])
    <3>1. CASE i \in 1 .. Len(log[p])
      <4>1. SP!Usable(log[p][i]) /\ log'[p][i] = log[p][i]
        BY <1>6, <3>1 DEF SinkPart, SP!CleanInv
      <4> QED  BY <4>1
    <3>2. CASE i \notin 1 .. Len(log[p])
      <4>1. log'[p][i] = r
        BY <1>6, <3>2
      <4> QED  BY <2>1, <4>1
    <3> QED  BY <3>1, <3>2
  <2> QED  BY <1>7, <2>2, SinkKeeps DEF SP!Step
<1>9. UNCHANGED cdc
  BY <1>1 DEF loadVars
<1> HIDE DEF r, q
<1>10. (\A p \in Partition : \A i \in 1 .. Len(log[p]) :
          \E j \in 1 .. Len(cdc[p]) : log[p][i] = cdc[p][j])'
  <2>1. ASSUME NEW p \in Partition, NEW i \in 1 .. Len(log'[p])
        PROVE  \E j \in 1 .. Len(cdc[p]) : log'[p][i] = cdc[p][j]
    <3>1. CASE i \in 1 .. Len(log[p])
      <4>1. \E j \in 1 .. Len(cdc[p]) : log[p][i] = cdc[p][j]
        BY <3>1 DEF LinkInv
      <4> QED  BY <1>6, <3>1, <4>1
    <3>2. CASE i \notin 1 .. Len(log[p])
      <4>1. p = q /\ log'[p][i] = r
        BY <1>6, <3>2
      <4> QED  BY <1>5, <4>1 DEF r, q
    <3> QED  BY <3>1, <3>2
  <2> QED  BY <1>9, <2>1
<1>11. ASSUME NEW k \in Key, NEW j \in DOMAIN out[k]
       PROVE  \E i \in 1 .. Len(log'[PartitionOf[k]]) :
                log'[PartitionOf[k]][i] = cdc[PartitionOf[k]][out[k][j]]
  <2>1. PICK i \in 1 .. Len(log[PartitionOf[k]]) :
          log[PartitionOf[k]][i] = cdc[PartitionOf[k]][out[k][j]]
    BY DEF LinkInv
  <2>2. PartitionOf[k] \in Partition
    OBVIOUS
  <2>3. i \in 1 .. Len(log'[PartitionOf[k]])
        /\ log'[PartitionOf[k]][i] = log[PartitionOf[k]][i]
    BY <1>6, <2>2
  <2> QED  BY <2>1, <2>3
<1>12. ASSUME NEW k \in Key, NEW j \in DOMAIN out'[k]
       PROVE  \E i \in 1 .. Len(log'[PartitionOf[k]]) :
                log'[PartitionOf[k]][i] = cdc[PartitionOf[k]][out'[k][j]]
  <2> DEFINE l == TP!RecordAt(x).key
  <2>1. /\ \A h \in Key : h # l => out'[h] = out[h]
        /\ Len(out[l]) \in Nat
        /\ DOMAIN out[l] = 1 .. Len(out[l])
        /\ DOMAIN out'[l] = 1 .. Len(out[l]) + 1
        /\ \A i \in 1 .. Len(out[l]) : out'[l][i] = out[l][i]
        /\ out'[l][Len(out[l]) + 1] = x[2]
    BY <1>2, TP!ProduceAppends DEF TransformerPart, TP!FaultKind
  <2>2. l = r.key
    BY <1>5 DEF r
  <2> HIDE DEF l
  <2>3. CASE k # l \/ j \in DOMAIN out[l]
    <3>1. j \in DOMAIN out[k] /\ out'[k][j] = out[k][j]
      BY <1>12, <2>1, <2>3
    <3> QED  BY <1>11, <3>1
  <2>4. CASE k = l /\ j \notin DOMAIN out[l]
    <3>1. j = Len(out[l]) + 1 /\ out'[k][j] = x[2]
      BY <1>12, <2>1, <2>4
    <3>2. out' # out
      BY <1>12, <2>4
    <3>3. PartitionOf[k] = q
      BY <1>5, <2>2, <2>4
    <3>4. \E i \in 1 .. Len(log'[q]) : log'[q][i] = r
      BY <1>6, <3>2
    <3> QED  BY <3>1, <3>3, <3>4 DEF r, q
  <2> QED  BY <2>3, <2>4
<1>13. LinkInv'
  BY <1>9, <1>10, <1>12 DEF LinkInv
<1> QED  BY <1>3, <1>4, <1>8, <1>13

-----------------------------------------------------------------------------
(* The invariant is inductive.                                             *)

\* The topics are as they were.
LEMMA LinkKept ==
  ASSUME LinkInv, UNCHANGED <<cdc, log, out>>
  PROVE  LinkInv'
BY DEF LinkInv

\* Every step of a transformer that produces nothing keeps the invariant.
LEMMA QuietStep ==
  ASSUME OneSink, PipelineInv, NEW t \in Transformers, QuietTransformer,
         \/ Transform!Poll(t) \/ Transform!Commit(t) \/ Transform!CommitError(t)
         \/ Transform!Crash(t) \/ Transform!Restart(t)
         \/ \E p \in Partition : Transform!Assign(p, t)
  PROVE  PipelineInv'
<1> USE DEF PipelineInv
<1>1. UNCHANGED <<cdc, log, rows, lastLsn, sinkVars>>
  BY DEF QuietTransformer, loadVars
<1>2. TP!Step /\ UNCHANGED <<out, tAbandoned>>
  BY TransformerWorks
<1>3. TransformerPart'
  BY <1>2, TransformerKeeps
<1>4. SinkPart'
  BY <1>1, SinkKept
<1>5. CdcInv' /\ RowsInv' /\ LinkInv'
  BY <1>1, <1>2, LoadKept, LinkKept
<1> QED  BY <1>3, <1>4, <1>5

\* Every step of a sink keeps the invariant.
LEMMA SinkStep ==
  ASSUME OneSink, PipelineInv, NEW s \in Sinks,
         \/ RunSink(s) \/ SinkFails(s) \/ RestartSink(s)
         \/ \E p \in Partition : AssignSink(p, s)
  PROVE  PipelineInv'
<1> USE DEF PipelineInv
<1>1. UNCHANGED <<cdc, transformerVars, log, rows, lastLsn>>
  BY SinkTouches
<1>2. SP!Step
  BY SinkWorks DEF SP!Step
<1>3. \A p \in Partition : \A i \in 1 .. Len(log'[p]) : SP!Usable(log'[p][i])
  BY <1>1 DEF SinkPart, SP!CleanInv
<1>4. SinkPart'
  BY <1>2, <1>3, SinkKeeps
<1>5. TransformerPart'
  BY <1>1, TransformerKept
<1>6. CdcInv' /\ RowsInv' /\ LinkInv'
  BY <1>1, LoadKept, LinkKept DEF transformerVars
<1> QED  BY <1>4, <1>5, <1>6

\* The invariant holds when nothing has been written yet.
LEMMA PipelineInit == Init => PipelineInv
<1> SUFFICES ASSUME Init PROVE PipelineInv
  OBVIOUS
<1> USE PipelineAssumption
<1>1. /\ cdc = [p \in Partition |-> <<>>] /\ lastLsn = 0
      /\ rows = [k \in Key |-> Absent]
  BY DEF Init, Source!Init, Source!Absent, Absent
<1>2. SP!SinkInv
  <2>1. SP!Init
    BY DEF Init, Sink!Init, SP!Init, Sink!Absent, SP!Absent
  <2> QED  BY <2>1, SP!InvInit DEF SP!FaultKind
<1>3. /\ log = [p \in Partition |-> <<>>]
      /\ docs = [k \in Key |-> SP!Absent]
      /\ abandoned = {} /\ swallowed = {} /\ late = {}
      /\ \A s \in Sinks : pending[s] = {} /\ inserting[s] = {}
  BY DEF Init, Sink!Init, Sink!Absent, SP!Absent
<1>4. SP!CleanInv /\ SP!SentInv /\ SP!ImagesAreReal
  BY <1>3, EmptySeq DEF SP!CleanInv, SP!SentInv, SP!ImagesAreReal
<1>5. TP!TransformerInv
  <2>1. TP!Init
    BY DEF Init, Transform!Init, TP!Init
  <2> QED  BY <2>1, TP!InvInit DEF TP!FaultKind
<1>6. tAbandoned = {} /\ out = [k \in Key |-> <<>>]
  BY DEF Init, Transform!Init
<1>7. CdcInv /\ RowsInv
  BY <1>1, EmptySeq DEF CdcInv, RowsInv
<1>8. LinkInv
  BY <1>3, <1>6, EmptySeq DEF LinkInv
<1> QED  BY <1>2, <1>4, <1>5, <1>6, <1>7, <1>8 DEF PipelineInv, SinkPart, TransformerPart

\* Every step of the pipeline keeps the invariant.
LEMMA PipelineStep ==
  ASSUME OneSink, PipelineInv, [Next]_vars
  PROVE  PipelineInv'
<1>1. CASE Write
  BY <1>1, WriteStep
<1>2. ASSUME NEW t \in Transformers, RunTransformer(t) PROVE PipelineInv'
  BY <1>2, QuietStep, ForwardStep DEF RunTransformer
<1>3. ASSUME NEW t \in Transformers,
             \/ TransformerFails(t) \/ RestartTransformer(t)
             \/ \E p \in Partition : AssignTransformer(p, t)
      PROVE  PipelineInv'
  BY <1>3, QuietStep DEF TransformerFails, RestartTransformer, AssignTransformer
<1>4. ASSUME NEW s \in Sinks,
             \/ RunSink(s) \/ SinkFails(s) \/ RestartSink(s)
             \/ \E p \in Partition : AssignSink(p, s)
      PROVE  PipelineInv'
  BY <1>4, SinkStep
<1>5. CASE UNCHANGED vars
  <2>1. UNCHANGED <<cdc, transformerVars, log, rows, lastLsn, sinkVars, out>>
    BY <1>5 DEF vars, loadVars, transformerVars
  <2> QED
    BY <2>1, SinkKept, TransformerKept, LoadKept, LinkKept DEF PipelineInv
<1> QED  BY <1>1, <1>2, <1>3, <1>4, <1>5 DEF Next

\* The invariant holds of every reachable state of the pipeline.
THEOREM PipelineInvariance ==
  ASSUME OneSink
  PROVE  Spec => []PipelineInv
<1>1. PipelineInv /\ [Next]_vars => PipelineInv'
  BY PipelineStep
<1> QED  BY <1>1, PipelineInit, PTL DEF Spec

-----------------------------------------------------------------------------
(* From one end to the other.                                              *)

\* What the transformers have committed is in both topics.
LEMMA CommittedIsProduced ==
  ASSUME PipelineInv, NEW p \in Partition, NEW i \in 1 .. tCommitted[p]
  PROVE  /\ i \in 1 .. Len(cdc[p])
         /\ \E h \in 1 .. Len(log[p]) : log[p][h] = cdc[p][i]
<1> USE PipelineAssumption DEF PipelineInv
<1>1. TP!Settled(<<p, i>>)
  BY DEF TransformerPart, TP!TransformerInv, TP!OffsetInv
<1>2. cdc[p] \in Seq(CdcRecord)
  BY DEF CdcInv
<1> DEFINE v == [j \in 1 .. Len(cdc[p]) |-> [key |-> cdc[p][j].key, poison |-> FALSE]]
<1>3. i \in 1 .. Len(v)
  BY <1>1 DEF TP!Settled, TP!InLog
<1>4. Len(v) = Len(cdc[p])
  BY <1>2, ViewOfCdc
<1>5. i \in 1 .. Len(cdc[p])
  BY <1>3, <1>4
<1> HIDE DEF v
<1> DEFINE k == cdc[p][i].key
<1>6. cdc[p][i] \in CdcRecord
  BY <1>2, <1>5, ElementOfSeq
<1>7. k \in Key /\ PartitionOf[k] = p
  BY <1>5, <1>6 DEF CdcRecord, CdcInv
<1>8. TP!RecordAt(<<p, i>>).key = k
  BY <1>5 DEF TP!RecordAt
<1>9. TP!Forwarded(<<p, i>>)
  BY <1>1 DEF TP!Settled, TransformerPart
<1> HIDE DEF k
<1>10. PICK j \in DOMAIN out[k] : out[k][j] = i
  BY <1>8, <1>9 DEF TP!Forwarded
<1> QED  BY <1>5, <1>7, <1>10 DEF LinkInv

\* A sink that has caught up has applied every image of a row that was never
\* deleted.
LEMMA CaughtUpIsApplied ==
  ASSUME PipelineInv, CaughtUp, NEW p \in Partition, NEW h \in 1 .. Len(log[p]),
         log[p][h].op \in {"c", "u"}, log[p][h].key \notin Deleted
  PROVE  docs[log[p][h].key] >= log[p][h].lsn
<1> USE PipelineAssumption DEF PipelineInv
<1> DEFINE x == <<p, h>>
           k == log[p][h].key
<1>1. h \in 1 .. committed[p]
  BY DEF CaughtUp
<1>2. x \in executed \ swallowed
  BY <1>1 DEF SinkPart, SP!SinkInv, SP!OffsetInv, SP!Settled, SP!CleanInv
<1>3. PICK j \in 1 .. Len(cdc[p]) : log[p][h] = cdc[p][j]
  BY DEF LinkInv
<1>4. cdc[p] \in Seq(CdcRecord)
  BY DEF CdcInv
<1>5. cdc[p][j] \in CdcRecord /\ PartitionOf[cdc[p][j].key] = p
  BY <1>3, <1>4, ElementOfSeq DEF CdcInv
<1>6. SP!IsUpsert(x)
  BY <1>3, <1>5 DEF CdcRecord, SP!IsUpsert, SP!RecordAt, SP!CDCOp
<1>7. SP!NeverDeleted(k)
  <2>1. k \in Key /\ PartitionOf[k] = p
    BY <1>3, <1>5 DEF CdcRecord
  <2>2. ASSUME NEW i \in 1 .. Len(log[p]), log[p][i].op = "d", log[p][i].key = k
        PROVE  FALSE
    <3>1. PICK l \in 1 .. Len(cdc[p]) : log[p][i] = cdc[p][l]
      BY DEF LinkInv
    <3> QED  BY <2>2, <3>1 DEF Deleted
  <2> QED  BY <2>1, <2>2 DEF SP!NeverDeleted, SP!Offsets
<1>8. SP!Reflected(x)
  BY <1>2, <1>6, <1>7 DEF SinkPart, SP!SinkInv, SP!DocInv, SP!KeyAt, SP!RecordAt
<1> QED  BY <1>8 DEF SP!Reflected, SP!KeyAt, SP!RecordAt

\* Once the sinks have caught up, a change of a row that was never deleted is
\* in Mongo, or a newer one is, as soon as the transformers have committed it.
LEMMA InvIsEndToEnd == PipelineInv => EndToEndNoLoss
<1> SUFFICES ASSUME PipelineInv, CaughtUp,
                    NEW p \in Partition, NEW i \in 1 .. tCommitted[p],
                    cdc[p][i].op \in {"c", "u"}, cdc[p][i].key \notin Deleted
             PROVE  docs[cdc[p][i].key] >= cdc[p][i].lsn
  BY DEF EndToEndNoLoss
<1>1. PICK h \in 1 .. Len(log[p]) : log[p][h] = cdc[p][i]
  BY CommittedIsProduced
<1> QED  BY <1>1, CaughtUpIsApplied

\* At-least-once delivery through both services: with any number of
\* transformers and one sink, a row change whose offset a transformer has
\* committed is never lost, whichever of them crash, lose a partition or fail
\* to commit, and in whatever order.
THEOREM NothingLostEndToEnd ==
  ASSUME OneSink
  PROVE  Spec => []EndToEndNoLoss
BY InvIsEndToEnd, PipelineInvariance, PTL

\* When both services are at rest Mongo holds the source table, the rows that
\* were deleted at some time left aside: the LSN gate of BuildWriteOp makes up
\* for every replay, overtaking and double delivery of the transformers.
THEOREM MirrorEndToEnd ==
  ASSUME OneSink
  PROVE  Spec => []EndToEndMirror
<1>1. PipelineInv => EndToEndMirror
  <2> SUFFICES ASSUME PipelineInv, AtRest, NEW k \in Key, k \notin Deleted
               PROVE  docs[k] = rows[k]
    BY DEF EndToEndMirror, Mirrored
  <2> USE PipelineAssumption DEF PipelineInv
  <2> DEFINE q == PartitionOf[k]
  <2>1. q \in Partition
    OBVIOUS
  <2>2. /\ docs[k] \in Nat \cup {SP!Absent}
        /\ rows[k] \in Lsn \cup {Absent}
    BY DEF SinkPart, SP!SinkInv, SP!TypeOK, CdcInv
  <2>3. rows[k] # Absent => docs[k] >= rows[k]
    <3> SUFFICES ASSUME rows[k] # Absent PROVE docs[k] >= rows[k]
      OBVIOUS
    <3>1. PICK i \in 1 .. Len(cdc[q]) : Image(cdc[q][i], k) /\ cdc[q][i].lsn = rows[k]
      BY DEF RowsInv
    <3>2. i \in 1 .. tCommitted[q]
      BY <2>1, <3>1 DEF AtRest
    <3> QED  BY <2>1, <3>1, <3>2, InvIsEndToEnd DEF AtRest, EndToEndNoLoss, Image
  <2>4. docs[k] # Absent => docs[k] <= rows[k]
    <3> SUFFICES ASSUME docs[k] # Absent PROVE docs[k] <= rows[k]
      OBVIOUS
    <3>1. PICK h \in 1 .. Len(log[q]) :
            /\ log[q][h].key = k /\ log[q][h].lsn = docs[k]
            /\ SP!IsUpsert(<<q, h>>)
      BY DEF SinkPart, SP!ImagesAreReal, SP!Offsets, SP!Absent, Absent
    <3>2. PICK j \in 1 .. Len(cdc[q]) : log[q][h] = cdc[q][j]
      BY <2>1 DEF LinkInv
    <3>3. cdc[q] \in Seq(CdcRecord)
      BY <2>1 DEF CdcInv
    <3>4. cdc[q][j] \in CdcRecord
      BY <3>2, <3>3, ElementOfSeq
    <3>5. Image(cdc[q][j], k)
      BY <3>1, <3>2, <3>4 DEF SP!IsUpsert, SP!RecordAt, SP!CDCOp, CdcRecord, Image
    <3> QED  BY <3>1, <3>2, <3>5 DEF RowsInv
  <2> QED  BY <2>2, <2>3, <2>4 DEF Lsn, Absent, SP!Absent
<1> QED  BY <1>1, PipelineInvariance, PTL
=============================================================================
