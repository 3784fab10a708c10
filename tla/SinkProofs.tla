----------------------------- MODULE SinkProofs -----------------------------
(***************************************************************************)
(* Proofs about Sink for every set of members, partitions and keys, every  *)
(* bound and every choice of faults: first that nothing is lost but in the *)
(* two ways the code loses an event, and nothing at all by a sole writer,  *)
(* then that Mongo mirrors the source (every document is an image of its   *)
(* row, what is committed and at rest is the source table) and that the    *)
(* sink implements RowReplica.                                             *)
(***************************************************************************)
EXTENDS SinkRefinement, SequenceTheorems, TLAPS

-----------------------------------------------------------------------------
(* The inductive invariant.                                                *)

\* A record is settled when its write ran, when it needs none, or when its
\* batch was given up.
Settled == executed \cup abandoned

\* A key lives in one partition, and what is in hand is in the log.
LogInv ==
  /\ \A p \in Partition : \A i \in 1 .. Len(log[p]) : PartitionOf[log[p][i].key] = p
  /\ \A x \in executed \cup late \cup abandoned \cup swallowed : x[2] <= Len(log[x[1]])
  /\ \A m \in Member : \A x \in batch[m] : x[2] <= Len(log[x[1]])

\* Where the records of the current batch are.
BatchInv ==
  \A m \in Member :
    /\ pending[m] \cup inserting[m] \subseteq batch[m]
    /\ pc[m] \in {"poll", "down"} => batch[m] = {}
    /\ pc[m] = "apply" => batch[m] \subseteq executed \cup pending[m] \cup inserting[m]
    /\ pc[m] \in {"mark", "commit"} => batch[m] \subseteq executed

\* Nothing is passed over: below a committed or marked offset every record is
\* settled, and below a position or the end of a batch it is settled or in hand.
OffsetInv ==
  /\ \A p \in Partition : \A i \in 1 .. committed[p] : <<p, i>> \in Settled
  /\ \A m \in Member : \A p \in Partition :
       /\ \A i \in 1 .. ends[m][p] : <<p, i>> \in Settled \cup batch[m]
       /\ \A i \in 1 .. marks[m][p] : <<p, i>> \in Settled
       /\ owner[p] = m => \A i \in 1 .. pos[m][p] : <<p, i>> \in Settled \cup batch[m]

\* A write that ran is visible in Mongo for as long as nothing deletes the row.
DocInv ==
  \A x \in executed \ swallowed :
    IsUpsert(x) /\ NeverDeleted(KeyAt(x)) => Reflected(x)

SinkInv == TypeOK /\ LogInv /\ BatchInv /\ OffsetInv /\ DocInv

-----------------------------------------------------------------------------
(* Lemmas about the operators.                                             *)

\* The LSN gate keeps a document well formed.
LEMMA EffectType ==
  ASSUME NEW ev, ev.lsn \in Nat, NEW doc \in Nat \cup {Absent}
  PROVE  Effect(ev, doc) \in Nat \cup {Absent}
BY DEF Effect, Outcome, Absent

\* The LSN gate never replaces an image by an older one, and an event that is
\* not a delete leaves its own image or a newer one behind.
LEMMA EffectGrows ==
  ASSUME NEW ev, ev.lsn \in Nat, NEW doc \in Nat \cup {Absent}
  PROVE  /\ Effect(ev, doc) # Absent /\ doc # Absent => doc <= Effect(ev, doc)
         /\ ev.op # "d" => doc <= Effect(ev, doc) /\ ev.lsn <= Effect(ev, doc)
BY DEF Effect, Outcome, DeleteMatches, UpsertMatches, Absent, NoLsn, Lsn

\* What a poll takes.
LEMMA FetchedMember ==
  ASSUME NEW m, NEW n, NEW p \in Partition, NEW i,
         pos[m][p] \in Nat, n[p] \in Nat
  PROVE  <<p, i>> \in Fetched(m, n)
           <=> i \in pos[m][p] + 1 .. pos[m][p] + n[p]
BY DEF Fetched

\* A poll returns well-formed record ids.
LEMMA FetchedType ==
  ASSUME NEW m \in Member, NEW n \in [Partition -> Nat], TypeOK, Fetchable(m, n)
  PROVE  /\ Fetched(m, n) \in RecordIds
         /\ \A x \in Fetched(m, n) : x[2] <= Len(log[x[1]])
         /\ \A x \in Fetched(m, n) :
              owner[x[1]] = m /\ x[2] <= pos[m][x[1]] + n[x[1]]
<1> SUFFICES ASSUME NEW x \in Fetched(m, n)
             PROVE  /\ x \in Partition \X (Nat \ {0})
                    /\ x[2] <= Len(log[x[1]])
                    /\ owner[x[1]] = m /\ x[2] <= pos[m][x[1]] + n[x[1]]
  BY DEF RecordIds
<1>1. PICK p \in Partition : \E i \in pos[m][p] + 1 .. pos[m][p] + n[p] : x = <<p, i>>
  BY DEF Fetched
<1>2. PICK i \in pos[m][p] + 1 .. pos[m][p] + n[p] : x = <<p, i>>
  BY <1>1
<1>3. pos[m][p] \in Nat /\ n[p] \in Nat /\ Len(log[p]) \in Nat
  BY LenProperties DEF TypeOK
<1>4. i \in Nat \ {0} /\ n[p] # 0
  BY <1>2, <1>3
<1> QED  BY <1>2, <1>3, <1>4 DEF Fetchable

\* Producing only appends, and only to one partition.
LEMMA LogGrows ==
  ASSUME TypeOK, NEW p \in Partition, NEW s \in Seq(Record), AppendAll(p, s)
  PROVE  /\ log' \in [Partition -> Seq(Record)]
         /\ \A q \in Partition :
              /\ Len(log[q]) \in Nat /\ Len(log'[q]) \in Nat
              /\ Len(log[q]) <= Len(log'[q])
              /\ \A i \in 1 .. Len(log[q]) : log'[q][i] = log[q][i]
              /\ \A j \in 1 .. Len(log'[q]) :
                   \/ j \in 1 .. Len(log[q])
                   \/ q = p /\ \E i \in 1 .. Len(s) : log'[q][j] = s[i]
<1>1. log \in [Partition -> Seq(Record)] /\ log' = [log EXCEPT ![p] = log[p] \o s]
  BY DEF TypeOK, AppendAll
<1>2. /\ log[p] \o s \in Seq(Record)
      /\ Len(log[p] \o s) = Len(log[p]) + Len(s)
      /\ \A i \in 1 .. Len(log[p]) + Len(s) : (log[p] \o s)[i] =
           IF i <= Len(log[p]) THEN log[p][i] ELSE s[i - Len(log[p])]
  BY <1>1, ConcatProperties
<1>3. \A q \in Partition : Len(log[q]) \in Nat
  BY <1>1, LenProperties
<1>4. Len(s) \in Nat
  BY LenProperties
<1>5. log' \in [Partition -> Seq(Record)]
  BY <1>1, <1>2
<1>6. ASSUME NEW q \in Partition, q # p
      PROVE  log'[q] = log[q]
  BY <1>1, <1>6
<1>7. log'[p] = log[p] \o s
  BY <1>1
<1>8. ASSUME NEW j \in 1 .. Len(log'[p]), j \notin 1 .. Len(log[p])
      PROVE  \E i \in 1 .. Len(s) : log'[p][j] = s[i]
  <2>1. j - Len(log[p]) \in 1 .. Len(s)
    BY <1>2, <1>3, <1>4, <1>7, <1>8
  <2>2. log'[p][j] = s[j - Len(log[p])]
    BY <1>2, <1>3, <1>4, <1>7, <1>8
  <2> QED  BY <2>1, <2>2
<1>9. \A i \in 1 .. Len(log[p]) : log'[p][i] = log[p][i]
  BY <1>2, <1>3, <1>4, <1>7
<1>10. Len(log'[p]) \in Nat /\ Len(log[p]) <= Len(log'[p])
  BY <1>2, <1>3, <1>4, <1>7
<1> QED  BY <1>3, <1>5, <1>6, <1>8, <1>9, <1>10

\* Records arrive in transformed.*, each in the partition of its key.  The
\* proofs use no more than this of what produces them, so that they also hold
\* when the transformers of the whole pipeline do.
Arrives ==
  /\ log' \in [Partition -> Seq(Record)]
  /\ \A p \in Partition :
       /\ Len(log[p]) \in Nat /\ Len(log'[p]) \in Nat
       /\ Len(log[p]) <= Len(log'[p])
       /\ \A i \in 1 .. Len(log[p]) : log'[p][i] = log[p][i]
       /\ \A i \in 1 .. Len(log'[p]) :
            i \in 1 .. Len(log[p]) \/ PartitionOf[log'[p][i].key] = p
  /\ rows' \in [Key -> Lsn \cup {Absent}]
  /\ lastLsn' \in Nat
  /\ faultCount' \in Nat
  /\ UNCHANGED <<mongoVars, groupVars, memberVars, historyVars>>

\* A step of the sinks, of their group or of Mongo.
Internal ==
  \/ \E x \in late : LateWrite(x)
  \/ \E m \in Member :
       \/ RunOnce(m) \/ Failure(m) \/ Restart(m)
       \/ \E p \in Partition : Assign(p, m)

Step == Arrives \/ Internal

\* Whatever the source does is an append of records of one partition.
LEMMA SourceArrives ==
  ASSUME SinkInv, Source
  PROVE  Arrives
<1> USE SinkAssumption DEF SinkInv
<1>1. ASSUME NEW k \in Key, NEW o \in SourceOps, Change(k, o)
      PROVE  /\ \E p \in Partition, s \in Seq(Record) :
                  AppendAll(p, s) /\ \A i \in 1 .. Len(s) : PartitionOf[s[i].key] = p
             /\ rows' \in [Key -> Lsn \cup {Absent}]
             /\ lastLsn' \in Nat
             /\ faultCount' \in Nat
  <2> DEFINE s == IF o = "d" THEN <<Event(o, k, lastLsn + 1), Tombstone(k)>>
                             ELSE <<Event(o, k, lastLsn + 1)>>
  <2>1. o \in CDCOp /\ lastLsn + 1 \in Nat
    BY DEF CDCOp, TypeOK
  <2>2. Event(o, k, lastLsn + 1) \in Record /\ Tombstone(k) \in Record
    BY <2>1 DEF Event, Tombstone, Record
  <2>3. s \in Seq(Record) /\ \A i \in 1 .. Len(s) : s[i].key = k
    BY <2>2 DEF Event, Tombstone
  <2>4. AppendAll(PartitionOf[k], s)
    BY <1>1 DEF Change
  <2>5. rows' \in [Key -> Lsn \cup {Absent}] /\ lastLsn' \in Nat
    BY <1>1 DEF Change, TypeOK, Lsn
  <2>6. faultCount' \in Nat
    BY <1>1 DEF Change, NoFault, TypeOK
  <2> HIDE DEF s
  <2>7. PartitionOf[k] \in Partition /\ \A i \in 1 .. Len(s) : PartitionOf[s[i].key] = PartitionOf[k]
    BY <2>3
  <2> QED  BY <2>3, <2>4, <2>5, <2>6, <2>7
<1>2. ASSUME NEW k \in Key, ProduceUnusable(k)
      PROVE  \E p \in Partition, s \in Seq(Record) :
               AppendAll(p, s) /\ \A i \in 1 .. Len(s) : PartitionOf[s[i].key] = p
  <2>1. PICK o \in {"malformed", "u"} :
          AppendAll(PartitionOf[k], <<[op |-> o, after |-> FALSE, key |-> k, lsn |-> 0]>>)
    BY <1>2 DEF ProduceUnusable
  <2> DEFINE r == [op |-> o, after |-> FALSE, key |-> k, lsn |-> 0]
  <2>2. r \in Record /\ r.key = k
    BY DEF Record, CDCOp
  <2>3. AppendAll(PartitionOf[k], <<r>>)
    BY <2>1
  <2> HIDE DEF r
  <2>4. <<r>> \in Seq(Record) /\ \A i \in 1 .. Len(<<r>>) : <<r>>[i].key = k
    BY <2>2
  <2>5. PartitionOf[k] \in Partition
    OBVIOUS
  <2> QED  BY <2>3, <2>4, <2>5
<1>3. ASSUME NEW p \in Partition, Reproduce(p)
      PROVE  \E q \in Partition, s \in Seq(Record) :
               AppendAll(q, s) /\ \A i \in 1 .. Len(s) : PartitionOf[s[i].key] = q
  <2>1. PICK i \in Offsets(p) : AppendAll(p, SubSeq(log[p], i, Len(log[p])))
    BY <1>3 DEF Reproduce
  <2> DEFINE s == SubSeq(log[p], i, Len(log[p]))
  <2>2. log[p] \in Seq(Record) /\ Len(log[p]) \in Nat /\ i \in 1 .. Len(log[p])
    BY LenProperties DEF TypeOK, Offsets
  <2>3. \A j \in i .. Len(log[p]) : log[p][j] \in Record
    BY <2>2, ElementOfSeq
  <2>4. /\ s \in Seq(Record)
        /\ Len(s) = Len(log[p]) - i + 1
        /\ \A j \in 1 .. Len(log[p]) - i + 1 : s[j] = log[p][i + j - 1]
    BY <2>2, <2>3, SubSeqProperties
  <2>5. ASSUME NEW j \in 1 .. Len(s) PROVE PartitionOf[s[j].key] = p
    <3>1. j \in 1 .. Len(log[p]) - i + 1
      BY <2>4
    <3>2. i + j - 1 \in 1 .. Len(log[p])
      BY <2>2, <3>1
    <3>3. s[j] = log[p][i + j - 1]
      BY <2>4, <3>1
    <3> QED  BY <3>2, <3>3 DEF LogInv
  <2> HIDE DEF s
  <2> QED  BY <2>1, <2>4, <2>5 DEF s
<1>4. UNCHANGED <<mongoVars, groupVars, memberVars, historyVars>>
  BY DEF Source, Change, ProduceUnusable, Reproduce
<1>5. ASSUME (\E k \in Key : ProduceUnusable(k)) \/ (\E p \in Partition : Reproduce(p))
      PROVE  /\ rows' \in [Key -> Lsn \cup {Absent}]
             /\ lastLsn' \in Nat
             /\ faultCount' \in Nat
  <2>1. UNCHANGED <<rows, lastLsn>> /\ faultCount' = faultCount + 1
    BY <1>5 DEF ProduceUnusable, Reproduce, Fault
  <2> QED  BY <2>1 DEF TypeOK
<1>6. ASSUME NEW p \in Partition, NEW s \in Seq(Record), AppendAll(p, s),
             \A i \in 1 .. Len(s) : PartitionOf[s[i].key] = p
      PROVE  /\ log' \in [Partition -> Seq(Record)]
             /\ \A q \in Partition :
                  /\ Len(log[q]) \in Nat /\ Len(log'[q]) \in Nat
                  /\ Len(log[q]) <= Len(log'[q])
                  /\ \A i \in 1 .. Len(log[q]) : log'[q][i] = log[q][i]
                  /\ \A i \in 1 .. Len(log'[q]) :
                       i \in 1 .. Len(log[q]) \/ PartitionOf[log'[q][i].key] = q
  <2>1. log' \in [Partition -> Seq(Record)]
    BY <1>6, LogGrows
  <2>2. \A q \in Partition :
          /\ Len(log[q]) \in Nat /\ Len(log'[q]) \in Nat
          /\ Len(log[q]) <= Len(log'[q])
          /\ \A i \in 1 .. Len(log[q]) : log'[q][i] = log[q][i]
          /\ \A j \in 1 .. Len(log'[q]) :
               \/ j \in 1 .. Len(log[q])
               \/ q = p /\ \E i \in 1 .. Len(s) : log'[q][j] = s[i]
    BY <1>6, LogGrows
  <2>3. ASSUME NEW q \in Partition, NEW j \in 1 .. Len(log'[q])
        PROVE  j \in 1 .. Len(log[q]) \/ PartitionOf[log'[q][j].key] = q
    BY <1>6, <2>2
  <2> QED  BY <2>1, <2>2, <2>3
<1>7. /\ \E p \in Partition, s \in Seq(Record) :
           AppendAll(p, s) /\ \A i \in 1 .. Len(s) : PartitionOf[s[i].key] = p
      /\ rows' \in [Key -> Lsn \cup {Absent}]
      /\ lastLsn' \in Nat
      /\ faultCount' \in Nat
  BY <1>1, <1>2, <1>3, <1>5 DEF Source
<1> QED  BY <1>4, <1>6, <1>7 DEF Arrives

\* A step that changes nothing lets no record arrive.
LEMMA StutterArrives ==
  ASSUME SinkInv, UNCHANGED vars
  PROVE  Arrives
BY LenProperties
   DEF SinkInv, TypeOK, LogInv, Arrives, vars, sourceVars, mongoVars, groupVars,
       memberVars, historyVars

\* Every step of the specification is one of Step.
LEMMA NextIsStep ==
  ASSUME SinkInv, [Next]_vars
  PROVE  Step
BY SourceArrives, StutterArrives DEF Next, Step, Internal

\* A record in hand is a record of the log, of its key's partition.
LEMMA InHand ==
  ASSUME SinkInv, NEW x,
         \/ x \in executed \cup late \cup abandoned \cup swallowed
         \/ \E m \in Member : x \in batch[m] \cup pending[m] \cup inserting[m]
  PROVE  /\ x \in Partition \X (Nat \ {0})
         /\ x[2] \in 1 .. Len(log[x[1]])
         /\ RecordAt(x) \in Record
         /\ KeyAt(x) \in Key
         /\ RecordAt(x).lsn \in Nat
         /\ PartitionOf[KeyAt(x)] = x[1]
<1> USE DEF SinkInv
<1>1. x \in Partition \X (Nat \ {0}) /\ x[2] <= Len(log[x[1]])
  BY DEF TypeOK, RecordIds, LogInv, BatchInv
<1>2. log[x[1]] \in Seq(Record) /\ Len(log[x[1]]) \in Nat
  BY <1>1, LenProperties DEF TypeOK
<1>3. x[2] \in 1 .. Len(log[x[1]])
  BY <1>1, <1>2
<1>4. RecordAt(x) \in Record
  BY <1>2, <1>3, ElementOfSeq DEF RecordAt
<1>5. PartitionOf[KeyAt(x)] = x[1]
  BY <1>1, <1>3 DEF LogInv, KeyAt, RecordAt
<1> QED  BY <1>1, <1>3, <1>4, <1>5 DEF Record, KeyAt

-----------------------------------------------------------------------------
(* Every step preserves every part of the invariant.                       *)

\* Forgetting a batch, and giving one up, keep the types.
LEMMA ForgetType ==
  ASSUME TypeOK, NEW m \in Member, Forget(m)
  PROVE  /\ batch' \in [Member -> RecordIds]
         /\ ends' \in [Member -> [Partition -> Nat]]
         /\ pending' \in [Member -> RecordIds]
         /\ inserting' \in [Member -> RecordIds]
         /\ table' \in [Member -> {TableOf[k] : k \in Key} \cup {NoTable}]
BY DEF TypeOK, Forget, RecordIds

\* Giving a batch up (an error that runLoop retries) keeps the types.
LEMMA GiveUpType ==
  ASSUME TypeOK, NEW m \in Member, GiveUp(m)
  PROVE  abandoned' \in RecordIds /\ pc' \in [Member -> PCs]
BY DEF TypeOK, GiveUp, RecordIds, PCs

\* The writes a vanished client leaves in Mongo are record ids.
LEMMA LeaveBehindType ==
  ASSUME TypeOK, NEW m \in Member, LeaveBehind(m)
  PROVE  late' \in RecordIds /\ late' \subseteq late \cup pending[m] \cup inserting[m]
BY DEF TypeOK, LeaveBehind, InFlight, RecordIds

\* A commit stores marks of the member, and leaves the other offsets alone.
LEMMA StoreMarksType ==
  ASSUME TypeOK, NEW m \in Member, StoreMarks(m)
  PROVE  /\ committed' \in [Partition -> Nat]
         /\ \A p \in Partition : committed'[p] = committed[p] \/ committed'[p] = marks[m][p]
<1>1. PICK S : committed' = [p \in Partition |-> IF p \in S THEN marks[m][p] ELSE committed[p]]
  BY DEF StoreMarks
<1> QED  BY <1>1 DEF TypeOK

\* A write leaves a well-formed document.
LEMMA WriteType ==
  ASSUME SinkInv, NEW x,
         \/ x \in late
         \/ \E m \in Member : x \in pending[m],
         docs' = [docs EXCEPT ![KeyAt(x)] = Effect(RecordAt(x), @)]
  PROVE  docs' \in [Key -> Nat \cup {Absent}]
<1>1. KeyAt(x) \in Key /\ RecordAt(x).lsn \in Nat
  BY InHand
<1>2. docs \in [Key -> Nat \cup {Absent}]
  BY DEF SinkInv, TypeOK
<1>3. Effect(RecordAt(x), docs[KeyAt(x)]) \in Nat \cup {Absent}
  BY <1>1, <1>2, EffectType
<1> QED  BY <1>1, <1>2, <1>3

\* Every step of the sink keeps the types.
LEMMA TypeStep ==
  ASSUME SinkInv, Step
  PROVE  TypeOK'
<1> USE SinkAssumption
<1>t. TypeOK
  BY DEF SinkInv
<1>1. CASE Arrives
  BY <1>1, <1>t DEF Arrives, TypeOK, mongoVars, groupVars, memberVars, historyVars
<1>2. ASSUME NEW x \in late, LateWrite(x)
      PROVE  TypeOK'
  <2>1. docs' \in [Key -> Nat \cup {Absent}]
    <3>1. CASE docs' = [docs EXCEPT ![KeyAt(x)] = Effect(RecordAt(x), @)]
      BY <3>1, WriteType
    <3>2. CASE docs' = docs
      BY <1>t, <3>2 DEF TypeOK
    <3> QED  BY <1>2, <3>1, <3>2 DEF LateWrite
  <2>2. late' \in RecordIds
    BY <1>2, <1>t DEF LateWrite, TypeOK, RecordIds
  <2> QED
    BY <1>2, <1>t, <2>1, <2>2
       DEF LateWrite, NoFault, TypeOK, sourceVars, groupVars, memberVars, historyVars
<1>3. ASSUME NEW m \in Member, NEW p \in Partition, Assign(p, m)
      PROVE  TypeOK'
  <2>1. faultCount' \in Nat
    BY <1>3, <1>t DEF Assign, StartOffset, NoFault, Fault, TypeOK
  <2>2. /\ owner' \in [Partition -> Member \cup {NoMember}]
        /\ pos' \in [Member -> [Partition -> Nat]]
        /\ marks' \in [Member -> [Partition -> Nat]]
    BY <1>3, <1>t DEF Assign, StartOffset, TypeOK
  <2> QED
    BY <1>3, <1>t, <2>1, <2>2
       DEF Assign, StartOffset, TypeOK, sourceVars, mongoVars, historyVars
<1>4. ASSUME NEW m \in Member, Poll(m)
      PROVE  TypeOK'
  <2>1. PICK n \in [Partition -> 0 .. MaxPoll] :
          /\ Fetchable(m, n)
          /\ AdvancePos(m, n)
          /\ batch' = [batch EXCEPT ![m] = Fetched(m, n)]
          /\ ends' = [ends EXCEPT ![m] = [p \in Partition |->
                        IF n[p] = 0 THEN 0 ELSE pos[m][p] + n[p]]]
    BY <1>4 DEF Poll
  <2>2. n \in [Partition -> Nat]
    OBVIOUS
  <2>3. Fetched(m, n) \in RecordIds
    BY <1>t, <2>1, <2>2, FetchedType
  <2>4. /\ pos' \in [Member -> [Partition -> Nat]]
        /\ ends' \in [Member -> [Partition -> Nat]]
        /\ batch' \in [Member -> RecordIds]
    BY <1>t, <2>1, <2>2, <2>3 DEF TypeOK, AdvancePos
  <2>5. pc' \in [Member -> PCs]
    BY <1>4, <1>t DEF Poll, TypeOK, PCs
  <2> QED
    BY <1>4, <1>t, <2>4, <2>5
       DEF Poll, NoFault, TypeOK, sourceVars, mongoVars, groupVars, historyVars
<1>5. ASSUME NEW m \in Member, PollError(m)
      PROVE  TypeOK'
  <2>1. PICK n \in [Partition -> 0 .. MaxPoll] :
          /\ Fetchable(m, n)
          /\ AdvancePos(m, n)
          /\ abandoned' = abandoned \cup Fetched(m, n)
    BY <1>5 DEF PollError
  <2>2. n \in [Partition -> Nat]
    OBVIOUS
  <2>3. abandoned' \in RecordIds
    BY <1>t, <2>1, <2>2, FetchedType DEF TypeOK, RecordIds
  <2>4. pos' \in [Member -> [Partition -> Nat]] /\ faultCount' \in Nat
    BY <1>5, <1>t, <2>1, <2>2 DEF TypeOK, AdvancePos, PollError, Fault
  <2> QED
    BY <1>5, <1>t, <2>3, <2>4
       DEF PollError, TypeOK, sourceVars, mongoVars, groupVars
<1>6. ASSUME NEW m \in Member, Decode(m)
      PROVE  TypeOK'
  <2>1. EventsOf(batch[m]) \in RecordIds /\ batch[m] \in RecordIds
    BY <1>t DEF EventsOf, TypeOK, RecordIds
  <2>2. pending' \in [Member -> RecordIds] /\ executed' \in RecordIds
    BY <1>6, <1>t, <2>1 DEF Decode, AfterDecode, TypeOK, RecordIds
  <2>3. pc' \in [Member -> PCs]
    BY <1>6, <1>t DEF Decode, AfterDecode, TypeOK, PCs
  <2> QED
    BY <1>6, <1>t, <2>2, <2>3
       DEF Decode, AfterDecode, NoFault, TypeOK, sourceVars, mongoVars, groupVars
<1>7. ASSUME NEW m \in Member, DecodeError(m)
      PROVE  TypeOK'
  <2>1. GiveUp(m) /\ Forget(m)
    BY <1>7 DEF DecodeError, GiveUp
  <2> QED
    BY <1>7, <1>t, <2>1, GiveUpType, ForgetType
       DEF DecodeError, NoFault, TypeOK, sourceVars, mongoVars, groupVars
<1>8. ASSUME NEW m \in Member, StartTable(m)
      PROVE  TypeOK'
  <2>1. PICK x \in pending[m] : table' = [table EXCEPT ![m] = TableAt(x)]
    BY <1>8 DEF StartTable
  <2>2. KeyAt(x) \in Key
    BY InHand
  <2>3. table' \in [Member -> {TableOf[k] : k \in Key} \cup {NoTable}]
    BY <1>t, <2>1, <2>2 DEF TypeOK, TableAt
  <2> QED
    BY <1>8, <1>t, <2>3
       DEF StartTable, NoFault, TypeOK, sourceVars, mongoVars, groupVars, historyVars
<1>9. ASSUME NEW m \in Member, NEW x \in pending[m], ExecuteWrite(m, x)
      PROVE  TypeOK'
  <2>1. docs' \in [Key -> Nat \cup {Absent}]
    BY <1>9, WriteType DEF ExecuteWrite
  <2>2. pending' \in [Member -> RecordIds] /\ executed' \in RecordIds
    BY <1>9, <1>t DEF ExecuteWrite, TypeOK, RecordIds
  <2> QED
    BY <1>9, <1>t, <2>1, <2>2
       DEF ExecuteWrite, NoFault, TypeOK, sourceVars, groupVars
<1>10. ASSUME NEW m \in Member, NEW x \in pending[m], FindNothing(m, x)
       PROVE  TypeOK'
  <2>1. pending' \in [Member -> RecordIds] /\ inserting' \in [Member -> RecordIds]
    <3>1. /\ pending' = [pending EXCEPT ![m] = pending[m] \ {x}]
          /\ inserting' = [inserting EXCEPT ![m] = inserting[m] \cup {x}]
      BY <1>10 DEF FindNothing
    <3>2. /\ pending \in [Member -> RecordIds] /\ inserting \in [Member -> RecordIds]
          /\ pending[m] \in RecordIds /\ inserting[m] \in RecordIds
      BY <1>t DEF TypeOK
    <3>3. pending[m] \ {x} \in RecordIds /\ inserting[m] \cup {x} \in RecordIds
      BY <3>2 DEF RecordIds
    <3> QED  BY <3>1, <3>2, <3>3
  <2> QED
    BY <1>10, <1>t, <2>1
       DEF FindNothing, NoFault, TypeOK, sourceVars, mongoVars, groupVars, historyVars
<1>11. ASSUME NEW m \in Member, NEW x \in inserting[m], InsertFound(m, x)
       PROVE  TypeOK'
  <2>1. KeyAt(x) \in Key /\ RecordAt(x).lsn \in Nat
    BY InHand
  <2>2. docs' \in [Key -> Nat \cup {Absent}]
    BY <1>11, <1>t, <2>1 DEF InsertFound, TypeOK
  <2>3. x \in Partition \X (Nat \ {0})
    BY <1>t DEF TypeOK, RecordIds
  <2>4. /\ inserting' \in [Member -> RecordIds]
        /\ executed' \in RecordIds
        /\ swallowed' \in RecordIds
    BY <1>11, <1>t, <2>3 DEF InsertFound, TypeOK, RecordIds
  <2> QED
    BY <1>11, <1>t, <2>2, <2>4
       DEF InsertFound, NoFault, TypeOK, sourceVars, groupVars
<1>12. ASSUME NEW m \in Member, FinishTable(m)
       PROVE  TypeOK'
  <2>1. /\ table' \in [Member -> {TableOf[k] : k \in Key} \cup {NoTable}]
        /\ pc' \in [Member -> PCs]
    BY <1>12, <1>t DEF FinishTable, AfterTable, TypeOK, PCs
  <2> QED
    BY <1>12, <1>t, <2>1
       DEF FinishTable, AfterTable, NoFault, TypeOK, sourceVars, mongoVars, groupVars, historyVars
<1>13. ASSUME NEW m \in Member, ApplyError(m)
       PROVE  TypeOK'
  <2>1. GiveUp(m) /\ Forget(m) /\ LeaveBehind(m)
    BY <1>13 DEF ApplyError, GiveUp
  <2>2. faultCount' \in Nat
    BY <1>13, <1>t DEF ApplyError, Fault, TypeOK
  <2> QED
    BY <1>13, <1>t, <2>1, <2>2, GiveUpType, ForgetType, LeaveBehindType
       DEF ApplyError, TypeOK, sourceVars, groupVars
<1>14. ASSUME NEW m \in Member, MarkCommit(m)
       PROVE  TypeOK'
  <2>1. marks' \in [Member -> [Partition -> Nat]] /\ pc' \in [Member -> PCs]
    BY <1>14, <1>t DEF MarkCommit, MaxOf, TypeOK, PCs
  <2> QED
    BY <1>14, <1>t, <2>1
       DEF MarkCommit, NoFault, TypeOK, sourceVars, mongoVars, groupVars, historyVars
<1>15. ASSUME NEW m \in Member, CommitMarked(m) \/ CommitError(m)
       PROVE  TypeOK'
  <2>0. /\ pc' = [pc EXCEPT ![m] = "poll"]
        /\ faultCount' = faultCount \/ faultCount' = faultCount + 1
    BY <1>15 DEF CommitMarked, CommitError, NoFault, Fault
  <2>1. pc' \in [Member -> PCs] /\ faultCount' \in Nat
    BY <1>t, <2>0 DEF TypeOK, PCs
  <2>2. StoreMarks(m) \/ committed' = committed
    BY <1>15 DEF CommitMarked, CommitError
  <2>3. committed' \in [Partition -> Nat]
    BY <1>t, <2>2, StoreMarksType DEF TypeOK
  <2>4. /\ Forget(m)
        /\ UNCHANGED <<log, rows, lastLsn, docs, late, owner, pos, marks,
                       executed, abandoned, swallowed>>
    BY <1>15 DEF CommitMarked, CommitError, sourceVars, mongoVars, historyVars
  <2> QED
    BY <1>t, <2>1, <2>3, <2>4, ForgetType DEF TypeOK
<1>16. ASSUME NEW m \in Member, Crash(m)
       PROVE  TypeOK'
  <2>1. /\ pc' \in [Member -> PCs]
        /\ owner' \in [Partition -> Member \cup {NoMember}]
        /\ marks' \in [Member -> [Partition -> Nat]]
        /\ faultCount' \in Nat
    BY <1>16, <1>t DEF Crash, Fault, TypeOK, PCs
  <2> QED
    BY <1>16, <1>t, <2>1, ForgetType, LeaveBehindType
       DEF Crash, TypeOK, sourceVars, historyVars
<1>17. ASSUME NEW m \in Member, Restart(m)
       PROVE  TypeOK'
  BY <1>17, <1>t
     DEF Restart, NoFault, TypeOK, PCs, sourceVars, mongoVars, groupVars, historyVars
<1> QED
  BY <1>1, <1>2, <1>3, <1>4, <1>5, <1>6, <1>7, <1>8, <1>9, <1>10, <1>11, <1>12,
     <1>13, <1>14, <1>15, <1>16, <1>17
     DEF Step, Internal, RunOnce, Failure

\* Steps that move records around without touching the log.
LEMMA LogKept ==
  ASSUME SinkInv, log' = log,
         \A x \in executed' \cup late' \cup abandoned' \cup swallowed' :
           \/ x \in executed \cup late \cup abandoned \cup swallowed
           \/ \E m \in Member : x \in batch[m]
           \/ x[2] <= Len(log[x[1]]),
         \A m \in Member : \A x \in batch'[m] :
           x \in batch[m] \/ x[2] <= Len(log[x[1]])
  PROVE  LogInv'
BY DEF SinkInv, LogInv

\* Every step keeps LogInv: ids in hand and in the histories name records of the log.
LEMMA LogStep ==
  ASSUME SinkInv, Step
  PROVE  LogInv'
<1> USE SinkAssumption
<1>t. TypeOK /\ LogInv /\ BatchInv
  BY DEF SinkInv
<1>b. \A m \in Member : pending[m] \cup inserting[m] \subseteq batch[m]
  BY <1>t DEF BatchInv
<1>1. CASE Arrives
  <2>1. UNCHANGED <<executed, late, abandoned, swallowed, batch>>
    BY <1>1 DEF Arrives, mongoVars, memberVars, historyVars
  <2>3. \A q \in Partition :
          /\ Len(log[q]) \in Nat /\ Len(log'[q]) \in Nat
          /\ Len(log[q]) <= Len(log'[q])
    BY <1>1 DEF Arrives
  <2>4. ASSUME NEW q \in Partition, NEW j \in 1 .. Len(log'[q])
        PROVE  PartitionOf[log'[q][j].key] = q
    <3>1. \/ PartitionOf[log'[q][j].key] = q
          \/ j \in 1 .. Len(log[q]) /\ log'[q][j] = log[q][j]
      BY <1>1 DEF Arrives
    <3>2. j \in 1 .. Len(log[q]) => PartitionOf[log[q][j].key] = q
      BY <1>t DEF LogInv
    <3> QED  BY <3>1, <3>2
  <2>5. ASSUME NEW x \in Partition \X (Nat \ {0}), x[2] <= Len(log[x[1]])
        PROVE  x[2] <= Len(log'[x[1]])
    BY <2>3, <2>5
  <2>6. \A x \in executed \cup late \cup abandoned \cup swallowed : x \in Partition \X (Nat \ {0})
    BY <1>t DEF TypeOK, RecordIds
  <2>7. \A m \in Member : \A x \in batch[m] : x \in Partition \X (Nat \ {0})
    BY <1>t DEF TypeOK, RecordIds
  <2> QED  BY <1>t, <2>1, <2>4, <2>5, <2>6, <2>7 DEF LogInv
<1>2. ASSUME NEW x \in late, LateWrite(x)
      PROVE  LogInv'
  BY <1>2, LogKept DEF LateWrite, sourceVars, memberVars, historyVars
<1>3. ASSUME NEW m \in Member, NEW p \in Partition, Assign(p, m)
      PROVE  LogInv'
  BY <1>3, LogKept DEF Assign, StartOffset, sourceVars, mongoVars, historyVars
<1>4. ASSUME NEW m \in Member, Poll(m)
      PROVE  LogInv'
  <2>1. PICK n \in [Partition -> 0 .. MaxPoll] :
          Fetchable(m, n) /\ batch' = [batch EXCEPT ![m] = Fetched(m, n)]
    BY <1>4 DEF Poll
  <2>2. \A x \in Fetched(m, n) : x[2] <= Len(log[x[1]])
    BY <1>t, <2>1, FetchedType
  <2>3. \A l \in Member : \A x \in batch'[l] :
          x \in batch[l] \/ x[2] <= Len(log[x[1]])
    BY <1>t, <2>1, <2>2 DEF TypeOK
  <2> QED  BY <1>4, <2>3, LogKept DEF Poll, sourceVars, mongoVars, historyVars
<1>5. ASSUME NEW m \in Member, Decode(m)
      PROVE  LogInv'
  <2>1. executed' \subseteq executed \cup batch[m]
    BY <1>5 DEF Decode, AfterDecode
  <2>2. UNCHANGED <<log, late, batch, abandoned, swallowed>>
    BY <1>5 DEF Decode, sourceVars, mongoVars
  <2> QED  BY <2>1, <2>2, LogKept
<1>6. ASSUME NEW m \in Member, DecodeError(m) \/ ApplyError(m)
      PROVE  LogInv'
  <2>1. late' \subseteq late \cup batch[m]
    BY <1>6, <1>t, <1>b, LeaveBehindType DEF DecodeError, ApplyError, mongoVars
  <2>2. \A l \in Member : batch'[l] \subseteq batch[l]
    BY <1>6, <1>t DEF DecodeError, ApplyError, GiveUp, Forget, TypeOK
  <2>3. UNCHANGED <<log, executed, swallowed>> /\ abandoned' \subseteq abandoned \cup batch[m]
    BY <1>6 DEF DecodeError, ApplyError, GiveUp, sourceVars
  <2> QED  BY <2>1, <2>2, <2>3, LogKept
<1>7. ASSUME NEW m \in Member, NEW x \in pending[m], ExecuteWrite(m, x)
      PROVE  LogInv'
  <2>1. /\ UNCHANGED <<log, late, batch, abandoned, swallowed>>
        /\ executed' = executed \cup {x} /\ x \in batch[m]
    BY <1>7, <1>b DEF ExecuteWrite, sourceVars
  <2> QED  BY <2>1, LogKept
<1>8. ASSUME NEW m \in Member, NEW x \in inserting[m], InsertFound(m, x)
      PROVE  LogInv'
  <2>1. /\ UNCHANGED <<log, late, batch, abandoned>>
        /\ executed' = executed \cup {x} /\ swallowed' \subseteq swallowed \cup {x}
        /\ x \in batch[m]
    BY <1>8, <1>b DEF InsertFound, sourceVars
  <2> QED  BY <2>1, LogKept
<1>9. ASSUME NEW m \in Member,
             \/ StartTable(m) \/ FinishTable(m)
             \/ MarkCommit(m) \/ Restart(m)
             \/ \E x \in pending[m] : FindNothing(m, x)
      PROVE  LogInv'
  <2>1. UNCHANGED <<log, executed, late, abandoned, swallowed, batch>>
    BY <1>9 DEF StartTable, FinishTable, AfterTable, MarkCommit, Restart,
                FindNothing, sourceVars, mongoVars, historyVars
  <2> QED  BY <2>1, LogKept
<1>10. ASSUME NEW m \in Member, CommitMarked(m) \/ CommitError(m)
       PROVE  LogInv'
  <2>1. UNCHANGED <<log, executed, late, abandoned, swallowed>> /\ Forget(m)
    BY <1>10 DEF CommitMarked, CommitError, sourceVars, mongoVars, historyVars
  <2>2. \A l \in Member : batch'[l] \subseteq batch[l]
    BY <1>t, <2>1 DEF Forget, TypeOK
  <2> QED  BY <2>1, <2>2, LogKept
<1>11. ASSUME NEW m \in Member, Crash(m)
       PROVE  LogInv'
  <2>1. UNCHANGED <<log, executed, abandoned, swallowed>> /\ Forget(m) /\ LeaveBehind(m)
    BY <1>11 DEF Crash, sourceVars, historyVars
  <2>2. \A l \in Member : batch'[l] \subseteq batch[l]
    BY <1>t, <2>1 DEF Forget, TypeOK
  <2>3. late' \subseteq late \cup batch[m]
    BY <1>t, <1>b, <2>1, LeaveBehindType
  <2> QED  BY <2>1, <2>2, <2>3, LogKept
<1>12. ASSUME NEW m \in Member, PollError(m)
       PROVE  LogInv'
  <2>1. PICK n \in [Partition -> 0 .. MaxPoll] :
          Fetchable(m, n) /\ abandoned' = abandoned \cup Fetched(m, n)
    BY <1>12 DEF PollError
  <2>2. \A x \in Fetched(m, n) : x[2] <= Len(log[x[1]])
    BY <1>t, <2>1, FetchedType
  <2>3. UNCHANGED <<log, executed, late, swallowed, batch>>
    BY <1>12 DEF PollError, sourceVars, mongoVars
  <2> QED  BY <2>1, <2>2, <2>3, LogKept
<1> QED
  BY <1>1, <1>2, <1>3, <1>4, <1>5, <1>6, <1>7, <1>8, <1>9, <1>10, <1>11, <1>12
     DEF Step, Internal, RunOnce, Failure

\* Every step keeps BatchInv: the records of a batch are pending, inserting, or executed.
LEMMA BatchStep ==
  ASSUME SinkInv, Step
  PROVE  BatchInv'
<1> USE SinkAssumption
<1>t. TypeOK /\ BatchInv
  BY DEF SinkInv
<1>1. CASE Arrives \/ \E x \in late : LateWrite(x)
  <2>1. UNCHANGED <<pc, batch, pending, inserting, executed>>
    BY <1>1 DEF Arrives, LateWrite, memberVars, historyVars
  <2> QED  BY <1>t, <2>1 DEF BatchInv
<1>2. ASSUME NEW m \in Member,
             \/ PollError(m) \/ StartTable(m)
             \/ \E p \in Partition : Assign(p, m)
      PROVE  BatchInv'
  <2>1. UNCHANGED <<pc, batch, pending, inserting, executed>>
    BY <1>2 DEF PollError, StartTable, Assign, StartOffset, historyVars
  <2> QED  BY <1>t, <2>1 DEF BatchInv
<1>3. ASSUME NEW m \in Member, Poll(m)
      PROVE  BatchInv'
  <2>1. PICK S : batch' = [batch EXCEPT ![m] = S]
    BY <1>3 DEF Poll
  <2>2. /\ pc[m] = "poll" /\ pc' = [pc EXCEPT ![m] = "decode"]
        /\ UNCHANGED <<pending, inserting, executed>>
    BY <1>3 DEF Poll, historyVars
  <2>3. pending[m] = {} /\ inserting[m] = {}
    BY <1>t, <2>2 DEF BatchInv
  <2> QED  BY <1>t, <2>1, <2>2, <2>3 DEF BatchInv, TypeOK
<1>4. ASSUME NEW m \in Member, Decode(m)
      PROVE  BatchInv'
  <2>1. EventsOf(batch[m]) \subseteq batch[m]
    BY DEF EventsOf
  <2>2. pending[m] \cup inserting[m] \subseteq batch[m]
    BY <1>t DEF BatchInv
  <2> QED  BY <1>4, <1>t, <2>1, <2>2 DEF Decode, AfterDecode, BatchInv, TypeOK
<1>5. ASSUME NEW m \in Member, NEW x \in pending[m], ExecuteWrite(m, x)
      PROVE  BatchInv'
  BY <1>5, <1>t DEF ExecuteWrite, BatchInv, TypeOK
<1>6. ASSUME NEW m \in Member, NEW x \in pending[m], FindNothing(m, x)
      PROVE  BatchInv'
  BY <1>6, <1>t DEF FindNothing, BatchInv, TypeOK, historyVars
<1>7. ASSUME NEW m \in Member, NEW x \in inserting[m], InsertFound(m, x)
      PROVE  BatchInv'
  BY <1>7, <1>t DEF InsertFound, BatchInv, TypeOK
<1>8. ASSUME NEW m \in Member, FinishTable(m)
      PROVE  BatchInv'
  BY <1>8, <1>t DEF FinishTable, AfterTable, BatchInv, TypeOK, historyVars
<1>9. ASSUME NEW m \in Member, MarkCommit(m) \/ Restart(m)
      PROVE  BatchInv'
  <2>1. UNCHANGED <<batch, pending, inserting, executed>>
    BY <1>9 DEF MarkCommit, Restart, historyVars
  <2>2. \/ pc[m] = "mark" /\ pc' = [pc EXCEPT ![m] = "commit"]
        \/ pc[m] = "down" /\ pc' = [pc EXCEPT ![m] = "poll"]
    BY <1>9 DEF MarkCommit, Restart
  <2>3. pc \in [Member -> PCs]
    BY <1>t DEF TypeOK
  <2>4. \A q \in Member \ {m} : pc'[q] = pc[q]
    BY <2>2, <2>3
  <2>5. \/ pc[m] = "mark" /\ pc'[m] = "commit"
        \/ pc[m] = "down" /\ pc'[m] = "poll"
    BY <2>2, <2>3
  <2> QED  BY <1>t, <2>1, <2>4, <2>5 DEF BatchInv
<1>10. ASSUME NEW m \in Member,
              \/ DecodeError(m) \/ ApplyError(m) \/ Crash(m)
              \/ CommitMarked(m) \/ CommitError(m)
       PROVE  BatchInv'
  <2>1. /\ Forget(m)
        /\ executed' = executed
        /\ \/ pc' = [pc EXCEPT ![m] = "poll"]
           \/ pc' = [pc EXCEPT ![m] = "down"]
    BY <1>10 DEF DecodeError, ApplyError, Crash, CommitMarked, CommitError,
                 GiveUp, historyVars
  <2> QED  BY <1>t, <2>1 DEF BatchInv, Forget, TypeOK
<1> QED
  BY <1>1, <1>2, <1>3, <1>4, <1>5, <1>6, <1>7, <1>8, <1>9, <1>10
     DEF Step, Internal, RunOnce, Failure

\* A settled record stays settled.
LEMMA SettledGrows ==
  ASSUME SinkInv, Step
  PROVE  executed \subseteq executed' /\ abandoned \subseteq abandoned'
<1>1. CASE Arrives
  BY <1>1 DEF Arrives, historyVars
<1>2. CASE ~Arrives
  BY <1>2 DEF Step, Internal, RunOnce, Failure, Poll, PollError, Decode, AfterDecode, DecodeError,
     StartTable, ExecuteWrite, FindNothing, InsertFound, FinishTable, AfterTable, ApplyError,
     LateWrite, MarkCommit, CommitMarked, CommitError, Crash, Restart, Assign, StartOffset,
     GiveUp, historyVars
<1> QED  BY <1>1, <1>2

\* Steps that only settle records.
LEMMA OffsetsKept ==
  ASSUME SinkInv, Step, UNCHANGED <<committed, owner, pos, marks, batch, ends>>
  PROVE  OffsetInv'
<1>1. Settled \subseteq Settled'
  BY SettledGrows DEF Settled
<1> QED  BY <1>1 DEF SinkInv, OffsetInv

\* Every step keeps OffsetInv: offsets never run ahead of settled records.
LEMMA OffsetStep ==
  ASSUME SinkInv, Step
  PROVE  OffsetInv'
<1> USE SinkAssumption
<1>t. TypeOK /\ BatchInv /\ OffsetInv
  BY DEF SinkInv
<1>s. Settled \subseteq Settled'
  BY SettledGrows DEF Settled
<1>1. CASE Arrives \/ \E x \in late : LateWrite(x)
  <2>1. UNCHANGED <<committed, owner, pos, marks, batch, ends>>
    BY <1>1 DEF Arrives, LateWrite, groupVars, memberVars
  <2> QED  BY <2>1, OffsetsKept
<1>2. ASSUME NEW m \in Member,
             \/ Decode(m) \/ StartTable(m) \/ FinishTable(m) \/ Restart(m)
             \/ \E x \in pending[m] : ExecuteWrite(m, x) \/ FindNothing(m, x)
             \/ \E x \in inserting[m] : InsertFound(m, x)
      PROVE  OffsetInv'
  <2>1. UNCHANGED <<committed, owner, pos, marks, batch, ends>>
    BY <1>2 DEF Decode, AfterDecode, StartTable, FinishTable, AfterTable, Restart, ExecuteWrite,
                FindNothing, InsertFound, groupVars
  <2> QED  BY <2>1, OffsetsKept
<1>3. ASSUME NEW m \in Member, NEW p \in Partition, Assign(p, m)
      PROVE  OffsetInv'
  <2>1. /\ owner' = [owner EXCEPT ![p] = m]
        /\ pos' = [pos EXCEPT ![m][p] = committed[p]]
        /\ marks' = [marks EXCEPT ![m][p] = committed[p]]
        /\ UNCHANGED <<committed, batch, ends>>
    BY <1>3 DEF Assign, StartOffset
  <2>2. /\ pos'[m][p] = committed[p] /\ marks'[m][p] = committed[p]
        /\ owner'[p] = m
        /\ committed[p] \in Nat
    BY <1>t, <2>1 DEF TypeOK
  <2>3. ASSUME NEW l \in Member, NEW q \in Partition, owner'[q] = l, q # p
        PROVE  owner[q] = l /\ pos'[l][q] = pos[l][q]
    BY <1>t, <2>1, <2>3 DEF TypeOK
  <2>4. \A l \in Member, q \in Partition :
          marks'[l][q] = marks[l][q] \/ (q = p /\ marks'[l][q] = committed[p])
    BY <1>t, <2>1 DEF TypeOK
  <2> QED  BY <1>t, <1>s, <2>1, <2>2, <2>3, <2>4 DEF OffsetInv
<1>4. ASSUME NEW m \in Member, Poll(m)
      PROVE  OffsetInv'
  <2>1. PICK n \in [Partition -> 0 .. MaxPoll] :
          /\ Fetchable(m, n)
          /\ AdvancePos(m, n)
          /\ batch' = [batch EXCEPT ![m] = Fetched(m, n)]
          /\ ends' = [ends EXCEPT ![m] = [p \in Partition |->
                        IF n[p] = 0 THEN 0 ELSE pos[m][p] + n[p]]]
    BY <1>4 DEF Poll
  <2>2. pc[m] = "poll" /\ UNCHANGED <<committed, owner, marks>>
    BY <1>4 DEF Poll, groupVars
  <2>3. batch[m] = {}
    BY <1>t, <2>2 DEF BatchInv
  <2>4. /\ batch'[m] = Fetched(m, n)
        /\ \A l \in Member \ {m} : /\ batch'[l] = batch[l] /\ ends'[l] = ends[l]
                                   /\ pos'[l] = pos[l]
        /\ \A p \in Partition : /\ pos'[m][p] = pos[m][p] + n[p]
                                /\ ends'[m][p] = IF n[p] = 0 THEN 0 ELSE pos[m][p] + n[p]
    BY <1>t, <2>1 DEF TypeOK, AdvancePos
  <2>5. ASSUME NEW p \in Partition, owner[p] = m, NEW i \in 1 .. pos[m][p] + n[p]
        PROVE  <<p, i>> \in Settled' \cup batch'[m]
    <3>1. pos[m][p] \in Nat /\ n[p] \in Nat
      BY <1>t DEF TypeOK
    <3>2. CASE i \in 1 .. pos[m][p]
      BY <1>t, <1>s, <2>3, <2>5, <3>2 DEF OffsetInv
    <3>3. CASE i \in pos[m][p] + 1 .. pos[m][p] + n[p]
      BY <2>4, <3>1, <3>3, FetchedMember
    <3> QED  BY <3>1, <3>2, <3>3
  <2>6. ASSUME NEW p \in Partition, NEW i \in 1 .. ends'[m][p]
        PROVE  <<p, i>> \in Settled' \cup batch'[m]
    <3>1. n[p] # 0 /\ i \in 1 .. pos[m][p] + n[p]
      BY <2>4, <2>6
    <3>2. owner[p] = m
      BY <2>1, <3>1 DEF Fetchable
    <3> QED  BY <2>5, <3>1, <3>2
  <2> QED  BY <1>t, <1>s, <2>2, <2>4, <2>5, <2>6 DEF OffsetInv
<1>5. ASSUME NEW m \in Member, PollError(m)
      PROVE  OffsetInv'
  <2>1. PICK n \in [Partition -> 0 .. MaxPoll] :
          /\ AdvancePos(m, n)
          /\ abandoned' = abandoned \cup Fetched(m, n)
    BY <1>5 DEF PollError
  <2>2. UNCHANGED <<committed, owner, marks, batch, ends>>
    BY <1>5 DEF PollError, groupVars
  <2>3. /\ \A l \in Member \ {m} : pos'[l] = pos[l]
        /\ \A p \in Partition : pos'[m][p] = pos[m][p] + n[p]
    BY <1>t, <2>1 DEF TypeOK, AdvancePos
  <2>4. ASSUME NEW p \in Partition, owner[p] = m, NEW i \in 1 .. pos[m][p] + n[p]
        PROVE  <<p, i>> \in Settled' \cup batch'[m]
    <3>1. pos[m][p] \in Nat /\ n[p] \in Nat
      BY <1>t DEF TypeOK
    <3>2. CASE i \in 1 .. pos[m][p]
      BY <1>t, <1>s, <2>2, <2>4, <3>2 DEF OffsetInv
    <3>3. CASE i \in pos[m][p] + 1 .. pos[m][p] + n[p]
      BY <2>1, <3>1, <3>3, FetchedMember DEF Settled
    <3> QED  BY <3>1, <3>2, <3>3
  <2> QED  BY <1>t, <1>s, <2>2, <2>3, <2>4 DEF OffsetInv
<1>6. ASSUME NEW m \in Member, DecodeError(m) \/ ApplyError(m)
      PROVE  OffsetInv'
  <2>1. GiveUp(m) /\ UNCHANGED <<committed, owner, pos, marks>>
    BY <1>6 DEF DecodeError, ApplyError, groupVars
  <2>2. /\ batch'[m] = {}
        /\ \A p \in Partition : ends'[m][p] = 0
        /\ \A l \in Member \ {m} : batch'[l] = batch[l] /\ ends'[l] = ends[l]
    BY <1>t, <2>1 DEF GiveUp, Forget, TypeOK
  <2>3. ASSUME NEW p \in Partition, owner[p] = m, NEW i \in 1 .. pos[m][p]
        PROVE  <<p, i>> \in Settled'
    <3>1. CASE <<p, i>> \in Settled
      BY <1>s, <3>1
    <3>2. CASE <<p, i>> \in batch[m]
      BY <2>1, <2>3, <3>2 DEF GiveUp, Settled
    <3> QED  BY <1>t, <2>3, <3>1, <3>2 DEF OffsetInv
  <2> QED  BY <1>t, <1>s, <2>1, <2>2, <2>3 DEF OffsetInv
<1>7. ASSUME NEW m \in Member, MarkCommit(m)
      PROVE  OffsetInv'
  <2>1. pc[m] = "mark" /\ UNCHANGED <<committed, owner, pos, batch, ends>>
    BY <1>7 DEF MarkCommit, groupVars
  <2>2. batch[m] \subseteq Settled
    BY <1>t, <2>1 DEF BatchInv, Settled
  <2>3. /\ \A l \in Member \ {m} : marks'[l] = marks[l]
        /\ \A p \in Partition : marks'[m][p] = MaxOf(marks[m][p], ends[m][p])
    BY <1>7, <1>t DEF MarkCommit, TypeOK
  <2>4. ASSUME NEW p \in Partition
        PROVE  \A i \in 1 .. marks'[m][p] : <<p, i>> \in Settled'
    <3>1. marks[m][p] \in Nat /\ ends[m][p] \in Nat
      BY <1>t DEF TypeOK
    <3>2. \A i \in 1 .. marks[m][p] : <<p, i>> \in Settled'
      BY <1>t, <1>s DEF OffsetInv
    <3>3. \A i \in 1 .. ends[m][p] : <<p, i>> \in Settled'
      BY <1>t, <1>s, <2>2 DEF OffsetInv
    <3> QED  BY <2>3, <3>1, <3>2, <3>3 DEF MaxOf
  <2> QED  BY <1>t, <1>s, <2>1, <2>3, <2>4 DEF OffsetInv
<1>8. ASSUME NEW m \in Member, CommitMarked(m) \/ CommitError(m)
      PROVE  OffsetInv'
  <2>1. /\ pc[m] = "commit"
        /\ Forget(m)
        /\ StoreMarks(m) \/ committed' = committed
        /\ UNCHANGED <<owner, pos, marks>>
    BY <1>8 DEF CommitMarked, CommitError
  <2>2. batch[m] \subseteq Settled
    BY <1>t, <2>1 DEF BatchInv, Settled
  <2>3. /\ batch'[m] = {}
        /\ \A p \in Partition : ends'[m][p] = 0
        /\ \A l \in Member \ {m} : batch'[l] = batch[l] /\ ends'[l] = ends[l]
    BY <1>t, <2>1 DEF Forget, TypeOK
  <2>4. \A p \in Partition : committed'[p] = committed[p] \/ committed'[p] = marks[m][p]
    BY <1>t, <2>1, StoreMarksType
  <2>5. ASSUME NEW p \in Partition, NEW i \in 1 .. committed'[p]
        PROVE  <<p, i>> \in Settled'
    BY <1>t, <1>s, <2>4 DEF OffsetInv
  <2> QED  BY <1>t, <1>s, <2>1, <2>2, <2>3, <2>5 DEF OffsetInv
<1>9. ASSUME NEW m \in Member, Crash(m)
      PROVE  OffsetInv'
  <2>1. Forget(m) /\ UNCHANGED <<committed, pos>>
    BY <1>9 DEF Crash
  <2>2. ASSUME NEW p \in Partition, NEW l \in Member, owner'[p] = l
        PROVE  owner[p] = l /\ l # m
    <3>1. owner'[p] = IF owner[p] = m THEN NoMember ELSE owner[p]
      BY <1>9 DEF Crash
    <3> QED  BY <2>2, <3>1
  <2>3. /\ batch'[m] = {}
        /\ \A p \in Partition : ends'[m][p] = 0
        /\ \A l \in Member \ {m} : batch'[l] = batch[l] /\ ends'[l] = ends[l]
    BY <1>t, <2>1 DEF Forget, TypeOK
  <2>4. \A l \in Member, p \in Partition : marks'[l][p] = marks[l][p] \/ marks'[l][p] = 0
    BY <1>9, <1>t DEF Crash, TypeOK
  <2> QED  BY <1>t, <1>s, <2>1, <2>2, <2>3, <2>4 DEF OffsetInv
<1> QED
  BY <1>1, <1>2, <1>3, <1>4, <1>5, <1>6, <1>7, <1>8, <1>9
     DEF Step, Internal, RunOnce, Failure

\* What holds of an upsert that ran survives a step that leaves the log alone
\* and never moves the document of a never-deleted row back.
LEMMA DocKept ==
  ASSUME SinkInv, UNCHANGED log, swallowed \subseteq swallowed',
         docs' \in [Key -> Nat \cup {Absent}],
         \A k \in Key : NeverDeleted(k) => docs[k] <= docs'[k],
         \A x \in executed' \ executed :
           IsUpsert(x) /\ NeverDeleted(KeyAt(x)) /\ x \notin swallowed'
             => docs'[KeyAt(x)] >= RecordAt(x).lsn
  PROVE  DocInv'
<1> SUFFICES ASSUME NEW x \in executed' \ swallowed', IsUpsert(x)',
                    NeverDeleted(KeyAt(x))'
             PROVE  Reflected(x)'
  BY DEF DocInv
<1>1. RecordAt(x)' = RecordAt(x) /\ KeyAt(x)' = KeyAt(x)
  BY DEF RecordAt, KeyAt
<1>2. IsUpsert(x) /\ NeverDeleted(KeyAt(x))
  BY <1>1 DEF IsUpsert, NeverDeleted, Offsets, KeyAt
<1>3. CASE x \notin executed
  BY <1>1, <1>2, <1>3 DEF Reflected
<1>4. CASE x \in executed
  <2>1. KeyAt(x) \in Key /\ RecordAt(x).lsn \in Nat
    BY <1>4, InHand
  <2>2. docs[KeyAt(x)] >= RecordAt(x).lsn
    BY <1>2, <1>4 DEF SinkInv, DocInv, Reflected
  <2>3. docs[KeyAt(x)] <= docs'[KeyAt(x)]
    BY <1>2, <2>1
  <2>4. docs[KeyAt(x)] \in Int /\ docs'[KeyAt(x)] \in Int
    BY <2>1 DEF SinkInv, TypeOK, Absent
  <2>5. docs'[KeyAt(x)] >= RecordAt(x).lsn
    BY <2>1, <2>2, <2>3, <2>4
  <2> QED  BY <1>1, <2>5 DEF Reflected
<1> QED  BY <1>3, <1>4

\* One write of a bulk, in time or late.
LEMMA WriteGrows ==
  ASSUME SinkInv, NEW x,
         \/ x \in late
         \/ \E m \in Member : x \in pending[m],
         docs' = [docs EXCEPT ![KeyAt(x)] = Effect(RecordAt(x), @)]
  PROVE  /\ \A k \in Key : NeverDeleted(k) => docs[k] <= docs'[k]
         /\ RecordAt(x).op # "d" => docs'[KeyAt(x)] >= RecordAt(x).lsn
         /\ \A k \in Key : docs[k] # Absent /\ docs'[k] # Absent => docs[k] <= docs'[k]
<1> DEFINE d == docs[KeyAt(x)]
<1> DEFINE e == Effect(RecordAt(x), d)
<1>1. /\ x \in Partition \X (Nat \ {0})
      /\ x[2] \in 1 .. Len(log[x[1]])
      /\ KeyAt(x) \in Key
      /\ RecordAt(x).lsn \in Nat
      /\ PartitionOf[KeyAt(x)] = x[1]
  BY InHand
<1>2. docs \in [Key -> Nat \cup {Absent}]
  BY DEF SinkInv, TypeOK
<1>3. /\ e \in Nat \cup {Absent}
      /\ e # Absent /\ d # Absent => d <= e
      /\ RecordAt(x).op # "d" => d <= e /\ RecordAt(x).lsn <= e
  BY <1>1, <1>2, EffectType, EffectGrows
<1>4. docs'[KeyAt(x)] = e /\ \A k \in Key : k # KeyAt(x) => docs'[k] = docs[k]
  BY <1>1, <1>2
<1>5. NeverDeleted(KeyAt(x)) => RecordAt(x).op # "d"
  BY <1>1 DEF NeverDeleted, Offsets, KeyAt, RecordAt
<1>6. \A k \in Key : docs[k] <= docs[k]
  BY <1>2 DEF Absent
<1> HIDE DEF e, d
<1>7. RecordAt(x).op # "d" => e >= RecordAt(x).lsn
  BY <1>1, <1>3 DEF Absent
<1> QED  BY <1>3, <1>4, <1>5, <1>6, <1>7 DEF d

\* The insert of an upsert whose find matched nothing.
LEMMA InsertGrows ==
  ASSUME SinkInv, NEW m \in Member, NEW x \in inserting[m], InsertFound(m, x)
  PROVE  /\ \A k \in Key : docs[k] <= docs'[k]
         /\ x \in swallowed' \/ docs'[KeyAt(x)] >= RecordAt(x).lsn
<1>1. KeyAt(x) \in Key /\ RecordAt(x).lsn \in Nat
  BY InHand
<1>2. docs \in [Key -> Nat \cup {Absent}]
  BY DEF SinkInv, TypeOK
<1>3. docs' = [docs EXCEPT ![KeyAt(x)] = IF @ = Absent THEN RecordAt(x).lsn ELSE @]
  BY DEF InsertFound
<1>4. \A k \in Key : docs[k] <= docs'[k]
  BY <1>1, <1>2, <1>3 DEF Absent
<1>5. docs[KeyAt(x)] # Absent /\ docs[KeyAt(x)] < RecordAt(x).lsn
        => x \in swallowed'
  BY DEF InsertFound
<1>6. ~(docs[KeyAt(x)] # Absent /\ docs[KeyAt(x)] < RecordAt(x).lsn)
        => docs'[KeyAt(x)] >= RecordAt(x).lsn
  BY <1>1, <1>2, <1>3 DEF Absent
<1> QED  BY <1>4, <1>5, <1>6

\* Every step keeps DocInv: Mongo reflects every upsert that ran, or it was swallowed.
LEMMA DocStep ==
  ASSUME SinkInv, Step
  PROVE  DocInv'
<1> USE SinkAssumption
<1>t. TypeOK
  BY DEF SinkInv
<1>d. docs \in [Key -> Nat \cup {Absent}] /\ \A k \in Key : docs[k] <= docs[k]
  <2>1. docs \in [Key -> Nat \cup {Absent}]
    BY <1>t DEF TypeOK
  <2> QED  BY <2>1 DEF Absent
<1>1. CASE Arrives
  <2>1. UNCHANGED <<docs, executed, swallowed>>
    BY <1>1 DEF Arrives, mongoVars, historyVars
  <2>2. \A q \in Partition :
          /\ Len(log[q]) \in Nat /\ Len(log'[q]) \in Nat
          /\ Len(log[q]) <= Len(log'[q])
          /\ \A i \in 1 .. Len(log[q]) : log'[q][i] = log[q][i]
    BY <1>1 DEF Arrives
  <2> SUFFICES ASSUME NEW x \in executed \ swallowed, IsUpsert(x)',
                      NeverDeleted(KeyAt(x))'
               PROVE  Reflected(x)'
    BY <2>1 DEF DocInv
  <2>3. /\ x[1] \in Partition /\ x[2] \in 1 .. Len(log[x[1]])
        /\ KeyAt(x) \in Key /\ PartitionOf[KeyAt(x)] = x[1]
    BY InHand
  <2>4. RecordAt(x)' = RecordAt(x) /\ KeyAt(x)' = KeyAt(x)
    BY <2>2, <2>3 DEF RecordAt, KeyAt
  <2>5. IsUpsert(x)
    BY <2>4 DEF IsUpsert
  <2>6. NeverDeleted(KeyAt(x))
    <3> DEFINE k == KeyAt(x)
    <3>1. \A i \in 1 .. Len(log'[x[1]]) : ~(log'[x[1]][i].op = "d" /\ log'[x[1]][i].key = k)
      BY <2>3, <2>4 DEF NeverDeleted, Offsets
    <3>2. \A i \in 1 .. Len(log[x[1]]) :
            i \in 1 .. Len(log'[x[1]]) /\ log'[x[1]][i] = log[x[1]][i]
      BY <2>2, <2>3
    <3> QED  BY <2>3, <3>1, <3>2 DEF NeverDeleted, Offsets
  <2>7. Reflected(x)
    BY <2>5, <2>6 DEF SinkInv, DocInv
  <2> QED  BY <2>1, <2>4, <2>7 DEF Reflected
<1>2. ASSUME NEW x \in late, LateWrite(x)
      PROVE  DocInv'
  <2>1. UNCHANGED <<log, executed, swallowed>>
    BY <1>2 DEF LateWrite, sourceVars, historyVars
  <2>2. CASE docs' = [docs EXCEPT ![KeyAt(x)] = Effect(RecordAt(x), @)]
    BY <2>1, <2>2, WriteType, WriteGrows, DocKept
  <2>3. CASE docs' = docs
    BY <1>d, <2>1, <2>3, DocKept
  <2> QED  BY <1>2, <2>2, <2>3 DEF LateWrite
<1>3. ASSUME NEW m \in Member, NEW x \in pending[m], ExecuteWrite(m, x)
      PROVE  DocInv'
  <2>1. docs' = [docs EXCEPT ![KeyAt(x)] = Effect(RecordAt(x), @)]
    BY <1>3 DEF ExecuteWrite
  <2>2. UNCHANGED <<log, swallowed>> /\ executed' = executed \cup {x}
    BY <1>3 DEF ExecuteWrite, sourceVars
  <2>3. IsUpsert(x) => RecordAt(x).op # "d"
    BY DEF IsUpsert, CDCOp
  <2> QED  BY <2>1, <2>2, <2>3, WriteType, WriteGrows, DocKept
<1>4. ASSUME NEW m \in Member, NEW x \in inserting[m], InsertFound(m, x)
      PROVE  DocInv'
  <2>1. /\ UNCHANGED log /\ executed' = executed \cup {x}
        /\ swallowed \subseteq swallowed'
    BY <1>4 DEF InsertFound, sourceVars
  <2>2. docs' \in [Key -> Nat \cup {Absent}]
    <3>1. KeyAt(x) \in Key /\ RecordAt(x).lsn \in Nat
      BY InHand
    <3> QED  BY <1>4, <1>d, <3>1 DEF InsertFound
  <2> QED  BY <1>4, <2>1, <2>2, InsertGrows, DocKept
<1>5. ASSUME NEW m \in Member, Decode(m)
      PROVE  DocInv'
  <2>1. /\ UNCHANGED <<log, docs, swallowed>>
        /\ executed' = executed \cup (batch[m] \ EventsOf(batch[m]))
    BY <1>5 DEF Decode, AfterDecode, sourceVars, mongoVars
  <2>2. \A x \in executed' \ executed : ~IsUpsert(x)
    BY <2>1 DEF EventsOf, IsUpsert
  <2> QED  BY <1>d, <2>1, <2>2, DocKept
<1>6. ASSUME NEW m \in Member,
             \/ Poll(m) \/ PollError(m) \/ DecodeError(m) \/ StartTable(m)
             \/ FinishTable(m) \/ ApplyError(m) \/ MarkCommit(m)
             \/ CommitMarked(m) \/ CommitError(m) \/ Crash(m) \/ Restart(m)
             \/ \E x \in pending[m] : FindNothing(m, x)
             \/ \E p \in Partition : Assign(p, m)
      PROVE  DocInv'
  <2>1. UNCHANGED <<log, docs, executed, swallowed>>
    BY <1>6 DEF Poll, PollError, DecodeError, StartTable, FinishTable, AfterTable, ApplyError,
         MarkCommit, CommitMarked, CommitError, Crash, Restart, FindNothing, Assign, StartOffset,
         sourceVars, mongoVars, historyVars
  <2> QED  BY <1>d, <2>1, DocKept
<1> QED
  BY <1>1, <1>2, <1>3, <1>4, <1>5, <1>6 DEF Step, Internal, RunOnce, Failure

-----------------------------------------------------------------------------
(* The theorems.                                                           *)

\* The inductive invariant holds initially.
LEMMA InvInit == Init => SinkInv
<1> SUFFICES ASSUME Init PROVE SinkInv
  OBVIOUS
<1> USE SinkAssumption DEF Init
<1>1. TypeOK
  BY EmptySeq DEF TypeOK, RecordIds, PCs
<1>2. LogInv
  BY EmptySeq DEF LogInv
<1>3. BatchInv /\ OffsetInv /\ DocInv
  BY DEF BatchInv, OffsetInv, DocInv
<1> QED  BY <1>1, <1>2, <1>3 DEF SinkInv

\* Every step keeps the inductive invariant.
LEMMA InvStep == SinkInv /\ Step => SinkInv'
BY TypeStep, LogStep, BatchStep, OffsetStep, DocStep DEF SinkInv

\* So does every step of the specification, stuttering included.
LEMMA InvNext == SinkInv /\ [Next]_vars => SinkInv'
BY NextIsStep, InvStep

\* The invariant holds of every reachable state.
THEOREM Invariance == Spec => []SinkInv
BY InvInit, InvNext, PTL DEF Spec

\* Every variable of the consume loop keeps its type, whatever fails.
THEOREM TypeCorrect == Spec => []TypeOK
<1>1. SinkInv => TypeOK
  BY DEF SinkInv
<1> QED  BY <1>1, Invariance, PTL

\* At-least-once delivery of RunOnce, with its two exceptions named: an
\* upsert whose offset is committed is in Mongo, unless its batch was given
\* up after an in-process error or its E11000 was swallowed by mistake.
THEOREM AtLeastOnce == Spec => []NoSilentLoss
<1>1. SinkInv => NoSilentLoss
  <2> SUFFICES ASSUME SinkInv, NEW x \in CommittedUpserts,
                      x \notin abandoned \cup swallowed
               PROVE  Reflected(x)
    BY DEF NoSilentLoss
  <2>1. PICK p \in Partition : \E i \in 1 .. committed[p] : x = <<p, i>>
    BY DEF CommittedUpserts
  <2>2. x \in Settled
    BY <2>1 DEF SinkInv, OffsetInv
  <2>3. x \in executed \ swallowed
    BY <2>2 DEF Settled
  <2>4. IsUpsert(x) /\ NeverDeleted(KeyAt(x))
    BY DEF CommittedUpserts
  <2> QED  BY <2>3, <2>4 DEF SinkInv, DocInv
<1> QED  BY <1>1, Invariance, PTL

\* The LSN gate of BuildWriteOp: no member, replay or late write replaces the
\* image of a document by an older one.
THEOREM GateIsMonotone == Spec => DocumentNeverGoesBack
<1>1. ASSUME SinkInv, [Next]_vars
      PROVE  [\A k \in Key : docs[k] # Absent /\ docs'[k] # Absent
                               => docs[k] <= docs'[k]]_docs
  <2> SUFFICES ASSUME Next, docs' # docs
               PROVE  \A k \in Key : docs[k] # Absent /\ docs'[k] # Absent
                                       => docs[k] <= docs'[k]
    BY <1>1 DEF vars, mongoVars
  <2>1. ~Source
    BY <1>1, SourceArrives DEF Arrives, mongoVars
  <2>2. \/ \E x \in late : LateWrite(x)
        \/ \E m \in Member : \/ \E x \in pending[m] : ExecuteWrite(m, x)
                             \/ \E x \in inserting[m] : InsertFound(m, x)
    BY <2>1 DEF Next, RunOnce, Failure, Poll, PollError, Decode, AfterDecode, DecodeError,
       StartTable, FindNothing, FinishTable, AfterTable, ApplyError, MarkCommit, CommitMarked,
       CommitError, Crash, Restart, Assign, StartOffset, mongoVars
  <2>3. ASSUME NEW x \in late, LateWrite(x)
        PROVE  \A k \in Key : docs[k] # Absent /\ docs'[k] # Absent
                                => docs[k] <= docs'[k]
    BY <1>1, <2>3, WriteGrows DEF LateWrite
  <2>4. ASSUME NEW m \in Member, NEW x \in pending[m], ExecuteWrite(m, x)
        PROVE  \A k \in Key : docs[k] # Absent /\ docs'[k] # Absent
                                => docs[k] <= docs'[k]
    BY <1>1, <2>4, WriteGrows DEF ExecuteWrite
  <2>5. ASSUME NEW m \in Member, NEW x \in inserting[m], InsertFound(m, x)
        PROVE  \A k \in Key : docs[k] # Absent /\ docs'[k] # Absent
                                => docs[k] <= docs'[k]
    BY <1>1, <2>5, InsertGrows
  <2> QED  BY <2>2, <2>3, <2>4, <2>5
<1> QED  BY <1>1, Invariance, PTL DEF Spec, DocumentNeverGoesBack

-----------------------------------------------------------------------------
(* A sole writer loses nothing.                                            *)

\* One process writes to Mongo.
SoleWriter == \A m, n \in Member : m = n

\* What may go wrong without making RunOnce fail before its commit and
\* without leaving a BulkWrite of a dead process behind.
CrashFaults == {"crash", "rebalance", "commit", "replay"}

\* A record Decode and BuildWriteOp accept.
Usable(r) == r.op # "malformed" /\ (r.op \in CDCOp => ~BuildFails(r))

\* Then nothing is given up or swallowed: between the find and the insert of an
\* upsert nobody inserts the document.
CleanInv ==
  /\ abandoned = {} /\ swallowed = {} /\ late = {}
  /\ \A m \in Member : \A x, y \in inserting[m] : x = y
  /\ \A m \in Member : \A x \in inserting[m] : docs[KeyAt(x)] = Absent
  /\ \A p \in Partition : \A i \in 1 .. Len(log[p]) : Usable(log[p][i])

\* Without the "malformed" fault the source produces usable records only.
LEMMA CleanSource ==
  ASSUME SinkInv, CleanInv, Faults \subseteq CrashFaults, Source
  PROVE  \A p \in Partition : \A i \in 1 .. Len(log'[p]) : Usable(log'[p][i])
<1> USE SinkAssumption DEF SinkInv
<1>1. ASSUME NEW q \in Partition, NEW s \in Seq(Record), AppendAll(q, s),
             \A i \in 1 .. Len(s) : Usable(s[i])
      PROVE  \A p \in Partition : \A i \in 1 .. Len(log'[p]) : Usable(log'[p][i])
  <2>1. \A p \in Partition :
          /\ \A i \in 1 .. Len(log[p]) : log'[p][i] = log[p][i]
          /\ \A j \in 1 .. Len(log'[p]) :
               \/ j \in 1 .. Len(log[p])
               \/ p = q /\ \E i \in 1 .. Len(s) : log'[p][j] = s[i]
    BY <1>1, LogGrows
  <2>2. ASSUME NEW p \in Partition, NEW j \in 1 .. Len(log'[p])
        PROVE  Usable(log'[p][j])
    <3>1. CASE j \in 1 .. Len(log[p])
      <4>1. log'[p][j] = log[p][j] /\ Usable(log[p][j])
        BY <2>1, <3>1 DEF CleanInv
      <4> QED  BY <4>1
    <3>2. CASE \E i \in 1 .. Len(s) : log'[p][j] = s[i]
      <4>1. PICK i \in 1 .. Len(s) : log'[p][j] = s[i]
        BY <3>2
      <4>2. Usable(s[i])
        BY <1>1
      <4> QED  BY <4>1, <4>2
    <3> QED  BY <2>1, <3>1, <3>2
  <2> QED  BY <2>2
<1>2. ASSUME NEW k \in Key, NEW o \in SourceOps, Change(k, o)
      PROVE  \E q \in Partition, s \in Seq(Record) :
               AppendAll(q, s) /\ \A i \in 1 .. Len(s) : Usable(s[i])
  <2> DEFINE e == Event(o, k, lastLsn + 1)
  <2> DEFINE t == Tombstone(k)
  <2> DEFINE s == IF o = "d" THEN <<e, t>> ELSE <<e>>
  <2>1. o \in CDCOp /\ lastLsn + 1 \in Nat /\ PartitionOf[k] \in Partition
    BY DEF CDCOp, TypeOK
  <2>2. e \in Record /\ t \in Record
    BY <2>1 DEF Event, Tombstone, Record
  <2>3. Usable(e) /\ Usable(t)
    BY <2>1 DEF Event, Tombstone, Usable, BuildFails, CDCOp
  <2>4. AppendAll(PartitionOf[k], s)
    BY <1>2 DEF Change
  <2> HIDE DEF e, t
  <2>5. s \in Seq(Record) /\ \A i \in 1 .. Len(s) : s[i] = e \/ s[i] = t
    BY <2>2
  <2> HIDE DEF s
  <2> QED  BY <2>1, <2>3, <2>4, <2>5
<1>3. ASSUME NEW p \in Partition, Reproduce(p)
      PROVE  \E q \in Partition, s \in Seq(Record) :
               AppendAll(q, s) /\ \A i \in 1 .. Len(s) : Usable(s[i])
  <2>1. PICK i \in Offsets(p) : AppendAll(p, SubSeq(log[p], i, Len(log[p])))
    BY <1>3 DEF Reproduce
  <2> DEFINE s == SubSeq(log[p], i, Len(log[p]))
  <2>2. log[p] \in Seq(Record) /\ Len(log[p]) \in Nat /\ i \in 1 .. Len(log[p])
    BY LenProperties DEF TypeOK, Offsets
  <2>3. \A j \in i .. Len(log[p]) : log[p][j] \in Record
    BY <2>2, ElementOfSeq
  <2>4. /\ s \in Seq(Record)
        /\ Len(s) = Len(log[p]) - i + 1
        /\ \A j \in 1 .. Len(log[p]) - i + 1 : s[j] = log[p][i + j - 1]
    BY <2>2, <2>3, SubSeqProperties
  <2>5. ASSUME NEW j \in 1 .. Len(s) PROVE Usable(s[j])
    <3>1. s[j] = log[p][i + j - 1] /\ i + j - 1 \in 1 .. Len(log[p])
      BY <2>2, <2>4
    <3>2. Usable(log[p][i + j - 1])
      BY <3>1 DEF CleanInv
    <3> QED  BY <3>1, <3>2
  <2> HIDE DEF s
  <2> QED  BY <2>1, <2>4, <2>5 DEF s
<1>4. ASSUME NEW k \in Key PROVE ~ProduceUnusable(k)
  BY DEF ProduceUnusable, Fault, CrashFaults
<1>5. \E q \in Partition, s \in Seq(Record) :
        AppendAll(q, s) /\ \A i \in 1 .. Len(s) : Usable(s[i])
  BY <1>2, <1>3, <1>4 DEF Source
<1> QED  BY <1>1, <1>5

\* Without in-process errors no batch is given up, and the E11000 of a sole
\* writer is always a stale replay.
LEMMA CleanStep ==
  ASSUME SinkInv, CleanInv, SoleWriter, Faults \subseteq CrashFaults, Step,
         Arrives => \A p \in Partition : \A i \in 1 .. Len(log'[p]) : Usable(log'[p][i])
  PROVE  CleanInv'
<1>t. TypeOK
  BY DEF SinkInv
<1>1. CASE Arrives
  <2>1. UNCHANGED <<docs, late, inserting, abandoned, swallowed>>
    BY <1>1 DEF Arrives, mongoVars, memberVars, historyVars
  <2>2. ASSUME NEW m \in Member, NEW x \in inserting[m]
        PROVE  KeyAt(x)' = KeyAt(x)
    <3>1. x[1] \in Partition /\ x[2] \in 1 .. Len(log[x[1]])
      BY <2>2, InHand
    <3> QED  BY <1>1, <3>1 DEF Arrives, KeyAt, RecordAt
  <2> QED  BY <1>1, <2>1, <2>2 DEF CleanInv
<1>2. ASSUME NEW m \in Member PROVE ~DecodeError(m)
  <2> SUFFICES ASSUME NEW x \in batch[m] PROVE Usable(RecordAt(x))
    BY DEF DecodeError, Usable, EventsOf
  <2>1. x[1] \in Partition /\ x[2] \in 1 .. Len(log[x[1]])
    BY InHand
  <2> QED  BY <2>1 DEF CleanInv, RecordAt
<1>3. ASSUME NEW m \in Member PROVE ~PollError(m) /\ ~ApplyError(m)
  BY DEF PollError, ApplyError, Fault, CrashFaults
<1>4. ASSUME NEW m \in Member,
             \/ Poll(m) \/ Decode(m) \/ StartTable(m) \/ FinishTable(m)
             \/ MarkCommit(m) \/ Restart(m)
             \/ \E p \in Partition : Assign(p, m)
      PROVE  CleanInv'
  <2>1. UNCHANGED <<log, docs, late, inserting, abandoned, swallowed>>
    BY <1>4 DEF Poll, Decode, AfterDecode, StartTable, FinishTable, AfterTable, MarkCommit, Restart,
                Assign, StartOffset, sourceVars, mongoVars, historyVars
  <2> QED  BY <2>1 DEF CleanInv, KeyAt, RecordAt
<1>5. ASSUME NEW m \in Member, CommitMarked(m) \/ CommitError(m) \/ Crash(m)
      PROVE  CleanInv'
  <2>1. UNCHANGED <<log, docs, abandoned, swallowed>> /\ Forget(m)
    BY <1>5 DEF CommitMarked, CommitError, Crash, sourceVars, mongoVars, historyVars
  <2>2. late' = late
    BY <1>5 DEF CommitMarked, CommitError, Crash, LeaveBehind, CrashFaults, mongoVars
  <2>3. \A l \in Member : inserting'[l] \subseteq inserting[l]
    BY <1>t, <2>1 DEF Forget, TypeOK
  <2> QED  BY <2>1, <2>2, <2>3 DEF CleanInv, KeyAt, RecordAt
<1>6. ASSUME NEW x \in late PROVE FALSE
  BY DEF CleanInv
<1>7. ASSUME NEW m \in Member, NEW x \in pending[m], ExecuteWrite(m, x)
      PROVE  CleanInv'
  <2>1. UNCHANGED <<log, late, inserting, abandoned, swallowed>> /\ inserting[m] = {}
    BY <1>7 DEF ExecuteWrite, Runnable, sourceVars
  <2>2. \A l \in Member : inserting'[l] = {}
    BY <2>1 DEF SoleWriter
  <2> QED  BY <2>1, <2>2 DEF CleanInv
<1>8. ASSUME NEW m \in Member, NEW x \in pending[m], FindNothing(m, x)
      PROVE  CleanInv'
  <2>1. /\ UNCHANGED <<log, docs, late, abandoned, swallowed>>
        /\ docs[KeyAt(x)] = Absent /\ inserting[m] = {}
        /\ inserting' = [inserting EXCEPT ![m] = inserting[m] \cup {x}]
    BY <1>8 DEF FindNothing, Runnable, FindsNothing, sourceVars, mongoVars, historyVars
  <2>2. inserting'[m] = {x}
    BY <1>t, <2>1 DEF TypeOK
  <2>3. \A l \in Member : inserting'[l] = {x}
    BY <2>2 DEF SoleWriter
  <2> QED  BY <2>1, <2>3 DEF CleanInv, KeyAt, RecordAt
<1>9. ASSUME NEW m \in Member, NEW x \in inserting[m], InsertFound(m, x)
      PROVE  CleanInv'
  <2>1. docs[KeyAt(x)] = Absent
    BY DEF CleanInv
  <2>2. UNCHANGED <<log, late, abandoned, swallowed>>
    BY <1>9, <2>1 DEF InsertFound, sourceVars
  <2>3. inserting'[m] = {}
    BY <1>9, <1>t DEF InsertFound, TypeOK, CleanInv
  <2>4. \A l \in Member : inserting'[l] = {}
    BY <2>3 DEF SoleWriter
  <2> QED  BY <2>2, <2>4 DEF CleanInv
<1> QED
  BY <1>1, <1>2, <1>3, <1>4, <1>5, <1>6, <1>7, <1>8, <1>9
     DEF Step, Internal, RunOnce, Failure

\* So it is for every step of the specification.
LEMMA CleanNext ==
  ASSUME SinkInv, CleanInv, SoleWriter, Faults \subseteq CrashFaults, [Next]_vars
  PROVE  CleanInv'
<1>1. CASE Source
  BY <1>1, SourceArrives, CleanSource, CleanStep DEF Step
<1>2. CASE Internal
  <2>1. UNCHANGED log
    BY <1>2 DEF Internal, RunOnce, Failure, LateWrite, Poll, PollError, Decode, AfterDecode,
       DecodeError, StartTable, ExecuteWrite, FindNothing, InsertFound, FinishTable,
       AfterTable, ApplyError, MarkCommit, CommitMarked, CommitError, Crash, Restart, Assign,
       StartOffset, sourceVars
  <2>2. \A p \in Partition : \A i \in 1 .. Len(log'[p]) : Usable(log'[p][i])
    BY <2>1 DEF CleanInv
  <2> QED  BY <1>2, <2>2, CleanStep DEF Step
<1>3. CASE UNCHANGED vars
  BY <1>3 DEF CleanInv, KeyAt, RecordAt, vars, sourceVars, mongoVars, memberVars, historyVars
<1> QED  BY <1>1, <1>2, <1>3 DEF Next, Internal

\* When a single process writes to Mongo, then however often it is killed and
\* restarted, its commits fail and the transformer replays, a committed upsert
\* is in Mongo: the upserts RunOnce finds refused with E11000 are stale.
THEOREM SoleWriterLosesNothing ==
  ASSUME SoleWriter, Faults \subseteq CrashFaults
  PROVE  Spec => []NoLoss
<1>1. Init => CleanInv
  BY EmptySeq DEF Init, CleanInv
<1>2. SinkInv /\ CleanInv /\ [Next]_vars => CleanInv'
  BY CleanNext
<1>3. NoSilentLoss /\ CleanInv => NoLoss
  BY DEF NoSilentLoss, CleanInv, NoLoss
<1> QED  BY <1>1, <1>2, <1>3, Invariance, AtLeastOnce, PTL DEF Spec

-----------------------------------------------------------------------------
(* Mongo mirrors the source: the inductive invariant, on top of SinkInv.   *)

\* BuildWriteOp makes a WriteOp of x.
Writable(x) == RecordAt(x).op \in CDCOp /\ ~BuildFails(RecordAt(x))

\* The i-th record of k's partition carries an image of row k.
ImageAt(k, i) == log[PartitionOf[k]][i].key = k /\ IsUpsert(<<PartitionOf[k], i>>)

\* Only what BuildWriteOp accepted reaches Mongo, and only upserts insert.
SentInv ==
  /\ \A x \in late : Writable(x)
  /\ \A m \in Member :
       /\ \A x \in pending[m] \cup inserting[m] : Writable(x)
       /\ \A x \in inserting[m] : RecordAt(x).op # "d"

\* Every change in the log carries an LSN the source has handed out.
LsnInv ==
  \A p \in Partition : \A i \in 1 .. Len(log[p]) :
    Writable(<<p, i>>) => log[p][i].lsn \in 1 .. lastLsn

\* The image of a row is in the log, and is the newest one if the row was
\* never deleted.
RowsInv ==
  \A k \in Key :
    /\ rows[k] # Absent =>
         \E i \in Offsets(PartitionOf[k]) :
           ImageAt(k, i) /\ log[PartitionOf[k]][i].lsn = rows[k]
    /\ NeverDeleted(k) =>
         \A i \in Offsets(PartitionOf[k]) :
           ImageAt(k, i) => log[PartitionOf[k]][i].lsn <= rows[k]

MirrorInv == SinkInv /\ SentInv /\ LsnInv /\ RowsInv /\ ImagesAreReal

-----------------------------------------------------------------------------
(* What the source does to the log.                                        *)

\* What is in the log stays there.
LogKeeps ==
  \A p \in Partition :
    /\ Len(log[p]) \in Nat /\ Len(log'[p]) \in Nat
    /\ Len(log[p]) <= Len(log'[p])
    /\ \A i \in 1 .. Len(log[p]) : log'[p][i] = log[p][i]

\* A row change appends its event, and a tombstone after a delete.
LEMMA ChangeLog ==
  ASSUME SinkInv, NEW k \in Key, NEW o \in SourceOps, Change(k, o)
  PROVE  LET q == PartitionOf[k]
             e == Event(o, k, lastLsn + 1)
         IN /\ LogKeeps
            /\ \A p \in Partition : \A j \in 1 .. Len(log'[p]) :
                 \/ j \in 1 .. Len(log[p])
                 \/ p = q /\ (log'[p][j] = e \/ log'[p][j] = Tombstone(k))
            /\ \E j \in 1 .. Len(log'[q]) : log'[q][j] = e
<1> USE SinkAssumption
<1> DEFINE q == PartitionOf[k]
           e == Event(o, k, lastLsn + 1)
           t == Tombstone(k)
           s == IF o = "d" THEN <<e, t>> ELSE <<e>>
<1>t. TypeOK
  BY DEF SinkInv
<1>1. q \in Partition /\ e \in Record /\ t \in Record
  <2>1. lastLsn + 1 \in Nat /\ o \in CDCOp
    BY <1>t DEF TypeOK, CDCOp
  <2>2. e \in Record /\ t \in Record
    BY <2>1 DEF Event, Tombstone, Record
  <2> QED  BY <2>2
<1>2. AppendAll(q, s)
  BY DEF Change
<1> HIDE DEF e, t, q
<1>3. /\ s \in Seq(Record) /\ Len(s) \in Nat /\ 1 \in 1 .. Len(s) /\ s[1] = e
      /\ \A i \in 1 .. Len(s) : s[i] = e \/ s[i] = t
  BY <1>1
<1> HIDE DEF s
<1>4. /\ LogKeeps
      /\ \A p \in Partition : \A j \in 1 .. Len(log'[p]) :
           \/ j \in 1 .. Len(log[p])
           \/ p = q /\ (log'[p][j] = e \/ log'[p][j] = t)
  <2>1. \A p \in Partition :
          /\ Len(log[p]) \in Nat /\ Len(log'[p]) \in Nat
          /\ Len(log[p]) <= Len(log'[p])
          /\ \A i \in 1 .. Len(log[p]) : log'[p][i] = log[p][i]
          /\ \A j \in 1 .. Len(log'[p]) :
               \/ j \in 1 .. Len(log[p])
               \/ p = q /\ \E i \in 1 .. Len(s) : log'[p][j] = s[i]
    BY <1>t, <1>1, <1>2, <1>3, LogGrows
  <2> QED  BY <1>3, <2>1 DEF LogKeeps
<1>5. \E j \in 1 .. Len(log'[q]) : log'[q][j] = e
  <2>1. log[q] \in Seq(Record) /\ log'[q] = log[q] \o s
    BY <1>t, <1>1, <1>2 DEF TypeOK, AppendAll
  <2>2. Len(log[q]) \in Nat
    BY <2>1, LenProperties
  <2>3. /\ Len(log'[q]) = Len(log[q]) + Len(s)
        /\ \A i \in 1 .. Len(log[q]) + Len(s) : log'[q][i] =
             IF i <= Len(log[q]) THEN log[q][i] ELSE s[i - Len(log[q])]
    BY <1>3, <2>1, ConcatProperties
  <2>4. Len(log[q]) + 1 \in 1 .. Len(log'[q])
    BY <1>3, <2>2, <2>3
  <2> DEFINE n == Len(log[q])
             z == n + 1
  <2>5. z - n = 1 /\ ~(z <= n) /\ z \in 1 .. n + Len(s) /\ z \in 1 .. Len(log'[q])
    BY <1>3, <2>2, <2>4
  <2> HIDE DEF z
  <2>6. \A i \in 1 .. n + Len(s) : ~(i <= n) => log'[q][i] = s[i - n]
    <3> SUFFICES ASSUME NEW i \in 1 .. n + Len(s), ~(i <= n) PROVE log'[q][i] = s[i - n]
      OBVIOUS
    <3>1. log'[q][i] = IF i <= n THEN log[q][i] ELSE s[i - n]
      BY ONLY <2>3, Zenon
    <3> QED  BY <3>1, Zenon
  <2>7. log'[q][z] = s[z - n]
    BY ONLY <2>5, <2>6, Zenon
  <2> QED  BY ONLY <1>3, <2>5, <2>7
<1> QED  BY <1>4, <1>5 DEF q, e, t

\* A record the sink cannot apply carries no image and is no delete.
LEMMA UnusableLog ==
  ASSUME SinkInv, NEW k \in Key, ProduceUnusable(k)
  PROVE  /\ LogKeeps
         /\ \A p \in Partition : \A j \in 1 .. Len(log'[p]) :
              \/ j \in 1 .. Len(log[p])
              \/ log'[p][j].op # "d" /\ ~log'[p][j].after
<1> USE SinkAssumption
<1>t. TypeOK
  BY DEF SinkInv
<1>1. PICK o \in {"malformed", "u"} :
        AppendAll(PartitionOf[k], <<[op |-> o, after |-> FALSE, key |-> k, lsn |-> 0]>>)
  BY DEF ProduceUnusable
<1> DEFINE r == [op |-> o, after |-> FALSE, key |-> k, lsn |-> 0]
           q == PartitionOf[k]
<1>2. r \in Record /\ r.op # "d" /\ ~r.after /\ q \in Partition
  BY DEF Record, CDCOp
<1>3. AppendAll(q, <<r>>)
  BY <1>1
<1> HIDE DEF r, q
<1> DEFINE s == <<r>>
<1>4. s \in Seq(Record) /\ \A i \in 1 .. Len(s) : s[i] = r
  BY <1>2
<1>5. AppendAll(q, s)
  BY <1>3
<1> HIDE DEF s
<1>6. \A p \in Partition :
        /\ Len(log[p]) \in Nat /\ Len(log'[p]) \in Nat
        /\ Len(log[p]) <= Len(log'[p])
        /\ \A i \in 1 .. Len(log[p]) : log'[p][i] = log[p][i]
        /\ \A j \in 1 .. Len(log'[p]) :
             \/ j \in 1 .. Len(log[p])
             \/ p = q /\ \E i \in 1 .. Len(s) : log'[p][j] = s[i]
  BY <1>t, <1>2, <1>4, <1>5, LogGrows
<1>7. LogKeeps
  BY ONLY <1>6 DEF LogKeeps
<1>8. \A p \in Partition : \A j \in 1 .. Len(log'[p]) :
        j \in 1 .. Len(log[p]) \/ log'[p][j] = r
  BY ONLY <1>4, <1>6
<1> QED  BY ONLY <1>2, <1>7, <1>8

\* A replay of the transformer repeats records of the same partition.
LEMMA ReproduceLog ==
  ASSUME SinkInv, NEW p \in Partition, Reproduce(p)
  PROVE  /\ LogKeeps
         /\ \A q \in Partition : \A j \in 1 .. Len(log'[q]) :
              \E i \in 1 .. Len(log[q]) : log'[q][j] = log[q][i]
<1>t. TypeOK
  BY DEF SinkInv
<1>1. PICK h \in Offsets(p) : AppendAll(p, SubSeq(log[p], h, Len(log[p])))
  BY DEF Reproduce
<1> DEFINE s == SubSeq(log[p], h, Len(log[p]))
<1>2. log[p] \in Seq(Record) /\ Len(log[p]) \in Nat /\ h \in 1 .. Len(log[p])
  BY <1>t, LenProperties DEF TypeOK, Offsets
<1>3. \A j \in h .. Len(log[p]) : log[p][j] \in Record
  BY <1>2, ElementOfSeq
<1>4. /\ s \in Seq(Record)
      /\ Len(s) = Len(log[p]) - h + 1
      /\ \A j \in 1 .. Len(log[p]) - h + 1 : s[j] = log[p][h + j - 1]
  BY <1>2, <1>3, SubSeqProperties
<1>5. ASSUME NEW j \in 1 .. Len(s)
      PROVE  \E i \in 1 .. Len(log[p]) : s[j] = log[p][i]
  <2>1. s[j] = log[p][h + j - 1] /\ h + j - 1 \in 1 .. Len(log[p])
    BY <1>2, <1>4
  <2> QED  BY <2>1
<1>6. AppendAll(p, s)
  BY <1>1
<1> HIDE DEF s
<1>7. \A q \in Partition :
        /\ Len(log[q]) \in Nat /\ Len(log'[q]) \in Nat
        /\ Len(log[q]) <= Len(log'[q])
        /\ \A i \in 1 .. Len(log[q]) : log'[q][i] = log[q][i]
        /\ \A j \in 1 .. Len(log'[q]) :
             \/ j \in 1 .. Len(log[q])
             \/ q = p /\ \E i \in 1 .. Len(s) : log'[q][j] = s[i]
  BY <1>t, <1>4, <1>6, LogGrows
<1>8. ASSUME NEW q \in Partition, NEW j \in 1 .. Len(log'[q])
      PROVE  \E i \in 1 .. Len(log[q]) : log'[q][j] = log[q][i]
  <2>1. CASE j \in 1 .. Len(log[q])
    BY <1>7, <2>1
  <2>2. CASE j \notin 1 .. Len(log[q])
    <3>1. q = p
      BY <1>7, <2>2
    <3>2. PICK h1 \in 1 .. Len(s) : log'[q][j] = s[h1]
      BY <1>7, <2>2
    <3> QED  BY <1>5, <3>1, <3>2
  <2> QED  BY <2>1, <2>2
<1> QED  BY <1>7, <1>8 DEF LogKeeps

\* The arrival of records touches neither Mongo nor the members.
LEMMA ArrivesKeeps ==
  ASSUME Arrives
  PROVE  /\ LogKeeps
         /\ UNCHANGED <<docs, late, committed, pending, inserting>>
BY DEF Arrives, LogKeeps, mongoVars, groupVars, memberVars

\* Nor does the source.
LEMMA SourceKeeps ==
  ASSUME SinkInv, Source
  PROVE  /\ LogKeeps
         /\ UNCHANGED <<docs, late, committed, pending, inserting>>
BY SourceArrives, ArrivesKeeps

\* A record in hand keeps its content.
LEMMA RecordKept ==
  ASSUME LogKeeps, NEW x, x[1] \in Partition, x[2] \in 1 .. Len(log[x[1]])
  PROVE  RecordAt(x)' = RecordAt(x)
BY DEF LogKeeps, RecordAt

\* No step but the source's writes to the topics.
LEMMA OthersKeepLog ==
  ASSUME Internal
  PROVE  UNCHANGED <<log, rows, lastLsn>>
BY DEF Internal, RunOnce, Failure, LateWrite, Poll, PollError, Decode, DecodeError, StartTable,
   ExecuteWrite, FindNothing, InsertFound, FinishTable, ApplyError, MarkCommit,
   CommitMarked, CommitError, Crash, Restart, Assign, sourceVars

-----------------------------------------------------------------------------
(* Every step preserves every part of the invariant.                       *)

\* Decode lets only writable records through, and nothing else is ever sent.
LEMMA SentStep ==
  ASSUME SinkInv, SentInv, Step
  PROVE  SentInv'
<1>t. TypeOK
  BY DEF SinkInv
<1>1. CASE Arrives
  <2>1. ASSUME NEW x, x \in late \/ \E m \in Member : x \in pending[m] \cup inserting[m]
        PROVE  RecordAt(x)' = RecordAt(x)
    <3>1. x[1] \in Partition /\ x[2] \in 1 .. Len(log[x[1]])
      BY <2>1, InHand
    <3> QED  BY <1>1, <3>1, ArrivesKeeps, RecordKept
  <2> QED  BY <1>1, <2>1, ArrivesKeeps DEF SentInv, Writable
<1>2. CASE Internal
  <2>1. \A x : RecordAt(x)' = RecordAt(x) /\ Writable(x)' = Writable(x)
    BY <1>2, OthersKeepLog DEF RecordAt, Writable
  <2>2. ASSUME late' \subseteq late,
               \A m \in Member : /\ pending'[m] \subseteq pending[m]
                                 /\ inserting'[m] \subseteq inserting[m]
        PROVE  SentInv'
    BY <2>1, <2>2 DEF SentInv
  <2>3. ASSUME NEW m \in Member,
               \/ Poll(m) \/ PollError(m) \/ StartTable(m) \/ FinishTable(m)
               \/ MarkCommit(m) \/ Restart(m) \/ \E p \in Partition : Assign(p, m)
        PROVE  SentInv'
    <3>1. UNCHANGED <<late, pending, inserting>>
      BY <2>3 DEF Poll, PollError, StartTable, FinishTable, MarkCommit, Restart, Assign,
         mongoVars
    <3> QED  BY <2>2, <3>1
  <2>4. ASSUME NEW x \in late, LateWrite(x)
        PROVE  SentInv'
    BY <2>2, <2>4 DEF LateWrite, memberVars
  <2>5. ASSUME NEW m \in Member, NEW x \in pending[m], ExecuteWrite(m, x)
        PROVE  SentInv'
    BY <1>t, <2>2, <2>5 DEF ExecuteWrite, TypeOK
  <2>6. ASSUME NEW m \in Member, NEW x \in inserting[m], InsertFound(m, x)
        PROVE  SentInv'
    BY <1>t, <2>2, <2>6 DEF InsertFound, TypeOK
  <2>7. ASSUME NEW m \in Member, NEW x \in pending[m], FindNothing(m, x)
        PROVE  SentInv'
    <3>1. /\ UNCHANGED late /\ RecordAt(x).op # "d" /\ Writable(x)
          /\ \A l \in Member : /\ pending'[l] \subseteq pending[l]
                               /\ inserting'[l] \subseteq inserting[l] \cup {x}
      BY <1>t, <2>7 DEF FindNothing, FindsNothing, TypeOK, SentInv, mongoVars
    <3> QED  BY <2>1, <3>1 DEF SentInv
  <2>8. ASSUME NEW m \in Member, Decode(m)
        PROVE  SentInv'
    <3>1. /\ UNCHANGED <<late, inserting>>
          /\ \A x \in EventsOf(batch[m]) : Writable(x)
          /\ \A l \in Member : pending'[l] = pending[l] \/ pending'[l] = EventsOf(batch[m])
      BY <1>t, <2>8 DEF Decode, TypeOK, EventsOf, Writable, mongoVars
    <3> QED  BY <2>1, <3>1 DEF SentInv
  <2>9. ASSUME NEW m \in Member,
               \/ DecodeError(m) \/ ApplyError(m) \/ CommitMarked(m) \/ CommitError(m)
               \/ Crash(m)
        PROVE  SentInv'
    <3>1. Forget(m) /\ (UNCHANGED late \/ LeaveBehind(m))
      BY <2>9 DEF DecodeError, ApplyError, CommitMarked, CommitError, Crash, GiveUp, mongoVars
    <3>2. late' \subseteq late \cup pending[m] \cup inserting[m]
      BY <1>t, <3>1, LeaveBehindType
    <3>3. \A l \in Member : /\ pending'[l] \subseteq pending[l]
                            /\ inserting'[l] \subseteq inserting[l]
      BY <1>t, <3>1 DEF Forget, TypeOK
    <3> QED  BY <2>1, <3>2, <3>3 DEF SentInv
  <2> QED
    BY <1>2, <2>3, <2>4, <2>5, <2>6, <2>7, <2>8, <2>9 DEF Internal, RunOnce, Failure
<1> QED  BY <1>1, <1>2 DEF Step

\* A write leaves the document as it is, removes it by a newer delete, or
\* makes it the image the record carries.
LEMMA WriteCases ==
  ASSUME SinkInv, NEW x,
         \/ x \in late
         \/ \E m \in Member : x \in pending[m],
         Writable(x),
         docs' = [docs EXCEPT ![KeyAt(x)] = Effect(RecordAt(x), @)]
  PROVE  LET k == KeyAt(x) IN
         /\ \A l \in Key : l # k => docs'[l] = docs[l]
         /\ \/ docs'[k] = docs[k]
            \/ /\ docs'[k] = Absent /\ docs[k] # Absent
               /\ RecordAt(x).op = "d" /\ docs[k] < RecordAt(x).lsn
            \/ /\ docs'[k] = RecordAt(x).lsn /\ IsUpsert(x)
               /\ docs[k] \in {Absent, NoLsn} \/ docs[k] < RecordAt(x).lsn
<1> DEFINE k == KeyAt(x)
           r == RecordAt(x)
           d == docs[k]
<1>1. k \in Key /\ docs \in [Key -> Nat \cup {Absent}]
  BY InHand DEF SinkInv, TypeOK
<1>2. docs'[k] = Effect(r, d) /\ \A l \in Key : l # k => docs'[l] = docs[l]
  BY <1>1
<1>3. r.op # "d" => IsUpsert(x)
  BY DEF Writable, BuildFails, IsUpsert
<1> HIDE DEF k, r, d
<1>4. \/ Effect(r, d) = d
      \/ Effect(r, d) = Absent /\ d # Absent /\ r.op = "d" /\ d < r.lsn
      \/ /\ Effect(r, d) = r.lsn /\ r.op # "d"
         /\ d \in {Absent, NoLsn} \/ d < r.lsn
  BY DEF Effect, Outcome, DeleteMatches, UpsertMatches, Absent, NoLsn, Lsn
<1> QED  BY <1>2, <1>3, <1>4 DEF k, r, d

\* An image in the log stays there.
LEMMA ImageKept ==
  ASSUME SinkInv, LogKeeps, NEW k \in Key, NEW i \in Offsets(PartitionOf[k])
  PROVE  /\ i \in Offsets(PartitionOf[k])'
         /\ log'[PartitionOf[k]][i] = log[PartitionOf[k]][i]
         /\ ImageAt(k, i)' <=> ImageAt(k, i)
         /\ IsUpsert(<<PartitionOf[k], i>>)' <=> IsUpsert(<<PartitionOf[k], i>>)
<1> DEFINE p == PartitionOf[k]
<1>1. p \in Partition
  BY SinkAssumption
<1>2. i \in 1 .. Len(log[p])
  BY DEF Offsets
<1>3. i \in 1 .. Len(log'[p]) /\ log'[p][i] = log[p][i]
  BY <1>1, <1>2 DEF LogKeeps
<1> QED  BY <1>3 DEF Offsets, ImageAt, IsUpsert, RecordAt

\* Every write leaves a real image of the row behind.
LEMMA ImageStep ==
  ASSUME SinkInv, SentInv, ImagesAreReal, Step
  PROVE  ImagesAreReal'
<1> USE SinkAssumption
<1>r. ASSUME NEW k \in Key, docs[k] # Absent, LogKeeps
      PROVE  \E i \in Offsets(PartitionOf[k])' :
               ImageAt(k, i)' /\ log'[PartitionOf[k]][i].lsn = docs[k]
  <2>1. PICK i \in Offsets(PartitionOf[k]) :
          ImageAt(k, i) /\ log[PartitionOf[k]][i].lsn = docs[k]
    BY <1>r DEF ImagesAreReal, ImageAt
  <2> QED  BY <1>r, <2>1, ImageKept
<1>k. LogKeeps
  <2>1. CASE Arrives
    BY <2>1, ArrivesKeeps
  <2>2. CASE Internal
    BY <2>2, OthersKeepLog, LenProperties DEF LogKeeps, SinkInv, TypeOK
  <2> QED  BY <2>1, <2>2 DEF Step
<1> SUFFICES ASSUME NEW k \in Key, docs'[k] # Absent
             PROVE  \E i \in Offsets(PartitionOf[k])' :
                      ImageAt(k, i)' /\ log'[PartitionOf[k]][i].lsn = docs'[k]
  BY DEF ImagesAreReal, ImageAt
<1>1. CASE docs'[k] = docs[k]
  BY <1>1, <1>k, <1>r
<1>x. ASSUME NEW x, x[1] \in Partition, x[2] \in 1 .. Len(log[x[1]]), x = <<x[1], x[2]>>,
             PartitionOf[KeyAt(x)] = x[1], IsUpsert(x), KeyAt(x) = k,
             docs'[k] = RecordAt(x).lsn, UNCHANGED log
      PROVE  \E i \in Offsets(PartitionOf[k])' :
               ImageAt(k, i)' /\ log'[PartitionOf[k]][i].lsn = docs'[k]
  <2>1. x[2] \in Offsets(PartitionOf[k])'
    BY <1>x DEF Offsets
  <2>2. ImageAt(k, x[2])'
    BY <1>x DEF ImageAt, KeyAt, RecordAt, IsUpsert
  <2>3. log'[PartitionOf[k]][x[2]].lsn = docs'[k]
    BY <1>x DEF RecordAt
  <2> QED  BY <2>1, <2>2, <2>3
<1>w. ASSUME NEW x, x \in late \/ \E m \in Member : x \in pending[m] \cup inserting[m]
      PROVE  /\ x[1] \in Partition /\ x[2] \in 1 .. Len(log[x[1]]) /\ x = <<x[1], x[2]>>
             /\ PartitionOf[KeyAt(x)] = x[1] /\ KeyAt(x) \in Key /\ Writable(x)
  BY <1>w, InHand DEF SentInv
<1>2. ASSUME NEW x, x \in late \/ \E m \in Member : x \in pending[m],
             docs' = [docs EXCEPT ![KeyAt(x)] = Effect(RecordAt(x), @)],
             UNCHANGED log, docs'[k] # docs[k]
      PROVE  \E i \in Offsets(PartitionOf[k])' :
               ImageAt(k, i)' /\ log'[PartitionOf[k]][i].lsn = docs'[k]
  <2>1. Writable(x)
    BY <1>2, <1>w
  <2>2. /\ KeyAt(x) = k
        /\ docs'[k] = RecordAt(x).lsn /\ IsUpsert(x)
    BY <1>2, <2>1, WriteCases
  <2> QED  BY <1>2, <1>w, <1>x, <2>2
<1>3. ASSUME NEW m \in Member, NEW x \in inserting[m], InsertFound(m, x), docs'[k] # docs[k]
      PROVE  \E i \in Offsets(PartitionOf[k])' :
               ImageAt(k, i)' /\ log'[PartitionOf[k]][i].lsn = docs'[k]
  <2>1. IsUpsert(x)
    BY <1>w DEF SentInv, Writable, BuildFails, IsUpsert
  <2>2. KeyAt(x) = k /\ docs'[k] = RecordAt(x).lsn
    BY <1>3, <1>w DEF InsertFound, SinkInv, TypeOK
  <2>3. UNCHANGED log
    BY <1>3 DEF InsertFound, sourceVars
  <2> QED  BY <1>w, <1>x, <2>1, <2>2, <2>3
<1>4. CASE docs'[k] # docs[k]
  <2>1. ~Arrives
    BY <1>4, ArrivesKeeps
  <2>2. \/ \E x \in late : LateWrite(x)
        \/ \E m \in Member : \/ \E x \in pending[m] : ExecuteWrite(m, x)
                             \/ \E x \in inserting[m] : InsertFound(m, x)
    BY <1>4, <2>1 DEF Step, Internal, RunOnce, Failure, Poll, PollError, Decode, DecodeError,
       StartTable, FindNothing, FinishTable, ApplyError, MarkCommit, CommitMarked,
       CommitError, Crash, Restart, Assign, mongoVars
  <2> QED
    BY <1>2, <1>3, <1>4, <2>2 DEF LateWrite, ExecuteWrite, sourceVars
<1> QED  BY <1>1, <1>4

\* The source numbers every change with a new LSN.
LEMMA LsnStep ==
  ASSUME SinkInv, LsnInv, Next
  PROVE  LsnInv'
<1>t. lastLsn \in Nat
  BY DEF SinkInv, TypeOK
<1>0. ASSUME NEW p \in Partition, NEW i \in 1 .. Len(log[p]), NEW j,
             log'[p][j] = log[p][i], Writable(<<p, j>>)',
             lastLsn' = lastLsn \/ lastLsn' = lastLsn + 1
      PROVE  log'[p][j].lsn \in 1 .. lastLsn'
  <2>1. Writable(<<p, i>>)
    BY <1>0 DEF Writable, RecordAt
  <2>2. log[p][i].lsn \in 1 .. lastLsn
    BY <2>1 DEF LsnInv
  <2> QED  BY <1>0, <1>t, <2>2
<1>1. ASSUME NEW k \in Key, NEW o \in SourceOps, Change(k, o)
      PROVE  LsnInv'
  <2> SUFFICES ASSUME NEW p \in Partition, NEW j \in 1 .. Len(log'[p]), Writable(<<p, j>>)'
               PROVE  log'[p][j].lsn \in 1 .. lastLsn'
    BY DEF LsnInv
  <2>1. lastLsn' = lastLsn + 1
    BY <1>1 DEF Change
  <2>2. CASE j \in 1 .. Len(log[p])
    <3>1. log'[p][j] = log[p][j]
      BY <1>1, <2>2, ChangeLog DEF LogKeeps
    <3> QED  BY <1>0, <2>1, <2>2, <3>1
  <2>3. CASE log'[p][j] = Event(o, k, lastLsn + 1)
    BY <1>t, <2>1, <2>3 DEF Event
  <2>4. CASE log'[p][j] = Tombstone(k)
    BY <2>4 DEF Tombstone, Writable, RecordAt, CDCOp
  <2> QED  BY <1>1, <2>2, <2>3, <2>4, ChangeLog
<1>2. ASSUME NEW k \in Key, ProduceUnusable(k)
      PROVE  LsnInv'
  <2> SUFFICES ASSUME NEW p \in Partition, NEW j \in 1 .. Len(log'[p]), Writable(<<p, j>>)'
               PROVE  log'[p][j].lsn \in 1 .. lastLsn'
    BY DEF LsnInv
  <2>1. lastLsn' = lastLsn
    BY <1>2 DEF ProduceUnusable
  <2>2. j \in 1 .. Len(log[p])
    BY <1>2, UnusableLog DEF Writable, BuildFails, RecordAt
  <2>3. log'[p][j] = log[p][j]
    BY <1>2, <2>2, UnusableLog DEF LogKeeps
  <2> QED  BY <1>0, <2>1, <2>2, <2>3
<1>3. ASSUME NEW q \in Partition, Reproduce(q)
      PROVE  LsnInv'
  <2> SUFFICES ASSUME NEW p \in Partition, NEW j \in 1 .. Len(log'[p]), Writable(<<p, j>>)'
               PROVE  log'[p][j].lsn \in 1 .. lastLsn'
    BY DEF LsnInv
  <2>1. lastLsn' = lastLsn
    BY <1>3 DEF Reproduce
  <2>2. PICK i \in 1 .. Len(log[p]) : log'[p][j] = log[p][i]
    BY <1>3, ReproduceLog
  <2> QED  BY <1>0, <2>1, <2>2
<1>4. CASE Internal
  BY <1>4, OthersKeepLog DEF LsnInv, Writable, RecordAt
<1> QED  BY <1>1, <1>2, <1>3, <1>4 DEF Next, Source, Internal

\* The source table and the log stay together.
LEMMA RowsStep ==
  ASSUME SinkInv, LsnInv, RowsInv, Next
  PROVE  RowsInv'
<1> USE SinkAssumption
<1>t. lastLsn \in Nat /\ rows \in [Key -> Lsn \cup {Absent}]
  BY DEF SinkInv, TypeOK
<1>k. LogKeeps
  <2>1. CASE Source
    BY <2>1, SourceKeeps
  <2>2. CASE Internal
    BY <2>2, OthersKeepLog, LenProperties DEF LogKeeps, SinkInv, TypeOK
  <2> QED  BY <2>1, <2>2 DEF Next, Internal
<1>n. ASSUME NEW k \in Key, NeverDeleted(k)'
      PROVE  NeverDeleted(k)
  <2>1. PartitionOf[k] \in Partition
    OBVIOUS
  <2>2. \A i \in Offsets(PartitionOf[k]) :
          /\ i \in Offsets(PartitionOf[k])'
          /\ log'[PartitionOf[k]][i] = log[PartitionOf[k]][i]
    BY <1>k, ImageKept
  <2> QED  BY <1>n, <2>2 DEF NeverDeleted
<1>o. ASSUME NEW k \in Key, rows[k] # Absent
      PROVE  \E i \in Offsets(PartitionOf[k])' :
               ImageAt(k, i)' /\ log'[PartitionOf[k]][i].lsn = rows[k]
  <2>1. PICK i \in Offsets(PartitionOf[k]) :
          ImageAt(k, i) /\ log[PartitionOf[k]][i].lsn = rows[k]
    BY <1>o DEF RowsInv
  <2> QED  BY <1>k, <2>1, ImageKept
<1>u. ASSUME NEW k \in Key, NeverDeleted(k)', NEW i \in Offsets(PartitionOf[k]), NEW j,
             log'[PartitionOf[k]][j] = log[PartitionOf[k]][i], ImageAt(k, j)'
      PROVE  log'[PartitionOf[k]][j].lsn <= rows[k] /\ log'[PartitionOf[k]][j].lsn \in 1 .. lastLsn
  <2>1. ImageAt(k, i)
    BY <1>u DEF ImageAt, IsUpsert, RecordAt
  <2>2. log[PartitionOf[k]][i].lsn <= rows[k]
    BY <1>n, <1>u, <2>1 DEF RowsInv
  <2>3. Writable(<<PartitionOf[k], i>>)
    BY <2>1 DEF ImageAt, IsUpsert, Writable, BuildFails
  <2>4. log[PartitionOf[k]][i].lsn \in 1 .. lastLsn
    BY <2>3 DEF LsnInv, Offsets
  <2> QED  BY <1>u, <2>2, <2>4
<1>1. ASSUME NEW k \in Key, NEW o \in SourceOps, Change(k, o)
      PROVE  RowsInv'
  <2>1. /\ lastLsn' = lastLsn + 1
        /\ rows' = [rows EXCEPT ![k] = IF o = "d" THEN Absent ELSE lastLsn + 1]
    BY <1>1 DEF Change
  <2> DEFINE e == Event(o, k, lastLsn + 1)
  <2>2. ASSUME NEW l \in Key, rows'[l] # Absent
        PROVE  \E i \in Offsets(PartitionOf[l])' :
                 ImageAt(l, i)' /\ log'[PartitionOf[l]][i].lsn = rows'[l]
    <3>1. CASE l # k
      BY <1>o, <1>t, <2>1, <2>2, <3>1
    <3>2. CASE l = k
      <4>1. o # "d" /\ rows'[k] = lastLsn + 1
        BY <1>t, <2>1, <2>2, <3>2
      <4>2. PICK j \in 1 .. Len(log'[PartitionOf[k]]) : log'[PartitionOf[k]][j] = e
        BY <1>1, ChangeLog
      <4>3. o \in CDCOp \ {"d"}
        BY <4>1 DEF CDCOp
      <4>4. e.op = o /\ e.key = k /\ e.lsn = lastLsn + 1 /\ e.after
        BY <4>1 DEF Event
      <4> HIDE DEF e
      <4>5. ImageAt(k, j)' /\ log'[PartitionOf[k]][j].lsn = lastLsn + 1
        BY <4>2, <4>3, <4>4 DEF ImageAt, IsUpsert, RecordAt
      <4> QED  BY <3>2, <4>1, <4>5 DEF Offsets
    <3> QED  BY <3>1, <3>2
  <2>3. ASSUME NEW l \in Key, NeverDeleted(l)', NEW j \in Offsets(PartitionOf[l])',
               ImageAt(l, j)'
        PROVE  log'[PartitionOf[l]][j].lsn <= rows'[l]
    <3>1. o = "d" => l # k
      <4>1. PICK i \in 1 .. Len(log'[PartitionOf[k]]) : log'[PartitionOf[k]][i] = e
        BY <1>1, ChangeLog
      <4>2. e.op = o /\ e.key = k
        BY DEF Event
      <4> QED  BY <2>3, <4>1, <4>2 DEF NeverDeleted, Offsets
    <3>2. CASE j \in 1 .. Len(log[PartitionOf[l]])
      <4>1. j \in Offsets(PartitionOf[l]) /\ log'[PartitionOf[l]][j] = log[PartitionOf[l]][j]
        BY <1>k, <3>2, ImageKept DEF Offsets
      <4>2. log'[PartitionOf[l]][j].lsn <= rows[l] /\ log'[PartitionOf[l]][j].lsn \in 1 .. lastLsn
        BY <1>u, <2>3, <4>1
      <4> QED  BY <1>t, <2>1, <3>1, <4>2
    <3>3. CASE j \notin 1 .. Len(log[PartitionOf[l]])
      <4>1. log'[PartitionOf[l]][j] = e \/ log'[PartitionOf[l]][j] = Tombstone(k)
        BY <1>1, <2>3, <3>3, ChangeLog DEF Offsets
      <4>2. log'[PartitionOf[l]][j] # Tombstone(k)
        BY <2>3 DEF ImageAt, IsUpsert, RecordAt, Tombstone, CDCOp
      <4>3. l = k
        BY <2>3, <4>1, <4>2 DEF ImageAt, Event
      <4>4. log'[PartitionOf[l]][j].lsn = lastLsn + 1
        BY <4>1, <4>2 DEF Event
      <4> QED  BY <1>t, <2>1, <3>1, <4>3, <4>4
    <3> QED  BY <3>2, <3>3
  <2> QED  BY <2>2, <2>3 DEF RowsInv
<1>2. ASSUME UNCHANGED rows,
             \A q \in Partition : \A j \in 1 .. Len(log'[q]) :
               \/ \E i \in 1 .. Len(log[q]) : log'[q][j] = log[q][i]
               \/ log'[q][j].op # "d" /\ ~log'[q][j].after
      PROVE  RowsInv'
  <2>1. ASSUME NEW l \in Key, NeverDeleted(l)', NEW j \in Offsets(PartitionOf[l])',
               ImageAt(l, j)'
        PROVE  log'[PartitionOf[l]][j].lsn <= rows'[l]
    <3>1. PartitionOf[l] \in Partition /\ j \in 1 .. Len(log'[PartitionOf[l]])
      BY <2>1 DEF Offsets
    <3>2. log'[PartitionOf[l]][j].after
      BY <2>1 DEF ImageAt, IsUpsert, RecordAt
    <3>3. PICK i \in 1 .. Len(log[PartitionOf[l]]) :
            log'[PartitionOf[l]][j] = log[PartitionOf[l]][i]
      BY <1>2, <3>1, <3>2
    <3> QED  BY <1>2, <1>u, <2>1, <3>3 DEF Offsets
  <2> QED  BY <1>2, <1>o, <2>1 DEF RowsInv
<1>3. ASSUME NEW k \in Key, ProduceUnusable(k)
      PROVE  RowsInv'
  <2>1. UNCHANGED rows
    BY <1>3 DEF ProduceUnusable
  <2>2. ASSUME NEW q \in Partition, NEW j \in 1 .. Len(log'[q])
        PROVE  \/ \E i \in 1 .. Len(log[q]) : log'[q][j] = log[q][i]
               \/ log'[q][j].op # "d" /\ ~log'[q][j].after
    BY <1>3, <1>k, UnusableLog DEF LogKeeps
  <2> QED  BY <1>2, <2>1, <2>2
<1>4. ASSUME NEW q \in Partition, Reproduce(q)
      PROVE  RowsInv'
  <2>1. UNCHANGED rows
    BY <1>4 DEF Reproduce
  <2> QED  BY <1>2, <1>4, <2>1, ReproduceLog
<1>5. CASE Internal
  BY <1>5, OthersKeepLog DEF RowsInv, ImageAt, IsUpsert, RecordAt, NeverDeleted, Offsets
<1> QED  BY <1>1, <1>3, <1>4, <1>5 DEF Next, Source, Internal

-----------------------------------------------------------------------------
(* The theorems about the documents.                                       *)

\* The inductive invariant holds initially.
LEMMA MirrorInit == Init => MirrorInv
<1> SUFFICES ASSUME Init PROVE MirrorInv
  OBVIOUS
<1> USE SinkAssumption DEF Init
<1>1. SinkInv
  BY InvInit
<1>2. SentInv /\ ImagesAreReal
  BY DEF SentInv, ImagesAreReal
<1>3. LsnInv /\ RowsInv
  BY EmptySeq DEF LsnInv, RowsInv, Offsets
<1> QED  BY <1>1, <1>2, <1>3 DEF MirrorInv

\* Every step, and every stuttering step, keeps the inductive invariant.
LEMMA MirrorNext == MirrorInv /\ [Next]_vars => MirrorInv'
<1> SUFFICES ASSUME MirrorInv, [Next]_vars PROVE MirrorInv'
  OBVIOUS
<1>1. SinkInv'
  BY InvNext DEF MirrorInv
<1>2. CASE Next
  BY <1>1, <1>2, NextIsStep, SentStep, LsnStep, RowsStep, ImageStep DEF MirrorInv
<1>3. CASE UNCHANGED vars
  <2>1. UNCHANGED <<log, rows, lastLsn, docs, late, pending, inserting>>
    BY <1>3 DEF vars, sourceVars, mongoVars, memberVars
  <2>2. SentInv' /\ LsnInv'
    BY <2>1 DEF MirrorInv, SentInv, LsnInv, Writable, RecordAt
  <2>3. RowsInv' /\ ImagesAreReal'
    BY <2>1 DEF MirrorInv, RowsInv, ImagesAreReal, ImageAt, IsUpsert, RecordAt,
       NeverDeleted, Offsets
  <2> QED  BY <1>1, <2>2, <2>3 DEF MirrorInv
<1> QED  BY <1>2, <1>3

\* The invariant holds of every reachable state.
THEOREM MirrorInvariance == Spec => []MirrorInv
BY MirrorInit, MirrorNext, PTL DEF Spec

\* BuildWriteOp and the upserts: whatever fails, races or comes late, a
\* document only ever holds an image the source produced for that very row.
THEOREM NoForeignImage == Spec => []ImagesAreReal
<1>1. MirrorInv => ImagesAreReal
  BY DEF MirrorInv
<1> QED  BY <1>1, MirrorInvariance, PTL

\* Whatever fails, races or comes late: once everything is committed and
\* nothing runs, a row that was never deleted is in Mongo exactly as it is in
\* Postgres, unless RunOnce gave up one of its events or took one for stale.
THEOREM MirrorAtRest == Spec => []UndeletedMirror
<1>1. MirrorInv /\ NoSilentLoss => UndeletedMirror
  <2> SUFFICES ASSUME MirrorInv, NoSilentLoss, Quiescent, NEW k \in Key, NeverDeleted(k),
                      k \notin LostRows
               PROVE  docs[k] = rows[k]
    BY DEF UndeletedMirror
  <2> DEFINE p == PartitionOf[k]
  <2>1. /\ p \in Partition
        /\ docs[k] \in Nat \cup {Absent} /\ rows[k] \in Lsn \cup {Absent}
    BY SinkAssumption DEF MirrorInv, SinkInv, TypeOK
  <2>2. committed[p] = Len(log[p])
    BY <2>1 DEF Quiescent
  <2>3. rows[k] # Absent => rows[k] <= docs[k]
    <3> SUFFICES ASSUME rows[k] # Absent PROVE rows[k] <= docs[k]
      OBVIOUS
    <3>1. PICK i \in Offsets(p) : ImageAt(k, i) /\ log[p][i].lsn = rows[k]
      BY DEF MirrorInv, RowsInv
    <3>2. IsUpsert(<<p, i>>) /\ KeyAt(<<p, i>>) = k /\ RecordAt(<<p, i>>).lsn = rows[k]
      BY <3>1 DEF ImageAt, KeyAt, RecordAt
    <3>3. <<p, i>> \in CommittedUpserts
      BY <2>1, <2>2, <3>1, <3>2 DEF CommittedUpserts, Offsets
    <3>4. <<p, i>> \notin abandoned \cup swallowed
      BY <3>2 DEF LostRows
    <3>5. docs[k] >= rows[k]
      BY <3>2, <3>3, <3>4 DEF NoSilentLoss, Reflected
    <3> QED  BY <2>1, <3>5 DEF Absent, Lsn
  <2>4. docs[k] # Absent => docs[k] <= rows[k]
    <3> SUFFICES ASSUME docs[k] # Absent PROVE docs[k] <= rows[k]
      OBVIOUS
    <3>1. PICK i \in Offsets(p) : ImageAt(k, i) /\ log[p][i].lsn = docs[k]
      BY DEF MirrorInv, ImagesAreReal, ImageAt
    <3> QED  BY <3>1 DEF MirrorInv, RowsInv
  <2> QED  BY <2>1, <2>3, <2>4 DEF Absent, Lsn
<1> QED  BY <1>1, MirrorInvariance, AtLeastOnce, PTL

-----------------------------------------------------------------------------
(* The sink implements RowReplica.                                         *)

\* The i-th record of k's partition deletes row k.
DeleteAt(k, i) == log[PartitionOf[k]][i].key = k /\ IsDelete(<<PartitionOf[k], i>>)

\* The state of RowReplica under the refinement mapping.
Images  == [k \in Key |-> LsnsOf(k, Len(log[PartitionOf[k]]), IsUpsert)]
Deletes == [k \in Key |-> LsnsOf(k, Len(log[PartitionOf[k]]), IsDelete)]
Acked   == [k \in Key |-> LsnsOf(k, committed[PartitionOf[k]], IsUpsert)]
Lost    == [k \in Key |-> LostLsns(k)]

\* What the mapped sets hold, in every state.
LEMMA MappedSets ==
  ASSUME NEW k \in Key, NEW l
  PROVE  /\ l \in Images[k] <=>
              \E i \in Offsets(PartitionOf[k]) :
                ImageAt(k, i) /\ log[PartitionOf[k]][i].lsn = l
         /\ l \in Deletes[k] <=>
              \E i \in Offsets(PartitionOf[k]) :
                DeleteAt(k, i) /\ log[PartitionOf[k]][i].lsn = l
         /\ l \in Acked[k] <=>
              \E i \in 1 .. committed[PartitionOf[k]] :
                ImageAt(k, i) /\ log[PartitionOf[k]][i].lsn = l
         /\ l \in Lost[k] <=>
              \E x \in abandoned \cup swallowed :
                KeyAt(x) = k /\ IsUpsert(x) /\ RecordAt(x).lsn = l
BY DEF Images, Deletes, Acked, Lost, LsnsOf, LostLsns, ImageAt, DeleteAt, Offsets

\* The same for the state after a step.
LEMMA MappedSetsNext ==
  ASSUME NEW k \in Key, NEW l
  PROVE  /\ l \in Images'[k] <=>
              \E i \in Offsets(PartitionOf[k])' :
                ImageAt(k, i)' /\ log'[PartitionOf[k]][i].lsn = l
         /\ l \in Deletes'[k] <=>
              \E i \in Offsets(PartitionOf[k])' :
                DeleteAt(k, i)' /\ log'[PartitionOf[k]][i].lsn = l
         /\ l \in Acked'[k] <=>
              \E i \in 1 .. committed'[PartitionOf[k]] :
                ImageAt(k, i)' /\ log'[PartitionOf[k]][i].lsn = l
         /\ l \in Lost'[k] <=>
              \E x \in abandoned' \cup swallowed' :
                KeyAt(x)' = k /\ IsUpsert(x)' /\ RecordAt(x)'.lsn = l
BY DEF Images, Deletes, Acked, Lost, LsnsOf, LostLsns, ImageAt, DeleteAt, Offsets

\* The initial states map to initial states.
LEMMA ReplicaInit == Init => Replica!Init
<1> SUFFICES ASSUME Init PROVE Replica!Init
  OBVIOUS
<1>1. \A k \in Key : Len(log[PartitionOf[k]]) = 0 /\ committed[PartitionOf[k]] = 0
  BY SinkAssumption, EmptySeq DEF Init
<1>2. \A k \in Key : Offsets(PartitionOf[k]) = {} /\ 1 .. committed[PartitionOf[k]] = {}
  BY <1>1 DEF Offsets
<1>3. \A k \in Key : Images[k] = {} /\ Deletes[k] = {} /\ Acked[k] = {}
  BY <1>2, MappedSets
<1>4. abandoned \cup swallowed = {}
  BY DEF Init
<1>5. \A k \in Key : Lost[k] = {}
  BY <1>4, MappedSets
<1>6. /\ Images = [k \in Key |-> {}] /\ Deletes = [k \in Key |-> {}]
      /\ Acked = [k \in Key |-> {}] /\ Lost = [k \in Key |-> {}]
  BY <1>3, <1>5 DEF Images, Deletes, Acked, Lost
<1> QED  BY <1>6 DEF Replica!Init, Init, Images, Deletes, Acked, Lost

\* Without a record on the topics and without a commit the mapped sets stay.
LEMMA MappedKept ==
  ASSUME UNCHANGED log
  PROVE  /\ UNCHANGED <<Images, Deletes>>
         /\ committed' = committed => UNCHANGED Acked
         /\ abandoned' = abandoned /\ swallowed' = swallowed => UNCHANGED Lost
<1>1. ASSUME NEW k \in Key
      PROVE  Images'[k] = Images[k] /\ Deletes'[k] = Deletes[k]
  <2>1. \A n : n \in Images'[k] <=> n \in Images[k]
    BY MappedSets, MappedSetsNext DEF ImageAt, IsUpsert, RecordAt, Offsets
  <2>2. Offsets(PartitionOf[k])' = Offsets(PartitionOf[k]) /\ \A i : DeleteAt(k, i)' <=> DeleteAt(k, i)
    BY DEF DeleteAt, IsDelete, RecordAt, Offsets
  <2>3. \A n : n \in Deletes'[k] <=> n \in Deletes[k]
    BY <2>2, MappedSets, MappedSetsNext
  <2> QED  BY <2>1, <2>3
<1>2. ASSUME committed' = committed, NEW k \in Key
      PROVE  Acked'[k] = Acked[k]
  <2>1. \A n : n \in Acked'[k] <=> n \in Acked[k]
    BY <1>2, MappedSets, MappedSetsNext DEF ImageAt, IsUpsert, RecordAt
  <2> QED  BY <2>1
<1>3. UNCHANGED Images /\ UNCHANGED Deletes
  BY <1>1 DEF Images, Deletes
<1>4. committed' = committed => UNCHANGED Acked
  BY <1>2 DEF Acked
<1>5. ASSUME abandoned' = abandoned, swallowed' = swallowed
      PROVE  UNCHANGED Lost
  BY <1>5 DEF Lost, LostLsns, KeyAt, IsUpsert, RecordAt
<1> QED  BY <1>3, <1>4, <1>5

\* The offsets of the group are offsets of the log.
LEMMA CommittedInLog ==
  ASSUME SinkInv, NEW p \in Partition
  PROVE  committed[p] <= Len(log[p])
<1>1. committed[p] \in Nat /\ Len(log[p]) \in Nat
  BY LenProperties DEF SinkInv, TypeOK
<1>2. CASE committed[p] = 0
  BY <1>1, <1>2
<1>3. CASE committed[p] # 0
  <2>1. committed[p] \in 1 .. committed[p]
    BY <1>1, <1>3
  <2>2. <<p, committed[p]>> \in executed \cup abandoned
    BY <2>1 DEF SinkInv, OffsetInv, Settled
  <2> QED  BY <2>2, InHand
<1> QED  BY <1>2, <1>3

\* What was given up or swallowed was published, and records that arrive do
\* not change what it is.
LEMMA LostKept ==
  ASSUME SinkInv, LogKeeps, UNCHANGED <<abandoned, swallowed>>
  PROVE  UNCHANGED Lost
<1>1. ASSUME NEW x \in abandoned \cup swallowed
      PROVE  RecordAt(x)' = RecordAt(x)
  BY InHand, RecordKept
<1>2. ASSUME NEW k \in Key PROVE Lost'[k] = Lost[k]
  <2>1. \A n : n \in Lost'[k] <=> n \in Lost[k]
    BY <1>1, MappedSets, MappedSetsNext DEF KeyAt, IsUpsert
  <2> QED  BY <2>1
<1> QED  BY <1>2 DEF Lost

\* Giving records up, or swallowing them, is a Lose of RowReplica.
LEMMA LosingLoses ==
  ASSUME SinkInv, SinkInv', UNCHANGED <<log, docs, committed>>,
         abandoned \subseteq abandoned', swallowed \subseteq swallowed'
  PROVE  Replica!Lose
<1>1. UNCHANGED <<Images, Deletes, Acked>>
  BY MappedKept
<1>2. \A x : /\ RecordAt(x)' = RecordAt(x) /\ KeyAt(x)' = KeyAt(x)
             /\ IsUpsert(x)' <=> IsUpsert(x)
  BY DEF RecordAt, KeyAt, IsUpsert
<1>3. ASSUME NEW k \in Key
      PROVE  Lost[k] \subseteq Lost'[k] /\ Lost'[k] \subseteq Images[k]
  <2>1. ASSUME NEW n \in Lost[k] PROVE n \in Lost'[k]
    <3>1. PICK x \in abandoned \cup swallowed : KeyAt(x) = k /\ IsUpsert(x) /\ RecordAt(x).lsn = n
      BY MappedSets
    <3> QED  BY <1>2, <3>1, MappedSetsNext
  <2>2. ASSUME NEW n \in Lost'[k] PROVE n \in Images[k]
    <3>1. PICK x \in abandoned' \cup swallowed' :
            KeyAt(x)' = k /\ IsUpsert(x)' /\ RecordAt(x)'.lsn = n
      BY MappedSetsNext
    <3>2. /\ x \in Partition \X (Nat \ {0}) /\ x[2] <= Len(log[x[1]])
      BY <3>1 DEF SinkInv, TypeOK, RecordIds, LogInv
    <3>3. x[1] \in Partition /\ x[2] \in 1 .. Len(log[x[1]]) /\ x = <<x[1], x[2]>>
      BY <3>2, LenProperties DEF SinkInv, TypeOK
    <3>4. PartitionOf[KeyAt(x)] = x[1]
      BY <3>3 DEF SinkInv, LogInv, KeyAt, RecordAt
    <3>5. KeyAt(x) = k /\ IsUpsert(x) /\ RecordAt(x).lsn = n
      BY <1>2, <3>1
    <3>6. x[2] \in Offsets(PartitionOf[k]) /\ ImageAt(k, x[2]) /\ log[PartitionOf[k]][x[2]].lsn = n
      BY <3>3, <3>4, <3>5 DEF Offsets, ImageAt, IsUpsert, KeyAt, RecordAt
    <3> QED  BY <3>6, MappedSets
  <2> QED  BY <2>1, <2>2
<1> QED  BY <1>1, <1>3 DEF Replica!Lose, Images, Deletes, Acked, Lost

\* A row change publishes one image or one delete, newer than all before.
LEMMA ChangePublishes ==
  ASSUME MirrorInv, NEW k \in Key, NEW o \in SourceOps, Change(k, o)
  PROVE  Replica!Publish(k)
<1> USE SinkAssumption
<1> DEFINE l == lastLsn + 1
           e == Event(o, k, l)
           q == PartitionOf[k]
<1>i. SinkInv /\ LsnInv /\ lastLsn \in Nat
  BY DEF MirrorInv, SinkInv, TypeOK
<1>k. LogKeeps /\ UNCHANGED <<docs, committed>>
  BY <1>i, ChangeLog, SourceKeeps DEF Source
<1>e. e.op = o /\ e.key = k /\ e.lsn = l /\ (e.after <=> o # "d") /\ o \in CDCOp
  BY DEF Event, CDCOp
<1>l. /\ \A p \in Partition : \A j \in 1 .. Len(log'[p]) :
           \/ j \in 1 .. Len(log[p])
           \/ p = q /\ (log'[p][j] = e \/ log'[p][j] = Tombstone(k))
      /\ \E j \in 1 .. Len(log'[q]) : log'[q][j] = e
  BY <1>i, ChangeLog
<1> HIDE DEF e
<1>t. Tombstone(k).op \notin CDCOp
  BY DEF Tombstone, CDCOp
\* The records of the log keep their roles.
<1>1. ASSUME NEW j \in Key, NEW i \in Offsets(PartitionOf[j])
      PROVE  /\ i \in Offsets(PartitionOf[j])'
             /\ log'[PartitionOf[j]][i] = log[PartitionOf[j]][i]
             /\ ImageAt(j, i)' <=> ImageAt(j, i)
             /\ DeleteAt(j, i)' <=> DeleteAt(j, i)
  BY <1>i, <1>k, ImageKept DEF DeleteAt, IsDelete, RecordAt
\* A new record is an image or a delete only if it is the event.
<1>2. ASSUME NEW j \in Key, NEW i \in Offsets(PartitionOf[j])', i \notin Offsets(PartitionOf[j])
      PROVE  /\ ImageAt(j, i)' => j = k /\ o # "d" /\ log'[PartitionOf[j]][i].lsn = l
             /\ DeleteAt(j, i)' => j = k /\ o = "d" /\ log'[PartitionOf[j]][i].lsn = l
  <2>1. log'[PartitionOf[j]][i] = e \/ log'[PartitionOf[j]][i] = Tombstone(k)
    BY <1>l, <1>2 DEF Offsets
  <2>2. CASE log'[PartitionOf[j]][i] = e
    BY <1>e, <2>2 DEF ImageAt, DeleteAt, IsUpsert, IsDelete, RecordAt
  <2>3. CASE log'[PartitionOf[j]][i] = Tombstone(k)
    BY <1>t, <2>3 DEF ImageAt, DeleteAt, IsUpsert, IsDelete, RecordAt, CDCOp
  <2> QED  BY <2>1, <2>2, <2>3
<1>3. PICK h \in Offsets(q)' : log'[q][h] = e
  BY <1>l DEF Offsets
<1>4. (o # "d" => ImageAt(k, h)') /\ (o = "d" => DeleteAt(k, h)')
  BY <1>e, <1>3 DEF ImageAt, DeleteAt, IsUpsert, IsDelete, RecordAt
<1>5. ASSUME NEW j \in Key
      PROVE  /\ Images'[j] = IF j = k /\ o # "d" THEN Images[j] \cup {l} ELSE Images[j]
             /\ Deletes'[j] = IF j = k /\ o = "d" THEN Deletes[j] \cup {l} ELSE Deletes[j]
  <2>1. ASSUME NEW n, n \in Images[j] PROVE n \in Images'[j]
    BY <1>1, <2>1, MappedSets, MappedSetsNext
  <2>2. ASSUME NEW n, n \in Deletes[j] PROVE n \in Deletes'[j]
    BY <1>1, <2>2, MappedSets, MappedSetsNext
  <2>3. ASSUME NEW n, n \in Images'[j]
        PROVE  n \in Images[j] \/ (j = k /\ o # "d" /\ n = l)
    <3>1. PICK i \in Offsets(PartitionOf[j])' :
            ImageAt(j, i)' /\ log'[PartitionOf[j]][i].lsn = n
      BY <2>3, MappedSetsNext
    <3>2. CASE i \in Offsets(PartitionOf[j])
      BY <1>1, <3>1, <3>2, MappedSets
    <3> QED  BY <1>2, <3>1, <3>2
  <2>4. ASSUME NEW n, n \in Deletes'[j]
        PROVE  n \in Deletes[j] \/ (j = k /\ o = "d" /\ n = l)
    <3>1. PICK i \in Offsets(PartitionOf[j])' :
            DeleteAt(j, i)' /\ log'[PartitionOf[j]][i].lsn = n
      BY <2>4, MappedSetsNext
    <3>2. CASE i \in Offsets(PartitionOf[j])
      BY <1>1, <3>1, <3>2, MappedSets
    <3> QED  BY <1>2, <3>1, <3>2
  <2>5. j = k /\ o # "d" => l \in Images'[j]
    BY <1>e, <1>3, <1>4, MappedSetsNext
  <2>6. j = k /\ o = "d" => l \in Deletes'[j]
    BY <1>e, <1>3, <1>4, MappedSetsNext
  <2> HIDE DEF l
  <2>7. Images'[j] = IF j = k /\ o # "d" THEN Images[j] \cup {l} ELSE Images[j]
    <3>1. CASE j = k /\ o # "d"
      BY <2>1, <2>3, <2>5, <3>1
    <3>2. CASE ~(j = k /\ o # "d")
      BY <2>1, <2>3, <3>2
    <3> QED  BY <3>1, <3>2
  <2>8. Deletes'[j] = IF j = k /\ o = "d" THEN Deletes[j] \cup {l} ELSE Deletes[j]
    <3>1. CASE j = k /\ o = "d"
      BY <2>2, <2>4, <2>6, <3>1
    <3>2. CASE ~(j = k /\ o = "d")
      BY <2>2, <2>4, <3>2
    <3> QED  BY <3>1, <3>2
  <2> QED  BY <2>7, <2>8
<1>6. ASSUME NEW j \in Key
      PROVE  Acked'[j] = Acked[j]
  <2>1. \A i \in 1 .. committed[PartitionOf[j]] : i \in Offsets(PartitionOf[j])
    <3>1. PartitionOf[j] \in Partition
      OBVIOUS
    <3>2. committed[PartitionOf[j]] \in Nat /\ Len(log[PartitionOf[j]]) \in Nat
      BY <1>i, <1>k, <3>1 DEF SinkInv, TypeOK, LogKeeps
    <3> QED  BY <1>i, <3>1, <3>2, CommittedInLog DEF Offsets
  <2>2. \A n : n \in Acked'[j] <=> n \in Acked[j]
    BY <1>1, <1>k, <2>1, MappedSets, MappedSetsNext
  <2> QED  BY <2>2
<1>7. ASSUME NEW j \in Key, NEW n \in Images[j] \cup Deletes[j]
      PROVE  n < l
  <2>1. PICK i \in Offsets(PartitionOf[j]) :
          (ImageAt(j, i) \/ DeleteAt(j, i)) /\ log[PartitionOf[j]][i].lsn = n
    BY MappedSets
  <2>2. Writable(<<PartitionOf[j], i>>)
    BY <2>1 DEF ImageAt, DeleteAt, IsUpsert, IsDelete, Writable, BuildFails, CDCOp
  <2>3. n \in 1 .. lastLsn
    BY <1>i, <2>1, <2>2 DEF LsnInv, Offsets
  <2> QED  BY <1>i, <2>3
<1>8. l \in Images'[k] \cup Deletes'[k]
  BY <1>5
<1> HIDE DEF l
<1>9. \/ Images' = [Images EXCEPT ![k] = @ \cup {l}] /\ Deletes' = Deletes
      \/ Deletes' = [Deletes EXCEPT ![k] = @ \cup {l}] /\ Images' = Images
  BY <1>5 DEF Images, Deletes
<1>10. Acked' = Acked
  BY <1>6 DEF Acked
<1>11. Lost' = Lost
  BY <1>i, <1>k, LostKept DEF Change, historyVars
<1> QED
  BY <1>k, <1>7, <1>8, <1>9, <1>10, <1>11 DEF Replica!Publish, Images, Deletes, Acked, Lost

\* A replay publishes nothing, it only repeats images and deletes; nor does a
\* record the sink cannot apply.
LEMMA NoiseStutters ==
  ASSUME MirrorInv, Source, UNCHANGED <<abandoned, swallowed>>,
         \A p \in Partition : \A j \in 1 .. Len(log'[p]) :
           \/ \E i \in 1 .. Len(log[p]) : log'[p][j] = log[p][i]
           \/ log'[p][j].op # "d" /\ ~log'[p][j].after
  PROVE  UNCHANGED <<Images, Deletes, docs, Acked, Lost>>
<1> USE SinkAssumption
<1>i. SinkInv
  BY DEF MirrorInv
<1>k. LogKeeps /\ UNCHANGED <<docs, committed>>
  BY <1>i, SourceKeeps
<1>1. ASSUME NEW k \in Key, NEW i \in Offsets(PartitionOf[k])
      PROVE  /\ i \in Offsets(PartitionOf[k])'
             /\ log'[PartitionOf[k]][i] = log[PartitionOf[k]][i]
             /\ ImageAt(k, i)' <=> ImageAt(k, i)
             /\ DeleteAt(k, i)' <=> DeleteAt(k, i)
  BY <1>i, <1>k, ImageKept DEF DeleteAt, IsDelete, RecordAt
<1>2. ASSUME NEW k \in Key, NEW j \in Offsets(PartitionOf[k])',
             ImageAt(k, j)' \/ DeleteAt(k, j)'
      PROVE  \E i \in Offsets(PartitionOf[k]) :
               /\ log'[PartitionOf[k]][j] = log[PartitionOf[k]][i]
               /\ ImageAt(k, j)' => ImageAt(k, i)
               /\ DeleteAt(k, j)' => DeleteAt(k, i)
  <2>0. log'[PartitionOf[k]][j].op = "d" \/ log'[PartitionOf[k]][j].after
    BY <1>2 DEF ImageAt, DeleteAt, IsUpsert, IsDelete, RecordAt
  <2>1. PICK i \in 1 .. Len(log[PartitionOf[k]]) :
          log'[PartitionOf[k]][j] = log[PartitionOf[k]][i]
    BY <2>0 DEF Offsets
  <2>2. (ImageAt(k, j)' => ImageAt(k, i)) /\ (DeleteAt(k, j)' => DeleteAt(k, i))
    BY <2>1 DEF ImageAt, DeleteAt, IsUpsert, IsDelete, RecordAt
  <2> QED  BY <2>1, <2>2 DEF Offsets
<1>3. ASSUME NEW k \in Key
      PROVE  Images'[k] = Images[k] /\ Deletes'[k] = Deletes[k] /\ Acked'[k] = Acked[k]
  <2>1. \A n : n \in Images'[k] <=> n \in Images[k]
    BY <1>1, <1>2, MappedSets, MappedSetsNext
  <2>2. \A n : n \in Deletes'[k] <=> n \in Deletes[k]
    BY <1>1, <1>2, MappedSets, MappedSetsNext
  <2>3. \A i \in 1 .. committed[PartitionOf[k]] : i \in Offsets(PartitionOf[k])
    <3>1. PartitionOf[k] \in Partition
      OBVIOUS
    <3>2. committed[PartitionOf[k]] \in Nat /\ Len(log[PartitionOf[k]]) \in Nat
      BY <1>i, <1>k, <3>1 DEF SinkInv, TypeOK, LogKeeps
    <3> QED  BY <1>i, <3>1, <3>2, CommittedInLog DEF Offsets
  <2>4. \A n : n \in Acked'[k] <=> n \in Acked[k]
    BY <1>1, <1>k, <2>3, MappedSets, MappedSetsNext
  <2> QED  BY <2>1, <2>2, <2>4
<1>4. UNCHANGED Lost
  BY <1>i, <1>k, LostKept
<1> QED  BY <1>k, <1>3, <1>4 DEF Images, Deletes, Acked

\* A write, in time or late, moves the view of its row forward or leaves it.
LEMMA WriteRefines ==
  ASSUME MirrorInv, NEW x,
         \/ x \in late
         \/ \E m \in Member : x \in pending[m],
         docs' = [docs EXCEPT ![KeyAt(x)] = Effect(RecordAt(x), @)],
         UNCHANGED <<log, committed, abandoned, swallowed>>, docs' # docs
  PROVE  Replica!Refresh(KeyAt(x)) \/ Replica!Remove(KeyAt(x))
<1> DEFINE k == KeyAt(x)
           l == RecordAt(x).lsn
<1>i. SinkInv /\ SentInv /\ LsnInv
  BY DEF MirrorInv
<1>1. /\ x[1] \in Partition /\ x[2] \in 1 .. Len(log[x[1]]) /\ x = <<x[1], x[2]>>
      /\ k \in Key /\ PartitionOf[k] = x[1]
  BY <1>i, InHand
<1>2. Writable(x)
  BY <1>i DEF SentInv
<1>3. l \in 1 .. lastLsn /\ lastLsn \in Nat
  <2>1. Writable(<<x[1], x[2]>>)
    BY <1>1, <1>2
  <2>2. log[x[1]][x[2]].lsn \in 1 .. lastLsn
    BY <1>i, <1>1, <2>1 DEF LsnInv
  <2> QED  BY <1>i, <2>2 DEF RecordAt, SinkInv, TypeOK
<1>4. docs \in [Key -> Nat \cup {Absent}]
  BY <1>i DEF SinkInv, TypeOK
<1>5. /\ \A j \in Key : j # k => docs'[j] = docs[j]
      /\ \/ docs'[k] = docs[k]
         \/ /\ docs'[k] = Absent /\ docs[k] # Absent
            /\ RecordAt(x).op = "d" /\ docs[k] < l
         \/ /\ docs'[k] = l /\ IsUpsert(x)
            /\ docs[k] \in {Absent, NoLsn} \/ docs[k] < l
  BY <1>i, <1>2, WriteCases
<1>6. docs' = [docs EXCEPT ![k] = docs'[k]]
  BY <1>1, <1>4
<1>7. docs'[k] # docs[k]
  BY <1>1, <1>4, <1>6
<1>8. IsUpsert(x) => l \in Images[k]
  <2>1. IsUpsert(x) => ImageAt(k, x[2])
    BY <1>1 DEF ImageAt, IsUpsert, KeyAt, RecordAt
  <2> QED  BY <1>1, <2>1, MappedSets DEF Offsets, RecordAt
<1>9. RecordAt(x).op = "d" => l \in Deletes[k]
  <2>1. RecordAt(x).op = "d" => DeleteAt(k, x[2])
    BY <1>1 DEF DeleteAt, IsDelete, KeyAt, RecordAt
  <2> QED  BY <1>1, <2>1, MappedSets DEF Offsets, RecordAt
<1>u. UNCHANGED <<Images, Deletes, Acked, Lost>>
  BY MappedKept
<1> HIDE DEF k, l
<1>10. CASE docs'[k] = l /\ IsUpsert(x) /\ (docs[k] \in {Absent, NoLsn} \/ docs[k] < l)
  <2>1. docs[k] < l
    BY <1>3, <1>10 DEF Absent, NoLsn
  <2>2. docs' = [docs EXCEPT ![k] = l]
    BY <1>6, <1>10
  <2>3. Replica!Refresh(k)
    BY <1>8, <1>10, <1>u, <2>1, <2>2 DEF Replica!Refresh, Images, Deletes, Acked, Lost
  <2> QED  BY <2>3 DEF k
<1>11. CASE docs'[k] = Absent /\ docs[k] # Absent /\ RecordAt(x).op = "d" /\ docs[k] < l
  <2>1. docs' = [docs EXCEPT ![k] = Absent]
    BY <1>6, <1>11
  <2>2. Replica!Remove(k)
    BY <1>9, <1>11, <1>u, <2>1 DEF Replica!Remove, Images, Deletes, Acked, Lost
  <2> QED  BY <2>2 DEF k
<1> QED  BY <1>5, <1>7, <1>10, <1>11

\* The insert of an upsert whose find matched nothing refreshes the view, or
\* loses the image.
LEMMA InsertRefines ==
  ASSUME MirrorInv, MirrorInv', NEW m \in Member, NEW x \in inserting[m], InsertFound(m, x)
  PROVE  Replica!Refresh(KeyAt(x)) \/ Replica!Lose
<1> DEFINE k == KeyAt(x)
           l == RecordAt(x).lsn
<1>i. SinkInv /\ SinkInv' /\ SentInv
  BY DEF MirrorInv
<1>1. /\ x[1] \in Partition /\ x[2] \in 1 .. Len(log[x[1]]) /\ x = <<x[1], x[2]>>
      /\ k \in Key /\ PartitionOf[k] = x[1] /\ l \in Nat
  BY <1>i, InHand
<1>2. docs \in [Key -> Nat \cup {Absent}] /\ UNCHANGED <<log, committed, abandoned>>
  BY <1>i DEF InsertFound, SinkInv, TypeOK, sourceVars, groupVars
<1>3. docs' = [docs EXCEPT ![k] = IF docs[k] = Absent THEN l ELSE docs[k]]
  BY DEF InsertFound
<1>4. l \in Images[k]
  <2>1. IsUpsert(x)
    BY <1>i DEF SentInv, Writable, BuildFails, IsUpsert
  <2>2. ImageAt(k, x[2])
    BY <1>1, <2>1 DEF ImageAt, IsUpsert, KeyAt, RecordAt
  <2> QED  BY <1>1, <2>2, MappedSets DEF Offsets, RecordAt
<1>5. CASE docs[k] = Absent
  <2>1. UNCHANGED swallowed
    BY <1>5 DEF InsertFound
  <2>2. UNCHANGED <<Images, Deletes, Acked, Lost>>
    BY <1>2, <2>1, MappedKept
  <2>3. docs[k] < l /\ docs' = [docs EXCEPT ![k] = l]
    BY <1>1, <1>3, <1>5 DEF Absent
  <2> HIDE DEF k, l
  <2>4. Replica!Refresh(k)
    BY <1>4, <2>2, <2>3 DEF Replica!Refresh, Images, Deletes, Acked, Lost
  <2> QED  BY <2>4 DEF k
<1>6. CASE docs[k] # Absent
  <2>1. UNCHANGED docs
    BY <1>1, <1>2, <1>3, <1>6
  <2>2. swallowed \subseteq swallowed'
    BY DEF InsertFound
  <2> QED  BY <1>i, <1>2, <2>1, <2>2, LosingLoses
<1> QED  BY <1>5, <1>6

\* A commit acknowledges what Mongo holds or what was lost before, of any
\* number of rows at once, and may take acknowledgements back.
LEMMA CommitAcknowledges ==
  ASSUME SinkInv, SinkInv', NoSilentLoss', UNCHANGED <<log, docs, abandoned, swallowed>>
  PROVE  Replica!Acknowledge
<1> USE SinkAssumption
<1>1. UNCHANGED <<Images, Deletes, Lost>>
  BY MappedKept
<1>2. ASSUME NEW k \in Key
      PROVE  /\ Acked'[k] \subseteq Images[k]
             /\ Deletes[k] = {} => \A l \in Acked'[k] : l <= docs[k] \/ l \in Lost[k]
  <2> DEFINE p == PartitionOf[k]
  <2>1. p \in Partition /\ committed'[p] \in Nat /\ Len(log[p]) \in Nat
    BY LenProperties DEF SinkInv, TypeOK
  <2>2. committed'[p] <= Len(log[p])
    <3>1. CASE committed'[p] = 0
      BY <2>1, <3>1
    <3>2. CASE committed'[p] # 0
      <4>1. committed'[p] \in 1 .. committed'[p]
        BY <2>1, <3>2
      <4>2. <<p, committed'[p]>> \in executed' \cup abandoned'
        BY <2>1, <4>1 DEF SinkInv, OffsetInv, Settled
      <4>3. <<p, committed'[p]>>[2] <= Len(log'[<<p, committed'[p]>>[1]])
        BY <4>2 DEF SinkInv, LogInv
      <4> QED  BY <2>1, <4>3
    <3> QED  BY <2>1, <3>1, <3>2
  <2>3. \A i \in Offsets(p) : ImageAt(k, i)' <=> ImageAt(k, i)
    BY DEF ImageAt, IsUpsert, RecordAt
  <2>4. \A i \in 1 .. committed'[p] : i \in Offsets(p)
    BY <2>1, <2>2 DEF Offsets
  <2>5. Acked'[k] \subseteq Images[k]
    BY <2>3, <2>4, MappedSets, MappedSetsNext
  <2>6. ASSUME Deletes[k] = {}, NEW l \in Acked'[k]
        PROVE  l <= docs[k] \/ l \in Lost[k]
    <3>1. PICK i \in 1 .. committed'[p] : ImageAt(k, i)' /\ log'[p][i].lsn = l
      BY MappedSetsNext
    <3>2. NeverDeleted(k)
      <4> SUFFICES ASSUME NEW h \in Offsets(p), log[p][h].op = "d", log[p][h].key = k
                   PROVE  FALSE
        BY DEF NeverDeleted
      <4>1. DeleteAt(k, h)
        BY DEF DeleteAt, IsDelete, RecordAt
      <4>2. log[p][h].lsn \in Deletes[k]
        BY <4>1, MappedSets
      <4> QED  BY <2>6, <4>2
    <3>3. IsUpsert(<<p, i>>)' /\ KeyAt(<<p, i>>)' = k /\ RecordAt(<<p, i>>)'.lsn = l
      BY <3>1 DEF ImageAt, KeyAt, RecordAt
    <3>4. NeverDeleted(k)'
      BY <3>2 DEF NeverDeleted, Offsets
    <3>5. NeverDeleted(KeyAt(<<p, i>>))'
      BY <3>3, <3>4 DEF NeverDeleted, Offsets, KeyAt, RecordAt
    <3>6. <<p, i>> \in CommittedUpserts'
      BY <2>1, <3>3, <3>5 DEF CommittedUpserts
    <3>7. docs'[k] >= l \/ <<p, i>> \in abandoned \cup swallowed
      BY <3>3, <3>6 DEF NoSilentLoss, Reflected
    <3>8. l \in Nat /\ docs[k] \in Int
      <4>1. log[p] \in Seq(Record) /\ docs[k] \in Nat \cup {Absent}
        BY <2>1 DEF SinkInv, TypeOK
      <4>2. log[p][i] \in Record
        BY <2>4, <4>1, ElementOfSeq DEF Offsets
      <4> QED  BY <3>1, <4>1, <4>2 DEF Record, Absent
    <3>9. <<p, i>> \in abandoned \cup swallowed => l \in Lost[k]
      <4>1. IsUpsert(<<p, i>>) /\ KeyAt(<<p, i>>) = k /\ RecordAt(<<p, i>>).lsn = l
        BY <3>3 DEF IsUpsert, KeyAt, RecordAt
      <4> QED  BY <4>1, MappedSets
    <3> QED  BY <3>7, <3>8, <3>9
  <2> QED  BY <2>5, <2>6
<1> QED  BY <1>1, <1>2 DEF Replica!Acknowledge, Images, Deletes, Acked, Lost

\* Every step of the sink maps to a step of RowReplica or to a stutter.
LEMMA ReplicaStep ==
  ASSUME MirrorInv, MirrorInv', NoSilentLoss', [Next]_vars
  PROVE  [Replica!Next]_(Replica!vars)
<1>i. SinkInv /\ SinkInv'
  BY DEF MirrorInv
<1>s. ASSUME UNCHANGED <<Images, Deletes, docs, Acked, Lost>>
      PROVE  [Replica!Next]_(Replica!vars)
  BY <1>s DEF Replica!vars, Images, Deletes, Acked, Lost
<1>1. ASSUME NEW k \in Key, NEW o \in SourceOps, Change(k, o)
      PROVE  Replica!Next
  BY <1>1, ChangePublishes DEF Replica!Next
<1>2. ASSUME NEW k \in Key, ProduceUnusable(k)
      PROVE  [Replica!Next]_(Replica!vars)
  <2>1. Source /\ UNCHANGED <<abandoned, swallowed>>
    BY <1>2 DEF Source, ProduceUnusable, historyVars
  <2>2. \A p \in Partition : \A j \in 1 .. Len(log'[p]) :
          \/ \E i \in 1 .. Len(log[p]) : log'[p][j] = log[p][i]
          \/ log'[p][j].op # "d" /\ ~log'[p][j].after
    BY <1>2, <1>i, UnusableLog DEF LogKeeps
  <2> QED  BY <1>s, <2>1, <2>2, NoiseStutters
<1>3. ASSUME NEW p \in Partition, Reproduce(p)
      PROVE  [Replica!Next]_(Replica!vars)
  <2>1. Source /\ UNCHANGED <<abandoned, swallowed>>
    BY <1>3 DEF Source, Reproduce, historyVars
  <2> QED  BY <1>3, <1>i, <1>s, <2>1, ReproduceLog, NoiseStutters
<1>4. ASSUME NEW x, x \in late \/ \E m \in Member : x \in pending[m],
             docs' = [docs EXCEPT ![KeyAt(x)] = Effect(RecordAt(x), @)],
             UNCHANGED <<log, committed, abandoned, swallowed>>
      PROVE  [Replica!Next]_(Replica!vars)
  <2>1. CASE docs' = docs
    BY <1>4, <1>s, <2>1, MappedKept
  <2>2. CASE docs' # docs
    <3>1. KeyAt(x) \in Key
      BY <1>4, <1>i, InHand
    <3>2. Replica!Refresh(KeyAt(x)) \/ Replica!Remove(KeyAt(x))
      BY <1>4, <2>2, WriteRefines
    <3> QED  BY <3>1, <3>2 DEF Replica!Next
  <2> QED  BY <2>1, <2>2
<1>5. ASSUME NEW m \in Member, NEW x \in inserting[m], InsertFound(m, x)
      PROVE  [Replica!Next]_(Replica!vars)
  <2>1. KeyAt(x) \in Key
    BY <1>i, InHand
  <2> QED  BY <1>5, <2>1, InsertRefines DEF Replica!Next
<1>6. ASSUME UNCHANGED <<log, docs, abandoned, swallowed>>
      PROVE  [Replica!Next]_(Replica!vars)
  <2>1. Replica!Acknowledge
    BY <1>6, <1>i, CommitAcknowledges
  <2> QED  BY <2>1 DEF Replica!Next
<1>7. CASE UNCHANGED vars
  BY <1>6, <1>7 DEF vars, sourceVars, mongoVars, historyVars
<1>8. ASSUME NEW m \in Member,
             \/ Poll(m) \/ Decode(m) \/ StartTable(m)
             \/ FinishTable(m) \/ MarkCommit(m)
             \/ CommitMarked(m) \/ CommitError(m) \/ Crash(m) \/ Restart(m)
             \/ \E x \in pending[m] : FindNothing(m, x)
             \/ \E p \in Partition : Assign(p, m)
      PROVE  UNCHANGED <<log, docs, abandoned, swallowed>>
  BY <1>8 DEF Poll, Decode, StartTable, FinishTable,
     MarkCommit, CommitMarked, CommitError, Crash, Restart, FindNothing, Assign,
     sourceVars, mongoVars, historyVars
<1>9. ASSUME NEW x \in late, LateWrite(x)
      PROVE  [Replica!Next]_(Replica!vars)
  <2>1. UNCHANGED <<log, committed, abandoned, swallowed>>
    BY <1>9 DEF LateWrite, sourceVars, groupVars, historyVars
  <2>2. CASE docs' = [docs EXCEPT ![KeyAt(x)] = Effect(RecordAt(x), @)]
    BY <1>4, <2>1, <2>2
  <2>3. CASE docs' = docs
    BY <1>6, <2>1, <2>3
  <2> QED  BY <1>9, <2>2, <2>3 DEF LateWrite
<1>10. ASSUME NEW m \in Member, NEW x \in pending[m], ExecuteWrite(m, x)
       PROVE  [Replica!Next]_(Replica!vars)
  BY <1>4, <1>10 DEF ExecuteWrite, sourceVars, groupVars
<1>11. ASSUME NEW m \in Member, PollError(m) \/ DecodeError(m) \/ ApplyError(m)
       PROVE  [Replica!Next]_(Replica!vars)
  <2>1. UNCHANGED <<log, docs, committed, swallowed>> /\ abandoned \subseteq abandoned'
    BY <1>11 DEF PollError, DecodeError, ApplyError, GiveUp, sourceVars, mongoVars, groupVars
  <2>2. Replica!Lose
    BY <1>i, <2>1, LosingLoses
  <2> QED  BY <2>2 DEF Replica!Next
<1> QED
  BY <1>1, <1>2, <1>3, <1>5, <1>6, <1>7, <1>8, <1>9, <1>10, <1>11
     DEF Next, Source, RunOnce, Failure

\* The sink implements RowReplica whatever fails: partitions, batches, replicas
\* of the process, redelivery, late writes, offsets set back and the order
\* inside a BulkWrite never show, and what a commit acknowledges without Mongo
\* holding it was given up by RunOnce or taken for stale before.
THEOREM SinkImplementsReplica == Spec => ImplementsReplica
<1>1. MirrorInv /\ MirrorInv' /\ NoSilentLoss' /\ [Next]_vars => [Replica!Next]_(Replica!vars)
  BY ReplicaStep
<1> QED
  BY <1>1, ReplicaInit, MirrorInvariance, AtLeastOnce, PTL
     DEF Spec, ImplementsReplica, Replica!Spec
=============================================================================
