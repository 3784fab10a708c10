------------------------- MODULE TransformerProofs -------------------------
(***************************************************************************)
(* Proofs about Transformer for every set of replicas, partitions and keys,*)
(* every bound and every choice of faults.                                 *)
(***************************************************************************)
EXTENDS Transformer, SequenceTheorems, TLAPS

-----------------------------------------------------------------------------
(* The inductive invariant.                                                *)

RecordId == Partition \X (Nat \ {0})

InLog(x) == x[2] \in 1 .. Len(log[x[1]])

\* A record is settled when it is in transformed.* or was skipped.
Settled(x) == InLog(x) /\ (Forwarded(x) \/ x \in abandoned)

\* A key lives in one partition, and only records of the log are forwarded.
LogInv ==
  /\ \A p \in Partition : \A i \in 1 .. Len(log[p]) : PartitionOf[log[p][i].key] = p
  /\ \A k \in Key : \A j \in DOMAIN out[k] : out[k][j] <= Len(log[PartitionOf[k]])

\* The records in hand leave no gap: what is older than one of them is settled
\* or in hand as well, even after its partition went to another replica.
TodoInv ==
  \A m \in Member :
    /\ pc[m] # "each" => todo[m] = {}
    /\ \A x \in todo[m] :
         /\ InLog(x)
         /\ \A i \in 1 .. x[2] : <<x[1], i>> \in todo[m] \/ Settled(<<x[1], i>>)

\* Nothing is passed over: below a committed, marked or committable offset
\* every record is settled, and below a position it is settled or in hand.
OffsetInv ==
  \A p \in Partition :
    /\ \A i \in 1 .. committed[p] : Settled(<<p, i>>)
    /\ \A m \in Member :
         /\ \A i \in 1 .. ends[m][p] : Settled(<<p, i>>)
         /\ \A i \in 1 .. marks[m][p] : Settled(<<p, i>>)
         /\ owner[p] = m =>
              \A i \in 1 .. pos[m][p] : <<p, i>> \in todo[m] \/ Settled(<<p, i>>)

TransformerInv == TypeOK /\ LogInv /\ TodoInv /\ OffsetInv /\ OvertakesOnlySkipped

-----------------------------------------------------------------------------
(* Lemmas about the operators.                                             *)

\* What a poll returns: the next records of the partitions m is assigned.
LEMMA FetchedMember ==
  ASSUME TypeOK, NEW m \in Member, NEW n \in [Partition -> Nat]
  PROVE  \A p \in Partition : \A i : <<p, i>> \in Fetched(m, n)
           <=> i \in pos[m][p] + 1 .. pos[m][p] + n[p]
BY DEF Fetched

\* A poll returns record ids of the log.
LEMMA FetchedType ==
  ASSUME TypeOK, NEW m \in Member, NEW n \in [Partition -> Nat], Fetchable(m, n)
  PROVE  \A x \in Fetched(m, n) :
           /\ x \in RecordId /\ InLog(x)
           /\ owner[x[1]] = m
           /\ x[2] \in pos[m][x[1]] + 1 .. pos[m][x[1]] + n[x[1]]
<1> SUFFICES ASSUME NEW x \in Fetched(m, n)
             PROVE  /\ x \in RecordId /\ InLog(x)
                    /\ owner[x[1]] = m
                    /\ x[2] \in pos[m][x[1]] + 1 .. pos[m][x[1]] + n[x[1]]
  OBVIOUS
<1>1. PICK p \in Partition : \E i \in pos[m][p] + 1 .. pos[m][p] + n[p] : x = <<p, i>>
  BY DEF Fetched
<1>2. PICK i \in pos[m][p] + 1 .. pos[m][p] + n[p] : x = <<p, i>>
  BY <1>1
<1>3. pos[m][p] \in Nat /\ n[p] \in Nat /\ Len(log[p]) \in Nat
  BY LenProperties DEF TypeOK
<1>4. i \in Nat \ {0} /\ n[p] # 0
  BY <1>2, <1>3
<1>5. owner[p] = m /\ pos[m][p] + n[p] <= Len(log[p])
  BY <1>4 DEF Fetchable
<1>6. x[1] = p /\ x[2] = i /\ x \in RecordId
  BY <1>2, <1>4 DEF RecordId
<1>7. i \in 1 .. Len(log[p])
  BY <1>2, <1>3, <1>5
<1> QED  BY <1>2, <1>5, <1>6, <1>7 DEF InLog

\* A record in hand is a record of the log, of its key's partition.
LEMMA InHand ==
  ASSUME TransformerInv, NEW m \in Member, NEW x \in todo[m]
  PROVE  /\ x \in RecordId /\ x = <<x[1], x[2]>> /\ InLog(x)
         /\ RecordAt(x) \in Record /\ RecordAt(x).key \in Key
         /\ PartitionOf[RecordAt(x).key] = x[1]
<1>1. x \in RecordId /\ x = <<x[1], x[2]>>
  BY DEF TransformerInv, TypeOK, RecordId
<1>2. InLog(x)
  BY DEF TransformerInv, TodoInv
<1>3. log[x[1]] \in Seq(Record)
  BY <1>1 DEF TransformerInv, TypeOK, RecordId
<1>4. RecordAt(x) \in Record
  BY <1>2, <1>3, ElementOfSeq DEF RecordAt, InLog
<1>5. PartitionOf[RecordAt(x).key] = x[1]
  BY <1>1, <1>2 DEF TransformerInv, LogInv, RecordAt, InLog, RecordId
<1> QED  BY <1>1, <1>2, <1>4, <1>5 DEF Record

\* The history only grows: what the topics hold stays where it is, and a
\* skipped record stays skipped.
Grows ==
  /\ \A p \in Partition :
       /\ Len(log[p]) \in Nat /\ Len(log'[p]) \in Nat
       /\ Len(log[p]) <= Len(log'[p])
       /\ \A i \in 1 .. Len(log[p]) : log'[p][i] = log[p][i]
  /\ \A k \in Key : \A j \in DOMAIN out[k] :
       j \in DOMAIN out'[k] /\ out'[k][j] = out[k][j]
  /\ abandoned \subseteq abandoned'

\* A settled record stays settled.
LEMMA SettledStays ==
  ASSUME TransformerInv, Grows, NEW p \in Partition, NEW i, Settled(<<p, i>>)
  PROVE  Settled(<<p, i>>)'
<1>1. i \in 1 .. Len(log[p])
  BY DEF Settled, InLog
<1>2. i \in 1 .. Len(log'[p]) /\ log'[p][i] = log[p][i]
  BY <1>1 DEF Grows
<1>3. log[p] \in Seq(Record)
  BY DEF TransformerInv, TypeOK
<1>4. log[p][i] \in Record
  BY <1>1, <1>3, ElementOfSeq
<1>5. log[p][i].key \in Key
  BY <1>4 DEF Record
<1>6. CASE <<p, i>> \in abandoned
  BY <1>2, <1>6 DEF Grows, Settled, InLog
<1>7. CASE Forwarded(<<p, i>>)
  <2> DEFINE k == log[p][i].key
  <2>1. PICK j \in DOMAIN out[k] : out[k][j] = i
    BY <1>7 DEF Forwarded, RecordAt
  <2>2. j \in DOMAIN out'[k] /\ out'[k][j] = i
    BY <1>5, <2>1 DEF Grows
  <2>3. Forwarded(<<p, i>>)'
    BY <1>2, <2>2 DEF Forwarded, RecordAt
  <2> QED  BY <1>2, <2>3 DEF Settled, InLog
<1> QED  BY <1>6, <1>7 DEF Settled

\* Produce appends to the records of one key.
LEMMA ProduceAppends ==
  ASSUME TransformerInv, NEW m \in Member, NEW x \in todo[m], Produce(x)
  PROVE  LET k == RecordAt(x).key IN
         /\ out' \in [Key -> Seq(Nat \ {0})]
         /\ \A l \in Key : l # k => out'[l] = out[l]
         /\ Len(out[k]) \in Nat
         /\ DOMAIN out[k] = 1 .. Len(out[k])
         /\ DOMAIN out'[k] = 1 .. Len(out[k]) + 1
         /\ \A j \in 1 .. Len(out[k]) : out'[k][j] = out[k][j]
         /\ out'[k][Len(out[k]) + 1] = x[2]
<1> DEFINE k == RecordAt(x).key
<1>1. k \in Key /\ x[2] \in Nat \ {0}
  BY InHand DEF RecordId
<1>2. out \in [Key -> Seq(Nat \ {0})]
  BY DEF TransformerInv, TypeOK
<1>3. out' = [out EXCEPT ![k] = Append(out[k], x[2])]
  BY DEF Produce
<1> HIDE DEF k
<1>4. out[k] \in Seq(Nat \ {0})
  BY <1>1, <1>2
<1> DEFINE s == Append(out[k], x[2])
<1>5. /\ s \in Seq(Nat \ {0})
      /\ Len(s) = Len(out[k]) + 1
      /\ \A j \in 1 .. Len(out[k]) : s[j] = out[k][j]
      /\ s[Len(out[k]) + 1] = x[2]
  BY <1>1, <1>4, AppendProperties
<1>6. out'[k] = s /\ \A l \in Key : l # k => out'[l] = out[l]
  BY <1>1, <1>2, <1>3
<1>7. out' \in [Key -> Seq(Nat \ {0})]
  BY <1>1, <1>2, <1>3, <1>5
<1>8. Len(out[k]) \in Nat /\ DOMAIN out[k] = 1 .. Len(out[k]) /\ DOMAIN s = 1 .. Len(s)
  BY <1>4, <1>5, LenProperties
<1> HIDE DEF s
<1> QED  BY <1>5, <1>6, <1>7, <1>8 DEF k

\* Records arrive in cdc.*, each in the partition of its key.  The proofs use
\* no more than this of Debezium, so that they also hold for the source of the
\* whole pipeline.
Arrives ==
  /\ log' \in [Partition -> Seq(Record)]
  /\ \A p \in Partition :
       /\ Len(log[p]) \in Nat /\ Len(log'[p]) \in Nat
       /\ Len(log[p]) <= Len(log'[p])
       /\ \A i \in 1 .. Len(log[p]) : log'[p][i] = log[p][i]
       /\ \A i \in 1 .. Len(log'[p]) :
            i \in 1 .. Len(log[p]) \/ PartitionOf[log'[p][i].key] = p
  /\ faultCount' \in Nat
  /\ UNCHANGED <<out, groupVars, memberVars, abandoned>>

\* A step of the transformers, or the arrival of records.
Step ==
  \/ Arrives
  \/ \E m \in Member :
       \/ RunOnce(m) \/ Failure(m) \/ Restart(m)
       \/ \E p \in Partition : Assign(p, m)

\* Debezium only appends, to the partition of the key.
LEMMA CaptureArrives ==
  ASSUME TransformerInv, NEW k \in Key, NEW bad \in BOOLEAN, Capture(k, bad)
  PROVE  Arrives
<1> USE TransformerAssumption
<1> DEFINE r == [key |-> k, poison |-> bad]
           q == PartitionOf[k]
           s == Append(log[q], r)
<1>1. r \in Record /\ r.key = k /\ q \in Partition
  BY DEF Record
<1>2. log \in [Partition -> Seq(Record)] /\ log' = [log EXCEPT ![q] = s]
  BY DEF TransformerInv, TypeOK, Capture
<1> HIDE DEF r
<1>3. /\ s \in Seq(Record)
      /\ Len(s) = Len(log[q]) + 1
      /\ \A j \in 1 .. Len(log[q]) : s[j] = log[q][j]
      /\ s[Len(log[q]) + 1] = r
  BY <1>1, <1>2, AppendProperties
<1>4. \A p \in Partition : Len(log[p]) \in Nat
  BY <1>2, LenProperties
<1>5. PartitionOf[r.key] = q
  BY <1>1
<1> HIDE DEF q, s
<1>6. log'[q] = s /\ \A p \in Partition : p # q => log'[p] = log[p]
  BY <1>1, <1>2
<1>7. log' \in [Partition -> Seq(Record)]
  BY <1>2, <1>3
<1>8. \A i \in 1 .. Len(s) : i \in 1 .. Len(log[q]) \/ s[i] = r
  BY <1>1, <1>3, <1>4
<1>9. ASSUME NEW p \in Partition
      PROVE  /\ Len(log[p]) \in Nat /\ Len(log'[p]) \in Nat
             /\ Len(log[p]) <= Len(log'[p])
             /\ \A i \in 1 .. Len(log[p]) : log'[p][i] = log[p][i]
             /\ \A i \in 1 .. Len(log'[p]) :
                  i \in 1 .. Len(log[p]) \/ PartitionOf[log'[p][i].key] = p
  <2>1. CASE p # q
    BY <1>4, <1>6, <2>1
  <2>2. CASE p = q
    BY <1>1, <1>3, <1>4, <1>5, <1>6, <1>8, <2>2
  <2> QED  BY <2>1, <2>2
<1>10. faultCount' \in Nat
  BY DEF TransformerInv, TypeOK, Capture, Fault, NoFault
<1>11. UNCHANGED <<out, groupVars, memberVars, abandoned>>
  BY DEF Capture
<1> QED  BY <1>7, <1>9, <1>10, <1>11 DEF Arrives

\* A step that changes nothing lets no record arrive.
LEMMA StutterArrives ==
  ASSUME TransformerInv, UNCHANGED vars
  PROVE  Arrives
BY LenProperties
   DEF TransformerInv, TypeOK, LogInv, Arrives, vars, groupVars, memberVars

\* Every step of the specification is one of Step.
LEMMA NextIsStep ==
  ASSUME TransformerInv, [Next]_vars
  PROVE  Step
BY CaptureArrives, StutterArrives DEF Next, Step

\* Every step only appends to the topics and to the history.
LEMMA StepGrows ==
  ASSUME TransformerInv, Step
  PROVE  Grows
<1>t. TypeOK
  BY DEF TransformerInv
<1>l. \A p \in Partition : Len(log[p]) \in Nat
  BY <1>t, LenProperties DEF TypeOK
<1>1. CASE Arrives
  BY <1>1 DEF Arrives, Grows
<1>2. ASSUME NEW m \in Member, NEW x \in todo[m], Produce(x), UNCHANGED log,
             abandoned \subseteq abandoned'
      PROVE  Grows
  <2>1. ASSUME NEW k \in Key, NEW j \in DOMAIN out[k]
        PROVE  j \in DOMAIN out'[k] /\ out'[k][j] = out[k][j]
    <3>1. CASE k = RecordAt(x).key
      <4>1. /\ Len(out[k]) \in Nat
            /\ DOMAIN out[k] = 1 .. Len(out[k]) /\ DOMAIN out'[k] = 1 .. Len(out[k]) + 1
            /\ \A i \in 1 .. Len(out[k]) : out'[k][i] = out[k][i]
        BY <1>2, <3>1, ProduceAppends
      <4> QED  BY <4>1
    <3>2. CASE k # RecordAt(x).key
      BY <1>2, <3>2, ProduceAppends
    <3> QED  BY <3>1, <3>2
  <2> QED  BY <1>2, <1>l, <2>1 DEF Grows
<1>3. ASSUME NEW m \in Member, NEW x \in todo[m],
             Forward(m, x) \/ ApplyError(m, x) \/ ProduceError(m, x)
      PROVE  Grows
  <2>1. UNCHANGED log /\ abandoned \subseteq abandoned' /\ (UNCHANGED out \/ Produce(x))
    BY <1>3 DEF Forward, ApplyError, ProduceError, SkipRest
  <2> QED  BY <1>2, <1>l, <2>1 DEF Grows
<1>4. ASSUME NEW m \in Member,
             \/ Poll(m) \/ PollError(m) \/ Commit(m) \/ CommitError(m)
             \/ Crash(m) \/ Restart(m) \/ \E p \in Partition : Assign(p, m)
      PROVE  Grows
  <2>1. UNCHANGED <<log, out>> /\ abandoned \subseteq abandoned'
    BY <1>4 DEF Poll, PollError, Commit, CommitError, Crash, Restart, Assign
  <2> QED  BY <1>l, <2>1 DEF Grows
<1> QED  BY <1>1, <1>3, <1>4 DEF Step, RunOnce, Failure

-----------------------------------------------------------------------------
(* Every step preserves every part of the invariant.                       *)

\* Every step of the transformer keeps the types.
LEMMA TypeStep ==
  ASSUME TransformerInv, Step
  PROVE  TypeOK'
<1> USE TransformerAssumption
<1>t. TypeOK
  BY DEF TransformerInv
<1>1. CASE Arrives
  BY <1>1, <1>t DEF Arrives, TypeOK, groupVars, memberVars
<1>2. ASSUME NEW m \in Member, NEW p \in Partition, Assign(p, m)
      PROVE  TypeOK'
  <2>1. faultCount' \in Nat
    BY <1>2, <1>t DEF Assign, Fault, NoFault, TypeOK
  <2>2. owner' \in [Partition -> Member \cup {NoMember}]
    BY <1>2, <1>t DEF Assign, TypeOK
  <2>3. pos' \in [Member -> [Partition -> Nat]] /\ marks' \in [Member -> [Partition -> Nat]]
    BY <1>2, <1>t DEF Assign, StartOffset, TypeOK
  <2> QED  BY <1>2, <1>t, <2>1, <2>2, <2>3 DEF Assign, TypeOK
<1>3. ASSUME NEW m \in Member, Poll(m)
      PROVE  TypeOK'
  <2>1. PICK n \in [Partition -> 0 .. MaxPoll] :
          /\ Fetchable(m, n) /\ AdvancePos(m, n)
          /\ todo' = [todo EXCEPT ![m] = Fetched(m, n)]
    BY <1>3 DEF Poll
  <2>2. n \in [Partition -> Nat]
    OBVIOUS
  <2>3. Fetched(m, n) \subseteq RecordId
    BY <1>t, <2>1, <2>2, FetchedType
  <2>4. todo' \in [Member -> SUBSET (Partition \X (Nat \ {0}))]
    BY <1>t, <2>1, <2>3 DEF TypeOK, RecordId
  <2>5. pos' \in [Member -> [Partition -> Nat]]
    <3>1. pos' = [pos EXCEPT ![m] = [p \in Partition |-> pos[m][p] + n[p]]]
      BY <2>1 DEF AdvancePos
    <3>2. pos \in [Member -> [Partition -> Nat]]
      BY <1>t DEF TypeOK
    <3>3. [p \in Partition |-> pos[m][p] + n[p]] \in [Partition -> Nat]
      BY <2>2, <3>2
    <3> QED  BY <3>1, <3>2, <3>3
  <2>6. /\ cur' \in [Member -> Partition \cup {NoPartition}]
        /\ ends' \in [Member -> [Partition -> Nat]]
        /\ pc' \in [Member -> {"poll", "each", "commit", "down"}]
    BY <1>3, <1>t DEF Poll, TypeOK
  <2> QED  BY <1>3, <1>t, <2>4, <2>5, <2>6 DEF Poll, NoFault, TypeOK, groupVars
<1>4. ASSUME NEW m \in Member, PollError(m)
      PROVE  TypeOK'
  <2>1. PICK n \in [Partition -> 0 .. MaxPoll] :
          /\ Fetchable(m, n) /\ AdvancePos(m, n)
          /\ abandoned' = abandoned \cup Fetched(m, n)
    BY <1>4 DEF PollError
  <2>2. n \in [Partition -> Nat]
    OBVIOUS
  <2>3. Fetched(m, n) \subseteq RecordId
    BY <1>t, <2>1, <2>2, FetchedType
  <2>4. abandoned' \in SUBSET (Partition \X (Nat \ {0}))
    BY <1>t, <2>1, <2>3 DEF TypeOK, RecordId
  <2>5. pos' \in [Member -> [Partition -> Nat]]
    <3>1. pos' = [pos EXCEPT ![m] = [p \in Partition |-> pos[m][p] + n[p]]]
      BY <2>1 DEF AdvancePos
    <3>2. pos \in [Member -> [Partition -> Nat]]
      BY <1>t DEF TypeOK
    <3>3. [p \in Partition |-> pos[m][p] + n[p]] \in [Partition -> Nat]
      BY <2>2, <3>2
    <3> QED  BY <3>1, <3>2, <3>3
  <2>6. faultCount' \in Nat
    BY <1>4, <1>t DEF PollError, Fault, TypeOK
  <2> QED  BY <1>4, <1>t, <2>4, <2>5, <2>6 DEF PollError, TypeOK, groupVars
<1>5. ASSUME NEW m \in Member, NEW x \in todo[m], Forward(m, x)
      PROVE  TypeOK'
  <2>1. x[1] \in Partition /\ x[2] \in Nat
    BY InHand DEF RecordId
  <2>2. out' \in [Key -> Seq(Nat \ {0})]
    BY <1>5, ProduceAppends DEF Forward
  <2>3. todo' \in [Member -> SUBSET (Partition \X (Nat \ {0}))]
    BY <1>5, <1>t DEF Forward, TypeOK
  <2>4. /\ cur' \in [Member -> Partition \cup {NoPartition}]
        /\ ends' \in [Member -> [Partition -> Nat]]
    BY <1>5, <1>t, <2>1 DEF Forward, TypeOK
  <2>5. pc' \in [Member -> {"poll", "each", "commit", "down"}]
    BY <1>5, <1>t DEF Forward, Commits, TypeOK
  <2> QED
    BY <1>5, <1>t, <2>2, <2>3, <2>4, <2>5 DEF Forward, NoFault, TypeOK, groupVars
<1>6. ASSUME NEW m \in Member, NEW x \in todo[m], ApplyError(m, x) \/ ProduceError(m, x)
      PROVE  TypeOK'
  <2>1. out' \in [Key -> Seq(Nat \ {0})]
    BY <1>6, <1>t, ProduceAppends DEF ApplyError, ProduceError, TypeOK
  <2>2. SkipRest(m) /\ UNCHANGED <<log, groupVars, pos, marks, cur, ends>>
    BY <1>6 DEF ApplyError, ProduceError
  <2>3. /\ abandoned' \in SUBSET (Partition \X (Nat \ {0}))
        /\ todo' \in [Member -> SUBSET (Partition \X (Nat \ {0}))]
        /\ pc' \in [Member -> {"poll", "each", "commit", "down"}]
    BY <1>t, <2>2 DEF SkipRest, Commits, TypeOK
  <2>4. faultCount' \in Nat
    BY <1>6, <1>t DEF ApplyError, ProduceError, Fault, NoFault, TypeOK
  <2> QED  BY <1>t, <2>1, <2>2, <2>3, <2>4 DEF TypeOK, groupVars
<1>7. ASSUME NEW m \in Member, Commit(m) \/ CommitError(m)
      PROVE  TypeOK'
  <2>1. Marked(m) \in [Partition -> Nat]
    BY <1>t DEF Marked, MaxOf, TypeOK
  <2>2. \A c \in Stored(m) : c \in [Partition -> Nat]
    <3> SUFFICES ASSUME NEW c \in Stored(m) PROVE c \in [Partition -> Nat]
      OBVIOUS
    <3>1. PICK S : c = [p \in Partition |-> IF p \in S THEN Marked(m)[p] ELSE committed[p]]
      BY DEF Stored
    <3> QED  BY <1>t, <2>1, <3>1 DEF TypeOK
  <2>3. committed' \in [Partition -> Nat] /\ marks' \in [Member -> [Partition -> Nat]]
    <3>1. committed' \in {committed} \cup Stored(m) /\ marks' = [marks EXCEPT ![m] = Marked(m)]
      BY <1>7 DEF Commit, CommitError
    <3> QED  BY <1>t, <2>1, <2>2, <3>1 DEF TypeOK
  <2>4. pc' = [pc EXCEPT ![m] = "poll"] /\ (NoFault \/ Fault("commit"))
    BY <1>7 DEF Commit, CommitError
  <2>5. pc' \in [Member -> {"poll", "each", "commit", "down"}] /\ faultCount' \in Nat
    BY <1>t, <2>4 DEF Fault, NoFault, TypeOK
  <2>6. UNCHANGED <<log, out, owner, pos, todo, cur, ends, abandoned>>
    BY <1>7 DEF Commit, CommitError
  <2> QED  BY <1>t, <2>3, <2>5, <2>6 DEF TypeOK
<1>8. ASSUME NEW m \in Member, Crash(m)
      PROVE  TypeOK'
  <2>1. /\ pc' \in [Member -> {"poll", "each", "commit", "down"}]
        /\ todo' \in [Member -> SUBSET (Partition \X (Nat \ {0}))]
        /\ owner' \in [Partition -> Member \cup {NoMember}]
        /\ faultCount' \in Nat
    BY <1>8, <1>t DEF Crash, Fault, TypeOK
  <2> QED  BY <1>8, <1>t, <2>1 DEF Crash, TypeOK
<1>9. ASSUME NEW m \in Member, Restart(m)
      PROVE  TypeOK'
  BY <1>9, <1>t DEF Restart, NoFault, TypeOK, groupVars
<1> QED
  BY <1>1, <1>2, <1>3, <1>4, <1>5, <1>6, <1>7, <1>8, <1>9 DEF Step, RunOnce, Failure

\* EachRecord visits a partition in offset order: what is older than the
\* visited record is settled.
LEMMA VisitsInOrder ==
  ASSUME TransformerInv, NEW m \in Member, NEW x \in todo[m], Visits(m, x),
         NEW i \in 1 .. x[2], i # x[2]
  PROVE  Settled(<<x[1], i>>)
<1>1. x[2] \in Nat /\ x[1] \in Partition
  BY InHand DEF RecordId
<1>2. <<x[1], i>> \in todo[m] => x[2] <= i
  BY DEF Visits
<1>3. <<x[1], i>> \notin todo[m]
  BY <1>1, <1>2
<1> QED  BY <1>3 DEF TransformerInv, TodoInv

\* A produced record is settled.
LEMMA ProducedIsSettled ==
  ASSUME TransformerInv, NEW m \in Member, NEW x \in todo[m], Produce(x), UNCHANGED log
  PROVE  Settled(<<x[1], x[2]>>)'
<1> DEFINE k == RecordAt(x).key
<1>1. Len(out[k]) \in Nat /\ DOMAIN out'[k] = 1 .. Len(out[k]) + 1
  BY ProduceAppends
<1>2. out'[k][Len(out[k]) + 1] = x[2]
  BY ProduceAppends
<1>3. Len(out[k]) + 1 \in DOMAIN out'[k]
  BY <1>1
<1>4. RecordAt(<<x[1], x[2]>>)' = RecordAt(x) /\ InLog(<<x[1], x[2]>>)'
  BY InHand DEF RecordAt, InLog
<1> QED  BY <1>2, <1>3, <1>4 DEF Settled, Forwarded

\* Records stay in the partition of their key, and only those are forwarded.
LEMMA LogStep ==
  ASSUME TransformerInv, Step
  PROVE  LogInv'
<1> USE TransformerAssumption
<1>g. Grows
  BY StepGrows
<1>i. LogInv /\ TypeOK
  BY DEF TransformerInv
<1>1. CASE Arrives
  <2>1. UNCHANGED out
    BY <1>1 DEF Arrives
  <2>2. ASSUME NEW p \in Partition, NEW i \in 1 .. Len(log'[p])
        PROVE  PartitionOf[log'[p][i].key] = p
    <3>1. CASE i \in 1 .. Len(log[p])
      BY <1>g, <1>i, <3>1 DEF Grows, LogInv
    <3>2. CASE i \notin 1 .. Len(log[p])
      BY <1>1, <3>2 DEF Arrives
    <3> QED  BY <3>1, <3>2
  <2>3. ASSUME NEW l \in Key, NEW j \in DOMAIN out'[l]
        PROVE  out'[l][j] <= Len(log'[PartitionOf[l]])
    <3>1. PartitionOf[l] \in Partition /\ out[l][j] \in Nat
      BY <1>i, <2>1, <2>3, ElementOfSeq, LenProperties DEF TypeOK
    <3>2. out[l][j] <= Len(log[PartitionOf[l]])
      BY <1>i, <2>1, <2>3 DEF LogInv
    <3> QED  BY <1>g, <2>1, <3>1, <3>2 DEF Grows
  <2> QED  BY <2>2, <2>3 DEF LogInv
<1>2. ASSUME NEW m \in Member, NEW x \in todo[m], Produce(x), UNCHANGED log
      PROVE  LogInv'
  <2> DEFINE k == RecordAt(x).key
  <2>1. k \in Key /\ PartitionOf[k] = x[1] /\ x[2] <= Len(log[x[1]])
    BY InHand, <1>i, LenProperties DEF InLog, TypeOK, RecordId
  <2>2. ASSUME NEW l \in Key, NEW j \in DOMAIN out'[l]
        PROVE  out'[l][j] <= Len(log[PartitionOf[l]])
    <3>1. CASE l # k
      BY <1>2, <1>i, <2>2, <3>1, ProduceAppends DEF LogInv
    <3>2. CASE l = k
      <4>1. /\ Len(out[k]) \in Nat
            /\ DOMAIN out[k] = 1 .. Len(out[k]) /\ DOMAIN out'[k] = 1 .. Len(out[k]) + 1
            /\ \A i \in 1 .. Len(out[k]) : out'[k][i] = out[k][i]
            /\ out'[k][Len(out[k]) + 1] = x[2]
        BY <1>2, ProduceAppends
      <4> HIDE DEF k
      <4>2. CASE j \in DOMAIN out[k]
        BY <1>i, <2>1, <3>2, <4>1, <4>2 DEF LogInv
      <4>3. CASE j = Len(out[k]) + 1
        BY <2>1, <3>2, <4>1, <4>3
      <4> QED  BY <2>2, <3>2, <4>1, <4>2, <4>3
    <3> QED  BY <3>1, <3>2
  <2> QED  BY <1>2, <1>i, <2>2 DEF LogInv
<1>3. ASSUME UNCHANGED <<log, out>>
      PROVE  LogInv'
  BY <1>3, <1>i DEF LogInv
<1>4. ASSUME NEW m \in Member, NEW x \in todo[m],
             Forward(m, x) \/ ApplyError(m, x) \/ ProduceError(m, x)
      PROVE  LogInv'
  <2>1. UNCHANGED log /\ (UNCHANGED out \/ Produce(x))
    BY <1>4 DEF Forward, ApplyError, ProduceError
  <2> QED  BY <1>2, <1>3, <2>1
<1>5. ASSUME NEW m \in Member,
             \/ Poll(m) \/ PollError(m) \/ Commit(m) \/ CommitError(m)
             \/ Crash(m) \/ Restart(m) \/ \E p \in Partition : Assign(p, m)
      PROVE  LogInv'
  <2>1. UNCHANGED <<log, out>>
    BY <1>5 DEF Poll, PollError, Commit, CommitError, Crash, Restart, Assign
  <2> QED  BY <1>3, <2>1
<1> QED  BY <1>1, <1>4, <1>5 DEF Step, RunOnce, Failure

\* What one replica has in hand has no gap in it, the part of TodoInv about m.
HandInv(m) ==
  /\ pc[m] # "each" => todo[m] = {}
  /\ \A x \in todo[m] :
       /\ InLog(x)
       /\ \A i \in 1 .. x[2] : <<x[1], i>> \in todo[m] \/ Settled(<<x[1], i>>)

\* The hand of a replica that does not move keeps its shape.
LEMMA HandKept ==
  ASSUME TransformerInv, Grows, NEW m \in Member,
         todo'[m] = todo[m], pc[m] = "each" => pc'[m] = "each"
  PROVE  HandInv(m)'
<1>1. ASSUME NEW x \in todo[m]
      PROVE  /\ InLog(x)'
             /\ \A i \in 1 .. x[2] : <<x[1], i>> \in todo[m] \/ Settled(<<x[1], i>>)'
  <2>1. x[1] \in Partition /\ x[2] \in Nat /\ InLog(x)
    BY InHand DEF RecordId
  <2>2. InLog(x)'
    BY <2>1 DEF InLog, Grows
  <2>3. \A i \in 1 .. x[2] : <<x[1], i>> \in todo[m] \/ Settled(<<x[1], i>>)
    BY DEF TransformerInv, TodoInv
  <2> QED  BY <2>1, <2>2, <2>3, SettledStays
<1>2. pc'[m] # "each" => todo[m] = {}
  BY DEF TransformerInv, TodoInv
<1> QED  BY <1>1, <1>2 DEF HandInv

\* Every step leaves no gap in what the replicas have in hand.
LEMMA TodoStep ==
  ASSUME TransformerInv, Step
  PROVE  TodoInv'
<1> USE TransformerAssumption
<1>g. Grows
  BY StepGrows
<1>t. TypeOK
  BY DEF TransformerInv
<1> SUFFICES ASSUME NEW l \in Member PROVE HandInv(l)'
  BY DEF TodoInv, HandInv
<1>e. ASSUME todo'[l] = {} PROVE HandInv(l)'
  BY <1>e DEF HandInv
<1>1. CASE Arrives
  <2>1. UNCHANGED <<pc, todo>>
    BY <1>1 DEF Arrives, memberVars
  <2> QED  BY <1>g, <2>1, HandKept
<1>2. ASSUME NEW m \in Member, Poll(m)
      PROVE  HandInv(l)'
  <2>1. PICK n \in [Partition -> 0 .. MaxPoll] :
          Fetchable(m, n) /\ todo' = [todo EXCEPT ![m] = Fetched(m, n)]
    BY <1>2 DEF Poll
  <2>2. pc' = [pc EXCEPT ![m] = "each"] /\ todo[m] = {} /\ UNCHANGED <<log, out, abandoned>>
    BY <1>2 DEF Poll, TransformerInv, TodoInv
  <2>3. CASE l # m
    BY <1>g, <1>t, <2>1, <2>2, <2>3, HandKept DEF TypeOK
  <2>4. CASE l = m
    <3>1. n \in [Partition -> Nat]
      OBVIOUS
    <3>2. pc'[m] = "each" /\ todo'[m] = Fetched(m, n)
      BY <1>t, <2>1, <2>2 DEF TypeOK
    <3>3. ASSUME NEW x \in Fetched(m, n), NEW i \in 1 .. x[2]
          PROVE  <<x[1], i>> \in Fetched(m, n) \/ Settled(<<x[1], i>>)'
      <4>1. /\ x[1] \in Partition /\ x[2] \in Nat /\ owner[x[1]] = m
            /\ x[2] \in pos[m][x[1]] + 1 .. pos[m][x[1]] + n[x[1]]
        BY <1>t, <2>1, <3>1, FetchedType DEF RecordId
      <4>2. pos[m][x[1]] \in Nat /\ n[x[1]] \in Nat
        BY <1>t, <3>1, <4>1 DEF TypeOK
      <4>3. CASE i <= pos[m][x[1]]
        <5>1. Settled(<<x[1], i>>)
          BY <2>2, <4>1, <4>2, <4>3 DEF TransformerInv, OffsetInv
        <5> QED  BY <1>g, <4>1, <5>1, SettledStays
      <4>4. CASE i > pos[m][x[1]]
        <5>1. i \in pos[m][x[1]] + 1 .. pos[m][x[1]] + n[x[1]]
          BY <4>1, <4>2, <4>4
        <5> QED  BY <1>t, <3>1, <4>1, <5>1, FetchedMember
      <4> QED  BY <4>1, <4>2, <4>3, <4>4
    <3>4. \A x \in Fetched(m, n) : InLog(x)'
      BY <1>t, <2>1, <2>2, <3>1, FetchedType DEF InLog
    <3> QED  BY <2>4, <3>2, <3>3, <3>4 DEF HandInv
  <2> QED  BY <2>3, <2>4
<1>3. ASSUME NEW m \in Member, NEW x \in todo[m], Forward(m, x)
      PROVE  HandInv(l)'
  <2>1. /\ todo' = [todo EXCEPT ![m] = @ \ {x}] /\ UNCHANGED log /\ Produce(x)
        /\ pc' = [pc EXCEPT ![m] = IF todo[m] = {x} THEN "commit" ELSE "each"]
    BY <1>3 DEF Forward, Commits
  <2>2. CASE l # m
    BY <1>g, <1>t, <2>1, <2>2, HandKept DEF TypeOK
  <2>3. CASE l = m
    <3>1. /\ todo'[m] = todo[m] \ {x}
          /\ pc'[m] = IF todo[m] = {x} THEN "commit" ELSE "each"
      BY <1>t, <2>1 DEF TypeOK
    <3>2. ASSUME NEW y \in todo[m], NEW i \in 1 .. y[2]
          PROVE  <<y[1], i>> \in todo[m] \ {x} \/ Settled(<<y[1], i>>)'
      <4>1. <<y[1], i>> \in todo[m] \/ Settled(<<y[1], i>>)
        BY DEF TransformerInv, TodoInv
      <4>2. y[1] \in Partition
        BY InHand DEF RecordId
      <4>3. CASE <<y[1], i>> = x
        <5>1. x[1] = y[1] /\ x[2] = i
          BY <4>3
        <5>2. Settled(<<x[1], x[2]>>)'
          BY <2>1, ProducedIsSettled
        <5> QED  BY <5>1, <5>2
      <4> QED  BY <1>g, <4>1, <4>2, <4>3, SettledStays
    <3>3. \A y \in todo[m] : InLog(y)'
      BY <2>1, InHand DEF InLog
    <3> QED  BY <2>3, <3>1, <3>2, <3>3 DEF HandInv
  <2> QED  BY <2>2, <2>3
<1>4. ASSUME NEW m \in Member,
             \/ \E x \in todo[m] : ApplyError(m, x) \/ ProduceError(m, x)
             \/ Crash(m)
      PROVE  HandInv(l)'
  <2>1. todo' = [todo EXCEPT ![m] = {}] /\ \A q \in Member : q # m => pc'[q] = pc[q]
    BY <1>4, <1>t DEF ApplyError, ProduceError, SkipRest, Crash, TypeOK
  <2>2. CASE l = m
    BY <1>e, <1>t, <2>1, <2>2 DEF TypeOK
  <2>3. CASE l # m
    BY <1>g, <1>t, <2>1, <2>3, HandKept DEF TypeOK
  <2> QED  BY <2>2, <2>3
<1>5. ASSUME NEW m \in Member,
             \/ PollError(m) \/ Commit(m) \/ CommitError(m) \/ Restart(m)
             \/ \E p \in Partition : Assign(p, m)
      PROVE  HandInv(l)'
  <2>1. UNCHANGED todo /\ (pc[l] = "each" => pc'[l] = "each")
    BY <1>5, <1>t DEF PollError, Commit, CommitError, Restart, Assign, TypeOK
  <2> QED  BY <1>g, <2>1, HandKept
<1> QED  BY <1>1, <1>2, <1>3, <1>4, <1>5 DEF Step, RunOnce, Failure

\* A step that moves no offset and settles what leaves a hand passes nothing
\* over.
LEMMA OffsetsKept ==
  ASSUME TransformerInv, Grows, UNCHANGED <<committed, owner, pos, marks, ends>>,
         \A m \in Member, p \in Partition : \A i \in 1 .. pos[m][p] :
           owner[p] = m /\ <<p, i>> \in todo[m]
             => <<p, i>> \in todo'[m] \/ Settled(<<p, i>>)'
  PROVE  OffsetInv'
BY SettledStays DEF TransformerInv, OffsetInv

\* A commit of m leaves an offset as it is or moves it to the mark of m.
LEMMA StoredType ==
  ASSUME NEW m, NEW c \in Stored(m), NEW p \in Partition
  PROVE  c[p] = committed[p] \/ c[p] = Marked(m)[p]
BY DEF Stored

\* No step passes a record over.
LEMMA OffsetStep ==
  ASSUME TransformerInv, Step
  PROVE  OffsetInv'
<1> USE TransformerAssumption
<1>g. Grows
  BY StepGrows
<1>t. TypeOK /\ OffsetInv
  BY DEF TransformerInv
<1>s. ASSUME NEW q \in Partition
      PROVE  /\ \A i \in 1 .. committed[q] : Settled(<<q, i>>)'
             /\ \A l \in Member :
                  /\ \A i \in 1 .. ends[l][q] : Settled(<<q, i>>)'
                  /\ \A i \in 1 .. marks[l][q] : Settled(<<q, i>>)'
                  /\ owner[q] = l =>
                       \A i \in 1 .. pos[l][q] : <<q, i>> \in todo[l] \/ Settled(<<q, i>>)'
  BY <1>g, <1>t, SettledStays DEF OffsetInv
<1>1. CASE Arrives
  <2>1. UNCHANGED <<committed, owner, pos, marks, ends, todo>>
    BY <1>1 DEF Arrives, groupVars, memberVars
  <2> QED  BY <1>g, <2>1, OffsetsKept
<1>2. ASSUME NEW m \in Member, NEW p \in Partition, Assign(p, m)
      PROVE  OffsetInv'
  <2>1. /\ owner' = [owner EXCEPT ![p] = m]
        /\ pos' = [pos EXCEPT ![m][p] = committed[p]]
        /\ marks' = [marks EXCEPT ![m][p] = committed[p]]
        /\ UNCHANGED <<committed, ends, todo>>
    BY <1>2 DEF Assign, StartOffset
  <2> SUFFICES ASSUME NEW q \in Partition, NEW l \in Member
               PROVE  /\ \A i \in 1 .. committed'[q] : Settled(<<q, i>>)'
                      /\ \A i \in 1 .. ends'[l][q] : Settled(<<q, i>>)'
                      /\ \A i \in 1 .. marks'[l][q] : Settled(<<q, i>>)'
                      /\ owner'[q] = l =>
                           \A i \in 1 .. pos'[l][q] : <<q, i>> \in todo'[l] \/ Settled(<<q, i>>)'
    BY <1>s, <2>1 DEF OffsetInv
  <2>2. CASE q = p /\ l = m
    <3>1. pos'[l][q] = committed[q] /\ marks'[l][q] = committed[q] /\ committed[q] \in Nat
      BY <1>t, <2>1, <2>2 DEF TypeOK
    <3> QED  BY <1>s, <2>1, <3>1
  <2>3. CASE q = p /\ l # m
    BY <1>s, <1>t, <2>1, <2>3 DEF TypeOK
  <2>4. CASE q # p
    <3>1. pos'[l][q] = pos[l][q] /\ marks'[l][q] = marks[l][q] /\ owner'[q] = owner[q]
      BY <1>t, <2>1, <2>4 DEF TypeOK
    <3> QED  BY <1>s, <2>1, <3>1
  <2> QED  BY <2>2, <2>3, <2>4
<1>3. ASSUME NEW m \in Member, NEW n \in [Partition -> Nat],
             Fetchable(m, n), AdvancePos(m, n),
             UNCHANGED <<log, committed, owner, marks>>,
             \A l \in Member : ends'[l] = ends[l] \/ ends'[l] = [p \in Partition |-> 0],
             pc[m] = "poll",
             \A l \in Member \ {m} : todo'[l] = todo[l],
             \A x \in Fetched(m, n) : x \in todo'[m] \/ x \in abandoned'
      PROVE  OffsetInv'
  <2> SUFFICES ASSUME NEW q \in Partition, NEW l \in Member
               PROVE  /\ \A i \in 1 .. committed'[q] : Settled(<<q, i>>)'
                      /\ \A i \in 1 .. ends'[l][q] : Settled(<<q, i>>)'
                      /\ \A i \in 1 .. marks'[l][q] : Settled(<<q, i>>)'
                      /\ owner'[q] = l =>
                           \A i \in 1 .. pos'[l][q] : <<q, i>> \in todo'[l] \/ Settled(<<q, i>>)'
    BY <1>3, <1>s DEF OffsetInv
  <2>1. \A i \in 1 .. ends'[l][q] : Settled(<<q, i>>)'
    BY <1>3, <1>s
  <2>2. CASE l # m
    <3>1. pos'[l] = pos[l]
      BY <1>3, <1>t, <2>2 DEF AdvancePos, TypeOK
    <3> QED  BY <1>3, <1>s, <2>1, <2>2, <3>1
  <2>3. CASE l = m
    <3>1. pos'[m][q] = pos[m][q] + n[q] /\ pos[m][q] \in Nat /\ n[q] \in Nat
      BY <1>3, <1>t DEF AdvancePos, TypeOK
    <3>2. todo[m] = {}
      BY <1>3 DEF TransformerInv, TodoInv
    <3>3. ASSUME NEW i \in 1 .. pos'[m][q], owner[q] = m
          PROVE  <<q, i>> \in todo'[m] \/ Settled(<<q, i>>)'
      <4>1. CASE i <= pos[m][q]
        BY <1>s, <3>1, <3>2, <3>3, <4>1
      <4>2. CASE i > pos[m][q]
        <5>1. <<q, i>> \in Fetched(m, n)
          BY <1>3, <1>t, <3>1, <4>2, FetchedMember
        <5>2. InLog(<<q, i>>)
          BY <1>3, <1>t, <5>1, FetchedType
        <5>3. InLog(<<q, i>>)'
          BY <1>3, <5>2 DEF InLog
        <5> QED  BY <1>3, <5>1, <5>3 DEF Settled
      <4> QED  BY <3>1, <4>1, <4>2
    <3> QED  BY <1>3, <1>s, <2>1, <2>3, <3>3
  <2> QED  BY <2>2, <2>3
<1>4. ASSUME NEW m \in Member, Poll(m)
      PROVE  OffsetInv'
  <2>1. PICK n \in [Partition -> 0 .. MaxPoll] :
          /\ Fetchable(m, n) /\ AdvancePos(m, n)
          /\ todo' = [todo EXCEPT ![m] = Fetched(m, n)]
    BY <1>4 DEF Poll
  <2>2. n \in [Partition -> Nat]
    OBVIOUS
  <2>3. /\ todo'[m] = Fetched(m, n) /\ \A l \in Member \ {m} : todo'[l] = todo[l]
        /\ \A l \in Member : ends'[l] = ends[l] \/ ends'[l] = [p \in Partition |-> 0]
    BY <1>4, <1>t, <2>1 DEF Poll, TypeOK
  <2>4. pc[m] = "poll" /\ UNCHANGED <<log, committed, owner, marks>>
    BY <1>4 DEF Poll, groupVars
  <2> QED  BY <1>3, <2>1, <2>2, <2>3, <2>4
<1>5. ASSUME NEW m \in Member, PollError(m)
      PROVE  OffsetInv'
  <2>1. PICK n \in [Partition -> 0 .. MaxPoll] :
          /\ Fetchable(m, n) /\ AdvancePos(m, n)
          /\ abandoned' = abandoned \cup Fetched(m, n)
    BY <1>5 DEF PollError
  <2>2. n \in [Partition -> Nat]
    OBVIOUS
  <2>3. pc[m] = "poll" /\ UNCHANGED <<log, committed, owner, marks, todo, ends>>
    BY <1>5 DEF PollError, groupVars
  <2> QED  BY <1>3, <2>1, <2>2, <2>3
<1>6. ASSUME NEW m \in Member, NEW x \in todo[m], Forward(m, x)
      PROVE  OffsetInv'
  <2>1. /\ todo' = [todo EXCEPT ![m] = @ \ {x}] /\ Visits(m, x) /\ Produce(x)
        /\ ends' = [ends EXCEPT ![m][x[1]] = x[2]]
        /\ UNCHANGED <<log, committed, owner, pos, marks>>
    BY <1>6 DEF Forward, groupVars
  <2>2. Settled(<<x[1], x[2]>>)' /\ x = <<x[1], x[2]>> /\ x[1] \in Partition /\ x[2] \in Nat
    BY <2>1, ProducedIsSettled, InHand DEF RecordId
  <2> SUFFICES ASSUME NEW q \in Partition, NEW l \in Member
               PROVE  /\ \A i \in 1 .. ends'[l][q] : Settled(<<q, i>>)'
                      /\ owner[q] = l => \A i \in 1 .. pos[l][q] :
                           <<q, i>> \in todo'[l] \/ Settled(<<q, i>>)'
    BY <1>s, <2>1 DEF OffsetInv
  <2>3. \A i \in 1 .. ends'[l][q] : Settled(<<q, i>>)'
    <3>1. CASE l = m /\ q = x[1]
      <4>1. ends'[l][q] = x[2]
        BY <1>t, <2>1, <3>1 DEF TypeOK
      <4>2. ASSUME NEW i \in 1 .. x[2]
            PROVE  Settled(<<q, i>>)'
        <5>1. CASE i = x[2]
          BY <2>2, <3>1, <5>1
        <5>2. CASE i # x[2]
          BY <1>g, <2>1, <2>2, <3>1, <5>2, VisitsInOrder, SettledStays
        <5> QED  BY <5>1, <5>2
      <4> QED  BY <4>1, <4>2
    <3>2. CASE ~(l = m /\ q = x[1])
      <4>1. ends'[l][q] = ends[l][q]
        BY <1>t, <2>1, <2>2, <3>2 DEF TypeOK
      <4> QED  BY <1>s, <4>1
    <3> QED  BY <3>1, <3>2
  <2>4. ASSUME owner[q] = l, NEW i \in 1 .. pos[l][q]
        PROVE  <<q, i>> \in todo'[l] \/ Settled(<<q, i>>)'
    <3>1. <<q, i>> \in todo[l] => <<q, i>> \in todo'[l] \/ <<q, i>> = x
      BY <1>t, <2>1 DEF TypeOK
    <3>2. <<q, i>> = x => Settled(<<q, i>>)'
      <4> SUFFICES ASSUME <<q, i>> = x PROVE Settled(<<q, i>>)'
        OBVIOUS
      <4>1. x[1] = q /\ x[2] = i
        OBVIOUS
      <4> QED  BY <2>2, <4>1
    <3> QED  BY <1>s, <2>4, <3>1, <3>2
  <2> QED  BY <2>3, <2>4
<1>7. ASSUME NEW m \in Member, NEW x \in todo[m], ApplyError(m, x) \/ ProduceError(m, x)
      PROVE  OffsetInv'
  <2>1. SkipRest(m) /\ UNCHANGED <<log, committed, owner, pos, marks, ends>>
    BY <1>7 DEF ApplyError, ProduceError, groupVars
  <2>2. ASSUME NEW l \in Member, NEW p \in Partition, NEW i \in 1 .. pos[l][p],
               owner[p] = l, <<p, i>> \in todo[l]
        PROVE  <<p, i>> \in todo'[l] \/ Settled(<<p, i>>)'
    <3>1. CASE l # m
      BY <1>t, <2>1, <2>2, <3>1 DEF SkipRest, TypeOK
    <3>2. CASE l = m
      <4>1. pos[m][p] \in Nat
        BY <1>t DEF TypeOK
      <4>2. <<p, i>> \in abandoned'
        BY <2>1, <2>2, <3>2, <4>1 DEF SkipRest
      <4>3. InLog(<<p, i>>)
        BY <2>2, InHand
      <4>4. InLog(<<p, i>>)'
        BY <2>1, <4>3 DEF InLog
      <4> QED  BY <4>2, <4>4 DEF Settled
    <3> QED  BY <3>1, <3>2
  <2> QED  BY <1>g, <2>1, <2>2, OffsetsKept
<1>8. ASSUME NEW m \in Member, Commit(m) \/ CommitError(m)
      PROVE  OffsetInv'
  <2>1. /\ marks' = [marks EXCEPT ![m] = Marked(m)]
        /\ committed' = committed \/ committed' \in Stored(m)
        /\ UNCHANGED <<owner, pos, todo, ends>>
    BY <1>8 DEF Commit, CommitError
  <2> SUFFICES ASSUME NEW q \in Partition, NEW l \in Member
               PROVE  /\ \A i \in 1 .. committed'[q] : Settled(<<q, i>>)'
                      /\ \A i \in 1 .. marks'[l][q] : Settled(<<q, i>>)'
    BY <1>s, <2>1 DEF OffsetInv
  <2>2. /\ marks[m][q] \in Nat /\ ends[m][q] \in Nat
        /\ Marked(m)[q] = MaxOf(marks[m][q], ends[m][q])
    BY <1>t DEF TypeOK, Marked
  <2>3. \A i \in 1 .. Marked(m)[q] : Settled(<<q, i>>)'
    BY <1>s, <2>2 DEF MaxOf
  <2>4. committed'[q] = committed[q] \/ committed'[q] = Marked(m)[q]
    BY <2>1, StoredType
  <2>5. marks'[l] = marks[l] \/ marks'[l] = Marked(m)
    BY <1>t, <2>1 DEF TypeOK
  <2> QED  BY <1>s, <2>3, <2>4, <2>5
<1>9. ASSUME NEW m \in Member, Crash(m)
      PROVE  OffsetInv'
  <2>1. /\ todo' = [todo EXCEPT ![m] = {}]
        /\ owner' = [p \in Partition |-> IF owner[p] = m THEN NoMember ELSE owner[p]]
        /\ UNCHANGED <<committed, pos, ends>>
    BY <1>9 DEF Crash
  <2>3. \A l \in Member, q \in Partition : marks'[l][q] = marks[l][q] \/ marks'[l][q] = 0
    BY <1>9, <1>t DEF Crash, TypeOK
  <2>2. ASSUME NEW q \in Partition, NEW l \in Member, owner'[q] = l
        PROVE  owner[q] = l /\ todo'[l] = todo[l]
    BY <1>t, <2>1, <2>2 DEF TypeOK
  <2> QED  BY <1>s, <2>1, <2>2, <2>3 DEF OffsetInv
<1>10. ASSUME NEW m \in Member, Restart(m)
       PROVE  OffsetInv'
  <2>1. UNCHANGED <<committed, owner, pos, marks, ends, todo>>
    BY <1>10 DEF Restart, groupVars
  <2> QED  BY <1>g, <2>1, OffsetsKept
<1> QED
  BY <1>1, <1>2, <1>4, <1>5, <1>6, <1>7, <1>8, <1>9, <1>10 DEF Step, RunOnce, Failure

\* No step lets a record overtake an older one of its row that was not skipped.
LEMMA OvertakeStep ==
  ASSUME TransformerInv, Step
  PROVE  OvertakesOnlySkipped'
<1> USE TransformerAssumption
<1>g. Grows
  BY StepGrows
<1>t. TypeOK
  BY DEF TransformerInv
<1>1. ASSUME NEW k \in Key, NEW j \in DOMAIN out[k], NEW i \in 1 .. out[k][j],
             log'[PartitionOf[k]][i].key = k
      PROVE  \/ \E l \in 1 .. j : out'[k][l] = i
             \/ <<PartitionOf[k], i>> \in abandoned'
  <2>1. PartitionOf[k] \in Partition /\ out[k] \in Seq(Nat \ {0})
    BY <1>t DEF TypeOK
  <2>2. out[k][j] \in Nat /\ DOMAIN out[k] = 1 .. Len(out[k]) /\ Len(out[k]) \in Nat
    BY <2>1, ElementOfSeq, LenProperties
  <2>3. out[k][j] <= Len(log[PartitionOf[k]])
    BY DEF TransformerInv, LogInv
  <2>4. i \in 1 .. Len(log[PartitionOf[k]])
    BY <1>g, <2>1, <2>2, <2>3 DEF Grows
  <2>5. log[PartitionOf[k]][i].key = k
    BY <1>1, <1>g, <2>1, <2>4 DEF Grows
  <2>6. \/ \E l \in 1 .. j : out[k][l] = i
        \/ <<PartitionOf[k], i>> \in abandoned
    BY <2>5 DEF TransformerInv, OvertakesOnlySkipped
  <2>7. \A l \in 1 .. j : out'[k][l] = out[k][l]
    BY <1>g, <2>2 DEF Grows
  <2> QED  BY <1>g, <2>6, <2>7 DEF Grows
<1>2. ASSUME UNCHANGED out
      PROVE  OvertakesOnlySkipped'
  BY <1>1, <1>2 DEF OvertakesOnlySkipped
<1>3. ASSUME NEW m \in Member, NEW x \in todo[m], Visits(m, x), Produce(x), UNCHANGED log
      PROVE  OvertakesOnlySkipped'
  <2> DEFINE k == RecordAt(x).key
             n == Len(out[k]) + 1
  <2>1. k \in Key /\ PartitionOf[k] = x[1] /\ x[2] \in Nat /\ x[1] \in Partition
    BY InHand DEF RecordId
  <2>2. /\ n \in Nat /\ \A l \in Key : l # k => out'[l] = out[l]
        /\ DOMAIN out[k] = 1 .. n - 1 /\ DOMAIN out'[k] = 1 .. n
        /\ \A j \in 1 .. n - 1 : out'[k][j] = out[k][j]
        /\ out'[k][n] = x[2]
    BY <1>3, ProduceAppends
  <2>3. ASSUME NEW i \in 1 .. x[2], log[x[1]][i].key = k
        PROVE  (\E l \in 1 .. n : out'[k][l] = i) \/ <<x[1], i>> \in abandoned'
    <3>1. CASE i = x[2]
      <4>1. n \in 1 .. n
        BY <2>2
      <4> QED  BY <2>2, <3>1, <4>1
    <3>2. CASE i # x[2]
      <4>1. Settled(<<x[1], i>>)
        BY <1>3, <3>2, VisitsInOrder
      <4>2. CASE <<x[1], i>> \in abandoned
        BY <1>g, <4>2 DEF Grows
      <4>3. CASE Forwarded(<<x[1], i>>)
        <5>1. PICK l \in DOMAIN out[k] : out[k][l] = i
          BY <2>3, <4>3 DEF Forwarded, RecordAt
        <5> QED  BY <2>2, <5>1
      <4> QED  BY <4>1, <4>2, <4>3 DEF Settled
    <3> QED  BY <3>1, <3>2
  <2> HIDE DEF n
  <2>4. ASSUME NEW l \in Key, NEW j \in DOMAIN out'[l], NEW i \in 1 .. out'[l][j],
               log'[PartitionOf[l]][i].key = l
        PROVE  \/ \E h \in 1 .. j : out'[l][h] = i
               \/ <<PartitionOf[l], i>> \in abandoned'
    <3>1. CASE l # k
      <4>1. out'[l] = out[l]
        BY <2>2, <3>1
      <4> QED  BY <1>1, <2>4, <4>1
    <3>2. CASE l = k /\ j = n
      BY <1>3, <2>1, <2>2, <2>3, <2>4, <3>2
    <3>3. CASE l = k /\ j # n
      <4>1. j \in DOMAIN out[k] /\ out'[k][j] = out[k][j]
        BY <2>2, <2>4, <3>3
      <4> QED  BY <1>1, <2>1, <2>4, <3>3, <4>1
    <3> QED  BY <3>1, <3>2, <3>3
  <2> QED  BY <2>4 DEF OvertakesOnlySkipped
<1>4. ASSUME NEW m \in Member, NEW x \in todo[m],
             Forward(m, x) \/ ApplyError(m, x) \/ ProduceError(m, x)
      PROVE  OvertakesOnlySkipped'
  <2>1. UNCHANGED log /\ Visits(m, x) /\ (UNCHANGED out \/ Produce(x))
    BY <1>4 DEF Forward, ApplyError, ProduceError
  <2> QED  BY <1>2, <1>3, <2>1
<1>5. ASSUME NEW m \in Member,
             \/ Poll(m) \/ PollError(m) \/ Commit(m) \/ CommitError(m)
             \/ Crash(m) \/ Restart(m) \/ \E p \in Partition : Assign(p, m)
      PROVE  UNCHANGED out
  BY <1>5 DEF Poll, PollError, Commit, CommitError, Crash, Restart, Assign
<1>6. CASE Arrives
  BY <1>2, <1>6 DEF Arrives
<1> QED  BY <1>2, <1>4, <1>5, <1>6 DEF Step, RunOnce, Failure

-----------------------------------------------------------------------------
(* The theorems.                                                           *)

\* The inductive invariant holds initially.
LEMMA InvInit == Init => TransformerInv
<1> SUFFICES ASSUME Init PROVE TransformerInv
  OBVIOUS
<1> USE TransformerAssumption DEF Init
<1>1. TypeOK
  BY EmptySeq DEF TypeOK
<1>2. LogInv /\ OvertakesOnlySkipped
  BY EmptySeq DEF LogInv, OvertakesOnlySkipped
<1>3. TodoInv /\ OffsetInv
  BY DEF TodoInv, OffsetInv
<1> QED  BY <1>1, <1>2, <1>3 DEF TransformerInv

\* Every step keeps the inductive invariant.
LEMMA InvStep == TransformerInv /\ Step => TransformerInv'
BY TypeStep, LogStep, TodoStep, OffsetStep, OvertakeStep DEF TransformerInv

\* So does every step of the specification, stuttering included.
LEMMA InvNext == TransformerInv /\ [Next]_vars => TransformerInv'
BY NextIsStep, InvStep

\* The invariant holds of every reachable state.
THEOREM Invariance == Spec => []TransformerInv
BY InvInit, InvNext, PTL DEF Spec

\* Every variable of runOnce keeps its type, whatever fails.
THEOREM TypeCorrect == Spec => []TypeOK
<1>1. TransformerInv => TypeOK
  BY DEF TransformerInv
<1> QED  BY <1>1, Invariance, PTL

\* runOnce commits only what it produced: a committed record is in
\* transformed.*, unless an error made runOnce skip it.
THEOREM ProducedBeforeCommit == Spec => []NoSilentSkip
<1>1. TransformerInv => NoSilentSkip
  <2> SUFFICES ASSUME TransformerInv, NEW x \in CommittedIds
               PROVE  Forwarded(x) \/ x \in abandoned
    BY DEF NoSilentSkip
  <2>1. PICK p \in Partition : \E i \in 1 .. committed[p] : x = <<p, i>>
    BY DEF CommittedIds
  <2> QED  BY <2>1 DEF TransformerInv, OffsetInv, Settled
<1> QED  BY <1>1, Invariance, PTL

\* EachRecord keeps the order of a row: whichever replicas forwarded them and
\* after whatever crashes, rebalances and failed commits, a record is in
\* transformed.* only behind every older record of its row that no error made
\* runOnce skip.
THEOREM RowOrderKept == Spec => []OvertakesOnlySkipped
<1>1. TransformerInv => OvertakesOnlySkipped
  BY DEF TransformerInv
<1> QED  BY <1>1, Invariance, PTL
============================================================================
