---------------------------- MODULE Transformer ----------------------------
(***************************************************************************)
(* The transformer service: replicas of one consumer group copy the cdc.*  *)
(* topics to transformed.*, record by record (transformer/cmd/transformer, *)
(* runOnce and the loop of main).                                          *)
(*                                                                         *)
(* The consumer-group client behaves as in module Sink: every poll moves   *)
(* the position of the session, only a new assignment resets it, and a     *)
(* commit stores the marked offsets.  What runOnce does differently is to  *)
(* commit the records it produced before an error, and to skip the rest.   *)
(*                                                                         *)
(* A record is named <<p, i>>, the i-th of input partition p.  Both topics *)
(* are partitioned by the primary key, so out[k] is all a consumer of      *)
(* transformed.* can rely on: the records of key k in production order,    *)
(* each given by its input offset.                                         *)
(***************************************************************************)
EXTENDS Integers, Sequences, FiniteSets

CONSTANTS
  Member,       \* transformer replicas
  Partition,    \* partitions of cdc.*
  Key,          \* primary keys
  PartitionOf,  \* key -> its partition in cdc.*
  NoMember,     \* "not assigned"
  NoPartition,  \* "no record of the batch processed yet"
  Faults,       \* what may go wrong
  MaxRecords,   \* bound: records Debezium writes
  MaxPoll,      \* bound: records per partition in one poll
  MaxFaults     \* bound: faults in one behaviour

FaultKind ==
  {"crash", "rebalance", "commit", "fetch", "produce", "poison"}

ASSUME TransformerAssumption ==
  /\ PartitionOf \in [Key -> Partition]
  /\ NoMember \notin Member
  /\ NoPartition \notin Partition
  /\ Faults \subseteq FaultKind
  /\ MaxRecords \in Nat
  /\ MaxPoll \in Nat \ {0}
  /\ MaxFaults \in Nat

VARIABLES
  log,        \* partition of cdc.* -> sequence of records
  out,        \* key -> input offsets in transformed.*, in order
  committed,  \* partition -> committed offset of the group
  owner,      \* partition -> member it is assigned to
  pc,         \* member -> where runOnce is
  pos,        \* member -> partition -> fetch position of the session
  marks,      \* member -> partition -> marked offset of the session
  todo,       \* member -> records EachRecord has not visited
  cur,        \* member -> partition EachRecord is in
  ends,       \* member -> partition -> last committable offset, 0 if none
  faultCount,
  abandoned   \* history: records polled and skipped because of an error

groupVars  == <<committed, owner>>
memberVars == <<pc, pos, marks, todo, cur, ends>>
vars == <<log, out, groupVars, memberVars, faultCount, abandoned>>

-----------------------------------------------------------------------------
\* ApplyJSON fails on a poison record; it passes or rewrites every other one,
\* and a tombstone is forwarded as it is.
Record == [key : Key, poison : BOOLEAN]

RecordAt(x) == log[x[1]][x[2]]
Ids == UNION {{<<p, i>> : i \in 1 .. Len(log[p])} : p \in Partition}

Init ==
  /\ log = [p \in Partition |-> <<>>]
  /\ out = [k \in Key |-> <<>>]
  /\ committed = [p \in Partition |-> 0]
  /\ owner = [p \in Partition |-> NoMember]
  /\ pc = [m \in Member |-> "poll"]
  /\ pos = [m \in Member |-> [p \in Partition |-> 0]]
  /\ marks = [m \in Member |-> [p \in Partition |-> 0]]
  /\ todo = [m \in Member |-> {}]
  /\ cur = [m \in Member |-> NoPartition]
  /\ ends = [m \in Member |-> [p \in Partition |-> 0]]
  /\ faultCount = 0
  /\ abandoned = {}

Fault(f) ==
  /\ f \in Faults
  /\ faultCount < MaxFaults
  /\ faultCount' = faultCount + 1

NoFault == UNCHANGED faultCount

-----------------------------------------------------------------------------
\* Debezium writes a record.
Capture(k, bad) ==
  /\ Cardinality(Ids) < MaxRecords
  /\ IF bad THEN Fault("poison") ELSE NoFault
  /\ log' = [log EXCEPT ![PartitionOf[k]] = Append(@, [key |-> k, poison |-> bad])]
  /\ UNCHANGED <<out, groupVars, memberVars, abandoned>>

\* Mutant: the committed offset is taken for the last one processed.
StartOffByOne(p) == committed[p] - 1

\* Mutant: a session starts at the end of the partition.
StartAtEnd(p) == Len(log[p])

\* Where a session starts to read.
StartOffset(p) == committed[p]

\* p is assigned to m, whose session starts at the committed offset.
Assign(p, m) ==
  /\ pc[m] # "down"
  /\ owner[p] # m
  /\ IF owner[p] = NoMember THEN NoFault ELSE Fault("rebalance")
  /\ owner' = [owner EXCEPT ![p] = m]
  /\ pos' = [pos EXCEPT ![m][p] = StartOffset(p)]
  /\ marks' = [marks EXCEPT ![m][p] = StartOffset(p)]
  /\ UNCHANGED <<log, out, committed, pc, todo, cur, ends, abandoned>>

-----------------------------------------------------------------------------
(* runOnce.                                                                *)

Fetchable(m, n) ==
  \A p \in Partition :
    n[p] # 0 => owner[p] = m /\ pos[m][p] + n[p] <= Len(log[p])

Fetched(m, n) ==
  UNION {{<<p, i>> : i \in pos[m][p] + 1 .. pos[m][p] + n[p]} : p \in Partition}

AdvancePos(m, n) ==
  pos' = [pos EXCEPT ![m] = [p \in Partition |-> pos[m][p] + n[p]]]

\* PollFetches returns records and moves the position past them.
Poll(m) ==
  /\ pc[m] = "poll"
  /\ \E n \in [Partition -> 0 .. MaxPoll] :
       /\ Fetchable(m, n)
       /\ Fetched(m, n) # {}
       /\ AdvancePos(m, n)
       /\ todo' = [todo EXCEPT ![m] = Fetched(m, n)]
  /\ cur' = [cur EXCEPT ![m] = NoPartition]
  /\ ends' = [ends EXCEPT ![m] = [p \in Partition |-> 0]]
  /\ pc' = [pc EXCEPT ![m] = "each"]
  /\ NoFault
  /\ UNCHANGED <<log, out, groupVars, marks, abandoned>>

\* One partition of the fetch failed: the records of the others are dropped.
PollError(m) ==
  /\ pc[m] = "poll"
  /\ Fault("fetch")
  /\ \E n \in [Partition -> 0 .. MaxPoll] :
       /\ Fetchable(m, n)
       /\ Fetched(m, n) # {}
       /\ AdvancePos(m, n)
       /\ abandoned' = abandoned \cup Fetched(m, n)
  /\ UNCHANGED <<log, out, groupVars, pc, marks, todo, cur, ends>>

\* Mutant: the records of a poll are produced concurrently.
VisitsAny(m, x) ==
  /\ pc[m] = "each"
  /\ x \in todo[m]

\* The record EachRecord visits: it goes through a partition in offset order,
\* and through the partitions one after the other.
Visits(m, x) ==
  /\ pc[m] = "each"
  /\ x \in todo[m]
  /\ \A y \in todo[m] : y[1] = x[1] => x[2] <= y[2]
  /\ cur[m] = x[1] \/ \A y \in todo[m] : y[1] # cur[m]

\* After EachRecord: MarkCommitRecords and CommitMarkedOffsets, if anything
\* was produced.
Commits(produced) == IF produced THEN "commit" ELSE "poll"

\* Mutant: the produce is not waited for, so a record may be lost unnoticed.
ProduceAsync(x) ==
  out' \in {out, [out EXCEPT ![RecordAt(x).key] = Append(@, x[2])]}

\* The broker appends the record, which keeps its key.
Produce(x) == out' = [out EXCEPT ![RecordAt(x).key] = Append(@, x[2])]

\* ApplyJSON and ProduceSync succeed on x; it joins committable.
Forward(m, x) ==
  /\ Visits(m, x)
  /\ ~RecordAt(x).poison
  /\ Produce(x)
  /\ todo' = [todo EXCEPT ![m] = @ \ {x}]
  /\ cur' = [cur EXCEPT ![m] = x[1]]
  /\ ends' = [ends EXCEPT ![m][x[1]] = x[2]]
  /\ pc' = [pc EXCEPT ![m] = IF todo[m] = {x} THEN Commits(TRUE) ELSE "each"]
  /\ NoFault
  /\ UNCHANGED <<log, groupVars, pos, marks, abandoned>>

\* firstErr is set: EachRecord visits no other record of the poll.
SkipRest(m) ==
  /\ abandoned' = abandoned \cup
       {x \in todo[m] : owner[x[1]] = m /\ x[2] <= pos[m][x[1]]}
  /\ todo' = [todo EXCEPT ![m] = {}]
  /\ pc' = [pc EXCEPT ![m] = Commits(\E p \in Partition : ends[m][p] # 0)]

\* ApplyJSON fails on x.
ApplyError(m, x) ==
  /\ Visits(m, x)
  /\ RecordAt(x).poison
  /\ SkipRest(m)
  /\ NoFault
  /\ UNCHANGED <<log, out, groupVars, pos, marks, cur, ends>>

\* ProduceSync reports an error, whether or not the broker has the record.
ProduceError(m, x) ==
  /\ Visits(m, x)
  /\ ~RecordAt(x).poison
  /\ Fault("produce")
  /\ \/ UNCHANGED out
     \/ Produce(x)
  /\ SkipRest(m)
  /\ UNCHANGED <<log, groupVars, pos, marks, cur, ends>>

MaxOf(a, b) == IF a < b THEN b ELSE a

\* MarkCommitRecords of committable, records of partitions m has lost too.
Marked(m) == [p \in Partition |-> MaxOf(marks[m][p], ends[m][p])]

\* What the broker may hold after it took a commit of m, as in module Sink: it
\* is fenced by the generation of m, not by its assignment, so a mark of a
\* partition m has lost may go out too and set the offset back.
Stored(m) ==
  {[p \in Partition |-> IF p \in S THEN Marked(m)[p] ELSE committed[p]] :
     S \in {T \in SUBSET {p \in Partition : Marked(m)[p] # 0} :
             \A p \in Partition : owner[p] = m /\ ends[m][p] # 0 => p \in T}}

\* MarkCommitRecords and CommitMarkedOffsets; runOnce returns firstErr, and
\* the loop of main polls again.
Commit(m) ==
  /\ pc[m] = "commit"
  /\ marks' = [marks EXCEPT ![m] = Marked(m)]
  /\ committed' \in Stored(m)
  /\ pc' = [pc EXCEPT ![m] = "poll"]
  /\ NoFault
  /\ UNCHANGED <<log, out, owner, pos, todo, cur, ends, abandoned>>

\* The commit fails, before or after the broker took the offsets.
CommitError(m) ==
  /\ pc[m] = "commit"
  /\ Fault("commit")
  /\ marks' = [marks EXCEPT ![m] = Marked(m)]
  /\ committed' \in {committed} \cup Stored(m)
  /\ pc' = [pc EXCEPT ![m] = "poll"]
  /\ UNCHANGED <<log, out, owner, pos, todo, cur, ends, abandoned>>

\* The process ends: a kill, a signal, or the break of main's loop after
\* context.Canceled or DeadlineExceeded.
Crash(m) ==
  /\ pc[m] # "down"
  /\ Fault("crash")
  /\ pc' = [pc EXCEPT ![m] = "down"]
  /\ todo' = [todo EXCEPT ![m] = {}]
  /\ owner' = [p \in Partition |-> IF owner[p] = m THEN NoMember ELSE owner[p]]
  /\ marks' = [marks EXCEPT ![m] = [p \in Partition |-> 0]]
  /\ UNCHANGED <<log, out, committed, pos, cur, ends, abandoned>>

Restart(m) ==
  /\ pc[m] = "down"
  /\ pc' = [pc EXCEPT ![m] = "poll"]
  /\ NoFault
  /\ UNCHANGED <<log, out, groupVars, pos, marks, todo, cur, ends, abandoned>>

-----------------------------------------------------------------------------
RunOnce(m) ==
  \/ Poll(m) \/ Commit(m)
  \/ \E x \in todo[m] : Forward(m, x) \/ ApplyError(m, x)

Failure(m) ==
  \/ PollError(m) \/ CommitError(m) \/ Crash(m)
  \/ \E x \in todo[m] : ProduceError(m, x)

Next ==
  \/ \E k \in Key, bad \in BOOLEAN : Capture(k, bad)
  \/ \E m \in Member :
       \/ RunOnce(m) \/ Failure(m) \/ Restart(m)
       \/ \E p \in Partition : Assign(p, m)

Spec == Init /\ [][Next]_vars

-----------------------------------------------------------------------------
(* Correctness.                                                            *)

\* Every variable has its type.
TypeOK ==
  /\ log \in [Partition -> Seq(Record)]
  /\ out \in [Key -> Seq(Nat \ {0})]
  /\ committed \in [Partition -> Nat]
  /\ owner \in [Partition -> Member \cup {NoMember}]
  /\ pc \in [Member -> {"poll", "each", "commit", "down"}]
  /\ pos \in [Member -> [Partition -> Nat]]
  /\ marks \in [Member -> [Partition -> Nat]]
  /\ todo \in [Member -> SUBSET (Partition \X (Nat \ {0}))]
  /\ cur \in [Member -> Partition \cup {NoPartition}]
  /\ ends \in [Member -> [Partition -> Nat]]
  /\ faultCount \in Nat
  /\ abandoned \in SUBSET (Partition \X (Nat \ {0}))

CommittedIds == UNION {{<<p, i>> : i \in 1 .. committed[p]} : p \in Partition}

Forwarded(x) == \E j \in DOMAIN out[RecordAt(x).key] : out[RecordAt(x).key][j] = x[2]

\* "Offsets commit only after produce is ack'd", with the one way runOnce
\* breaks it: a record is committed without having been produced only if an
\* error made runOnce skip it and a later poll committed a higher offset of
\* its partition.
NoSilentSkip == \A x \in CommittedIds : Forwarded(x) \/ x \in abandoned

\* An update never overtakes the insert of its row: a record is in
\* transformed.* only behind a copy of every older record of its row, whoever
\* produced them and after however many crashes, rebalances and failed
\* commits.  The exception is an older record that an error made runOnce skip.
OvertakesOnlySkipped ==
  \A k \in Key : \A j \in DOMAIN out[k] :
    \A i \in 1 .. out[k][j] :
      log[PartitionOf[k]][i].key = k =>
        \/ \E l \in 1 .. j : out[k][l] = i
        \/ <<PartitionOf[k], i>> \in abandoned
=============================================================================
