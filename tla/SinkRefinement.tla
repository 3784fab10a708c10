--------------------------- MODULE SinkRefinement ---------------------------
(***************************************************************************)
(* The refinement mapping from Sink to RowReplica: partitions, offsets,    *)
(* batches and members disappear, the log becomes the changes of each row, *)
(* the committed offsets become the images they cover, and the records     *)
(* given up or swallowed become the images lost.                           *)
(***************************************************************************)
EXTENDS Sink

\* The LSNs of the records of k among the first n of its partition.
LsnsOf(k, n, Wanted(_)) ==
  LET p == PartitionOf[k] IN
    {log[p][i].lsn : i \in {j \in 1 .. n : log[p][j].key = k /\ Wanted(<<p, j>>)}}

IsDelete(x) == RecordAt(x).op = "d"

\* The LSNs of the images of k that were given up or swallowed.
LostLsns(k) ==
  {RecordAt(x).lsn : x \in {y \in abandoned \cup swallowed : KeyAt(y) = k /\ IsUpsert(y)}}

Replica == INSTANCE RowReplica WITH
  images  <- [k \in Key |-> LsnsOf(k, Len(log[PartitionOf[k]]), IsUpsert)],
  deletes <- [k \in Key |-> LsnsOf(k, Len(log[PartitionOf[k]]), IsDelete)],
  view    <- docs,
  acked   <- [k \in Key |-> LsnsOf(k, committed[PartitionOf[k]], IsUpsert)],
  lost    <- [k \in Key |-> LostLsns(k)]

\* Whatever fails, every step of the sink is a step of RowReplica or invisible
\* to it: replicas, redelivery, late writes and bulk order never show a row an
\* image that is not its own or not newer, a delete only removes older images,
\* and a commit acknowledges only what Mongo holds or what RunOnce gave up
\* (abandoned) or took for a stale replay (swallowed) before.
ImplementsReplica == Replica!Spec
=============================================================================
