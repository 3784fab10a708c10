------------------------------- MODULE MCSink -------------------------------
(***************************************************************************)
(* Small instances of Sink for TLC.                                        *)
(***************************************************************************)
EXTENDS SinkRefinement, TLC

CONSTANTS m1, m2, p1, p2, k1, k2, t1, t2

\* One partition and one collection.
OnePartition == [k \in Key |-> p1]
OneTable == [k \in Key |-> t1]

\* Two partitions and two collections, one key in each.
PartitionPerKey == (k1 :> p1) @@ (k2 :> p2)
TablePerKey == (k1 :> t1) @@ (k2 :> t2)

Upserts == {"c", "u"}
AllOps == {"c", "u", "d"}

\* Members, and the keys of one partition and collection, are interchangeable.
Symmetry == Permutations(Member) \cup Permutations(Key)
=============================================================================
