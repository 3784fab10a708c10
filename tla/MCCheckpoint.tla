---------------------------- MODULE MCCheckpoint ----------------------------
(***************************************************************************)
(* Small instances of Checkpoint for TLC.                                  *)
(***************************************************************************)
EXTENDS Checkpoint, TLC

CONSTANTS r1, p1, p2

\* One replica consumes every partition.
OneOwner == [p \in Partition |-> r1]

\* One partition, and two with interleaved LSNs.
ShortLog == p1 :> <<1, 2>>
TwoLogs == (p1 :> <<1, 3>>) @@ (p2 :> <<2>>)
=============================================================================
