----------------------------- MODULE MCPipeline -----------------------------
(***************************************************************************)
(* Small instances of Pipeline for TLC.                                    *)
(***************************************************************************)
EXTENDS Pipeline, TLC

CONSTANTS p1, t1, e1, e2, x1, x2, s1

\* users has one partition; two ids can be handed out.
Ids == {1, 2}
OnePartition == [k \in Ids |-> p1]
OneTable == [k \in Ids |-> t1]
=============================================================================
