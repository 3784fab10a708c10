--------------------------- MODULE MCTransformer ---------------------------
(***************************************************************************)
(* Small instances of Transformer for TLC.                                 *)
(***************************************************************************)
EXTENDS Transformer, TLC

CONSTANTS m1, m2, p1, p2, k1, k2

PartitionPerKey == (k1 :> p1) @@ (k2 :> p2)

\* Members are interchangeable.
Symmetry == Permutations(Member)
=============================================================================
