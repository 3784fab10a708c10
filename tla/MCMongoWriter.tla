--------------------------- MODULE MCMongoWriter ---------------------------
(***************************************************************************)
(* Small instances of MongoWriter for TLC.                                 *)
(***************************************************************************)
EXTENDS MongoWriter, TLC

CONSTANTS k1, k2, t1, t2

TablePerKey == (k1 :> t1) @@ (k2 :> t2)
=============================================================================
