----------------------------- MODULE MCLagProbe -----------------------------
(***************************************************************************)
(* Small instances of LagProbe for TLC.                                    *)
(***************************************************************************)
EXTENDS LagProbe, TLC

CONSTANTS p1, p2
=============================================================================
