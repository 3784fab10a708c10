----------------------------- MODULE MCDlqTool -----------------------------
(***************************************************************************)
(* Small instances of DlqTool for TLC.                                     *)
(***************************************************************************)
EXTENDS DlqTool, TLC

CONSTANTS p1, p2
=============================================================================
