--------------------------- MODULE MCAutoTrading ---------------------------
(***************************************************************************)
(* Small instances of AutoTrading for TLC.                                 *)
(***************************************************************************)
EXTENDS AutoTrading

CONSTANTS p1, p2, p3
=============================================================================
