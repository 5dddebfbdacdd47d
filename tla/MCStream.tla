------------------------------ MODULE MCStream ------------------------------
(***************************************************************************)
(* Small instances of Stream for TLC.                                      *)
(***************************************************************************)
EXTENDS Stream

CONSTANTS s1, s2
=============================================================================
