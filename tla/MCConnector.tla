---------------------------- MODULE MCConnector ----------------------------
(***************************************************************************)
(* Small instances of Connector for TLC.                                   *)
(***************************************************************************)
EXTENDS Connector

CONSTANTS r1, r2, t1, t2
=============================================================================
