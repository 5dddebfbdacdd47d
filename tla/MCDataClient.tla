---------------------------- MODULE MCDataClient ----------------------------
(***************************************************************************)
(* Small instances of DataClient for TLC.                                  *)
(***************************************************************************)
EXTENDS DataClient

MCOffsets == {-1, 0, 3}
=============================================================================
