----------------------------- MODULE MCSession -----------------------------
(***************************************************************************)
(* Small instances of Session, with its launcher, for TLC.                 *)
(***************************************************************************)
EXTENDS Session

CONSTANTS p1, p2

=============================================================================
