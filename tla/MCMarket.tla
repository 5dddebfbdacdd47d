------------------------------ MODULE MCMarket ------------------------------
(***************************************************************************)
(* Small instances of Market for TLC.                                      *)
(***************************************************************************)
EXTENDS Market, TLC

CONSTANTS t1, t2, s1, s2

ThreadSymmetry == Permutations({t1, t2})

(* A name in another spelling, with an exact one. *)
MCBatches == {{[symbol |-> s1, exact |-> FALSE], [symbol |-> s2, exact |-> TRUE]}}
=============================================================================
