---------------------------- MODULE MCExecution ----------------------------
(***************************************************************************)
(* Small instances of Execution for TLC.                                   *)
(***************************************************************************)
EXTENDS Execution

CONSTANTS o1, o2, k1, k2

(* A modify of one side, the other side, and one that carries nothing. *)
MCAsks == {[price |-> 2, stop |-> 0], [price |-> 0, stop |-> 1], NoAsk}
=============================================================================
