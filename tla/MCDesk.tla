------------------------------- MODULE MCDesk -------------------------------
(***************************************************************************)
(* Small instances of Desk for TLC.                                        *)
(***************************************************************************)
EXTENDS Desk

CONSTANTS r1, r2

(* Two calls that meet in every way: one opens while the other changes what*)
(* is there, or rests an order while the other changes that.               *)
MCTools ==
    [r \in Requests |->
       IF r = r1 THEN {"market", "modify_order", "cancel", "close_all"}
       ELSE {"pending", "modify", "modify_row", "close"}]

(* A long an earlier process placed; the profit of what is opened beside it*)
(* goes up and down.                                                       *)
MCHeld == {[side |-> "BUY", sl |-> 0, recorded |-> TRUE]}
MCProfits == [t \in Tickets |-> IF t = 1 THEN {2} ELSE 0..2]
=============================================================================
