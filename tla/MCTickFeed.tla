----------------------------- MODULE MCTickFeed -----------------------------
(***************************************************************************)
(* Small instances of TickFeed for TLC.                                    *)
(***************************************************************************)
EXTENDS TickFeed, TLC

CONSTANTS c1, c2, q1, q2

ConsumerSymmetry == Permutations({q1, q2})
=============================================================================
