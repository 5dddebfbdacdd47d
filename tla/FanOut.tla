------------------------------- MODULE FanOut -------------------------------
(***************************************************************************)
(* What the tick feed promises a subscriber, without queues: the accepted  *)
(* frames are numbered 1, 2, 3, ... and each subscriber walks that log     *)
(* forward.  It may be pushed forward past frames it has not read, but     *)
(* only as far as needed to be at most Backlog frames behind, so the       *)
(* newest frame is never the one lost.                                     *)
(*                                                                         *)
(* TickFeed (services/feed.py) implements this specification.              *)
(***************************************************************************)
EXTENDS Integers

CONSTANTS Subscribers,   \* consumers that may hold a subscription
          Backlog        \* frames a subscriber may be behind by, at least 1

VARIABLES accepted,      \* frames accepted since the process started
          live,          \* subscribers that hold a subscription
          upcoming,      \* number of the frame a subscriber reads next
          got            \* number of the frame a subscriber read last

vars == <<accepted, live, upcoming, got>>

Init ==
    /\ accepted = 0
    /\ live = {}
    /\ upcoming = [q \in Subscribers |-> 1]
    /\ got = [q \in Subscribers |-> 0]

(* The position of a subscriber once frame number n is in the log. *)
Advanced(position, n) ==
    IF position < n + 1 - Backlog THEN n + 1 - Backlog ELSE position

Publish ==
    /\ accepted' = accepted + 1
    /\ upcoming' = [q \in Subscribers |-> IF q \in live
                        THEN Advanced(upcoming[q], accepted + 1)
                        ELSE upcoming[q]]
    /\ UNCHANGED <<live, got>>

Join(q) ==
    /\ q \notin live
    /\ live' = live \cup {q}
    /\ upcoming' = [upcoming EXCEPT ![q] = accepted + 1]
    /\ got' = [got EXCEPT ![q] = accepted]
    /\ UNCHANGED accepted

Leave(q) ==
    /\ q \in live
    /\ live' = live \ {q}
    /\ upcoming' = [upcoming EXCEPT ![q] = 1]
    /\ got' = [got EXCEPT ![q] = 0]
    /\ UNCHANGED accepted

Read(q) ==
    /\ q \in live
    /\ upcoming[q] <= accepted
    /\ got' = [got EXCEPT ![q] = upcoming[q]]
    /\ upcoming' = [upcoming EXCEPT ![q] = @ + 1]
    /\ UNCHANGED <<accepted, live>>

(* The process is replaced: log and subscriptions start over. *)
Restart ==
    /\ accepted' = 0
    /\ live' = {}
    /\ upcoming' = [q \in Subscribers |-> 1]
    /\ got' = [q \in Subscribers |-> 0]

Next ==
    \/ Publish
    \/ Restart
    \/ \E q \in Subscribers : Join(q) \/ Leave(q) \/ Read(q)

Spec == Init /\ [][Next]_vars
=============================================================================
