-------------------------------- MODULE Desk --------------------------------
(***************************************************************************)
(* The account as its writers see it: the write tools of the MCP server    *)
(* (mt5_mcp/tools.py), the routes they call (routers/trading.py,           *)
(* positions.py, orders.py over services/trade.py), the rows of trades     *)
(* those commit (db/crud.py), and the job that trails stops                *)
(* (utils/trailing.py).  A route runs in a pool thread: it goes on when    *)
(* its caller gave up, and stops where it is when the process dies.        *)
(***************************************************************************)
EXTENDS Integers, FiniteSets

CONSTANTS Requests,       \* calls of tools; any number may be under way at once
          Tickets,        \* tickets the broker hands out, in order
          Tools,          \* [Requests -> sets of the tools each may be]
          Held,           \* position 1 from before: by hand, or with its row
          Sides, AskedStops, AskedTargets,   \* arguments they are called with
          Impatient,      \* bound: calls whose caller may give up
          Accepted,       \* positions whose stop the broker accepts in the end
          TopStep,        \* steps of the trailing stop
          Profits         \* bound: [Tickets -> the steps its profit may trigger]

Keep == -1      \* the argument was left out

ASSUME DeskAssumption ==
    /\ Tickets \subseteq Nat \ {0} /\ IsFiniteSet(Tickets) /\ 1 \in Tickets
    /\ Tools \in [Requests -> SUBSET {"market", "pending", "modify", "modify_row",
                                      "modify_order", "close", "close_all", "cancel"}]
    /\ Held \subseteq [side : {"BUY", "SELL"}, sl : Nat, recorded : BOOLEAN]
    /\ Sides \subseteq {"BUY", "SELL"}
    /\ AskedStops \subseteq Nat /\ AskedTargets \subseteq Nat \cup {Keep}
    /\ Profits \in [Tickets -> SUBSET (0..TopStep)] /\ Accepted \subseteq Tickets /\ TopStep \in Nat \ {0}

VARIABLES
  \* the broker's book
    book,       \* [Tickets -> [is, side, sl, tp]]
    \* the service
    req,        \* [Requests -> ...]  a tool's call and the route that serves it
    rows,       \* tickets of the table of trades
    notes,      \* tickets whose row has a record of its stops
    job         \* trailing_stop_handler

vars == <<book, req, rows, notes, job>>

None == 0       \* no stop, no target

(* Codes of the trade server, and an answer that carries none.             *)
Done == "DONE"
Placed == "PLACED"
Partial == "DONE_PARTIAL"
Unclear == "TIMEOUT"     \* 10012, "outcome is unknown": here, where it was executed
Refused == "a refusal"   \* every other code, and 10012 where it was not
NoCode == "none"

Unused == [is |-> "unused", side |-> "BUY", sl |-> None, tp |-> None]
Position(side, sl, tp) == [is |-> "open", side |-> side, sl |-> sl, tp |-> tp]
Gone == [Unused EXCEPT !.is = "gone"]
Resting(side, sl, tp) == [is |-> "resting", side |-> side, sl |-> sl, tp |-> tp]
Open == {t \in Tickets : book[t].is = "open"}
Free == {t \in Tickets : book[t].is = "unused"}
Least(S) == CHOOSE t \in S : \A u \in S : t <= u

NotCalled == [tool |-> "none", at |-> "new", ticket |-> 0, side |-> "BUY",
              sl |-> None, tp |-> Keep, seen |-> None, todo |-> {},
              did |-> {}, count |-> 0, told |-> "nothing"]

(* unseen: positions whose stop is not the one the scan saw, as a call, or *)
(* an answer of unknown outcome, moved it since (no variable of the code). *)
IdleJob == [at |-> "idle", snap |-> <<>>, k |-> 1, tp |-> None, unseen |-> {}]

(* The positions this scan has left, as it saw them; the one it is at.     *)
Left == DOMAIN job.snap
Current == Least(Left)
Passed == [job EXCEPT !.at = "scan", !.k = 1, !.unseen = @ \ {Current},
                      !.snap = [u \in Left \ {Current} |-> @[u]]]

(* One position is held from the start: opened by hand, without a row, or  *)
(* placed by an earlier process, with it.                                  *)
Init ==
    \E held \in Held :
       /\ book = [t \in Tickets |->
                    IF t = 1 THEN Position(held.side, held.sl, None) ELSE Unused]
       /\ req = [r \in Requests |-> NotCalled]
       /\ rows = (IF held.recorded THEN {1} ELSE {}) /\ notes = rows
       /\ job = IdleJob
-----------------------------------------------------------------------------
(* The market and the broker.                                              *)

(* A stop or a target is hit, or the position is closed by hand.           *)
StopsOut(t) ==
    /\ t \in Open
    /\ book' = [book EXCEPT ![t] = Gone]
    /\ UNCHANGED <<req, rows, notes, job>>

Triggers(t) ==
    /\ book[t].is = "resting"
    /\ book' = [book EXCEPT ![t].is = "open"]
    /\ UNCHANGED <<req, rows, notes, job>>
-----------------------------------------------------------------------------
(* The tools: each checks its arguments, sends one request and turns what  *)
(* comes back into an answer.  An order filled for less than it asked for  *)
(* is refused with a code of its own, and stands.                          *)

Call(r, tool, q) ==
    /\ req[r].at = "new" /\ tool \in Tools[r]
    /\ req' = [req EXCEPT ![r] = q]
    /\ UNCHANGED <<book, rows, notes, job>>

PlaceMarketOrder(r) ==
    \E side \in Sides, sl \in AskedStops :
       Call(r, "market", [NotCalled EXCEPT !.tool = "market", !.at = "send",
                                           !.side = side, !.sl = sl])

PlacePendingOrder(r) ==
    \E side \in Sides, sl \in AskedStops :
       Call(r, "pending", [NotCalled EXCEPT !.tool = "pending", !.at = "send",
                                            !.side = side, !.sl = sl])

ModifyPosition(r) ==
    \E t \in Tickets \ Free, sl \in AskedStops, tp \in AskedTargets :
       Call(r, "modify", [NotCalled EXCEPT !.tool = "modify", !.at = "read",
                                           !.ticket = t, !.sl = sl, !.tp = tp])

ModifyPendingOrder(r) ==
    \E t \in Tickets \ Free, sl \in AskedStops :
       Call(r, "modify_order", [NotCalled EXCEPT !.tool = "modify_order", !.at = "read",
                                                 !.ticket = t, !.sl = sl])

(* Not a tool: a client that names the row.  Without a row it is a 404.    *)
ModifySlTp(r) ==
    \E t \in rows, sl \in AskedStops :
       Call(r, "modify_row", [NotCalled EXCEPT !.tool = "modify_row", !.at = "read",
                                               !.ticket = t, !.sl = sl])

ClosePosition(r) ==
    \E t \in Tickets \ Free :
       Call(r, "close", [NotCalled EXCEPT !.tool = "close", !.at = "send", !.ticket = t])

CloseAllPositions(r) ==
    Call(r, "close_all", [NotCalled EXCEPT !.tool = "close_all", !.at = "list"])

CancelPendingOrder(r) ==
    \E t \in Tickets \ Free :
       Call(r, "cancel", [NotCalled EXCEPT !.tool = "cancel", !.at = "send", !.ticket = t])

UnderWay(r) == req[r].at \notin {"new", "done"}

(* The first answer is the one the tool returns; what the route answers    *)
(* later reaches nobody.                                                   *)
Told(q, answer) == IF q.told = "nothing" THEN answer ELSE q.told
Answered(q, answer) ==
    [NotCalled EXCEPT !.tool = q.tool, !.at = "done", !.did = q.did, !.count = q.count,
                      !.told = Told(q, answer)]

(* _refusal with explain: no code means it did not reach the trade server. *)
Refusal(code) == IF code = NoCode THEN "unreached" ELSE "refused"
Fail(r, code) == req' = [req EXCEPT ![r] = Answered(req[r], Refusal(code))]
Accept(r, q) == req' = [req EXCEPT ![r] = Answered(q, "ok")]

(* TIMEOUT seconds of the tool's client, or a connection that breaks.      *)
GiveUp(r) ==
    /\ r \in Impatient /\ UnderWay(r) /\ req[r].told = "nothing"
    /\ req' = [req EXCEPT ![r].told = Refusal(NoCode)]
    /\ UNCHANGED <<book, rows, notes, job>>
-----------------------------------------------------------------------------
(* The routes.                                                             *)

(* The codes checked and answered let pass, and the services before them:  *)
(* a resting order answered PLACED is an error already in trade.py.        *)
Success == {Done}

Checked(code) == code \in Success

(* What the trade server may answer; Refused stands for order_send         *)
(* answering None as well, whose last error is a code too.                 *)
Codes(q) ==
    {Done, Unclear, Refused} \cup
    CASE q.tool = "market"  -> {Partial}
      [] q.tool = "pending" -> {Placed}
      [] OTHER              -> {}
Executes(code) == code # Refused

Is(q) == IF q.tool \in {"modify_order", "cancel"} THEN "resting" ELSE "open"

(* positions_get or orders_get of the ticket, for the values left out.     *)
ReadTicket(r) ==
    LET q == req[r] IN
    /\ q.at = "read"
    /\ IF book[q.ticket].is = Is(q)
       THEN req' = [req EXCEPT ![r].at = "send", ![r].seen = book[q.ticket].tp]
       ELSE Fail(r, NoCode)
    /\ UNCHANGED <<book, rows, notes, job>>

Target(q) == IF q.tp = Keep THEN q.seen ELSE q.tp

(* What the server does of a request it executes. *)
Effect(q, t, code) ==
    CASE q.tool = "market"  -> [book EXCEPT ![t] = Position(q.side, q.sl, None)]
      [] q.tool = "pending" -> [book EXCEPT ![t] = Resting(q.side, q.sl, None)]
      [] q.tool \in {"modify", "modify_row", "modify_order"} ->
            [book EXCEPT ![t].sl = q.sl, ![t].tp = Target(q)]
      [] OTHER -> [book EXCEPT ![t] = Gone]

Ticket(q) == IF q.tool \in {"market", "pending"} THEN Least(Free) ELSE q.ticket
CanExecute(q) == IF q.tool \in {"market", "pending"}
                 THEN Free # {} ELSE book[q.ticket].is = Is(q)

(* order_send and the check of its answer.  Only the order route has work  *)
(* to do after it, and modify_row its record.                              *)
Send(r) ==
    LET q == req[r] IN
    /\ q.at = "send"
    /\ \E code \in Codes(q) :
         /\ Executes(code) => CanExecute(q)
         /\ LET t == IF Executes(code) THEN Ticket(q) ELSE 0
                done == IF Executes(code) THEN {t} ELSE {}
                q2 == [q EXCEPT !.ticket = IF Executes(code) THEN t ELSE @, !.did = done]
            IN /\ book' = IF Executes(code) THEN Effect(q, t, code) ELSE book
               /\ req' = [req EXCEPT ![r] =
                     IF ~Checked(code) THEN Answered(q2, Refusal(code))
                     ELSE IF q.tool = "market" THEN [q2 EXCEPT !.at = "row"]
                     ELSE IF q.tool = "modify_row" THEN [q2 EXCEPT !.at = "note"]
                     ELSE Answered(q2, "ok")]
               /\ job' = [job EXCEPT !.unseen = @ \cup (done \cap Left)]
    /\ UNCHANGED <<rows, notes>>

(* The reads a market order needs before its order: connector, tick, info. *)
SendFails(r) ==
    /\ req[r].at \in {"read", "send", "list"}
    /\ Fail(r, NoCode)
    /\ UNCHANGED <<book, rows, notes, job>>

(* send_order after checked: symbol info and account, then crud.create_trade*)
(* with its two commits.  Each may raise, as an error without a code.      *)
CreateTrade(r) ==
    /\ req[r].at = "row"
    /\ rows' = rows \cup {req[r].ticket}
    /\ req' = [req EXCEPT ![r].at = "note"]
    /\ UNCHANGED <<book, notes, job>>

(* Fault: the first stop is not recorded. *)
MutateTradeNot(r) ==
    /\ req[r].at = "note"
    /\ Accept(r, req[r])
    /\ UNCHANGED <<book, rows, notes, job>>

MutateTrade(r) ==
    /\ req[r].at = "note"
    /\ notes' = notes \cup {req[r].ticket}
    /\ Accept(r, req[r])
    /\ UNCHANGED <<book, rows, job>>

RowFails(r) ==
    /\ req[r].at \in {"row", "note"}
    /\ Fail(r, NoCode)
    /\ UNCHANGED <<book, rows, notes, job>>

(* close_all_positions: the listing, then one close after the other.       *)
ListPositions(r) ==
    /\ req[r].at = "list"
    /\ req' = [req EXCEPT ![r].at = "each", ![r].todo = Open]
    /\ UNCHANGED <<book, rows, notes, job>>

(* Fault: what was attempted is counted. *)
CountAttempts(closed) == 1
CountClosed(closed) == IF closed THEN 1 ELSE 0

(* A refusal is logged and skipped.  A symbol without a tick raises what   *)
(* nobody catches: the rest is left and so is the count.                   *)
CloseEach(r) ==
    LET q == req[r]
        t == Least(q.todo) IN
    /\ q.at = "each" /\ q.todo # {}
    /\ \/ \E closed \in BOOLEAN :
            /\ closed => t \in Open
            /\ book' = IF closed THEN [book EXCEPT ![t] = Gone] ELSE book
            /\ req' = [req EXCEPT ![r].todo = @ \ {t},
                                  ![r].count = @ + CountClosed(closed),
                                  ![r].did = IF closed THEN @ \cup {t} ELSE @]
       \/ /\ t \in Open
          /\ Fail(r, NoCode)
          /\ UNCHANGED book
    /\ UNCHANGED <<rows, notes, job>>

CloseAllAnswers(r) ==
    /\ req[r].at = "each" /\ req[r].todo = {}
    /\ Accept(r, req[r])
    /\ UNCHANGED <<book, rows, notes, job>>
-----------------------------------------------------------------------------
(* trailing_stop_handler, every 20 seconds, one at a time.  Step k of the  *)
(* table is tried from the highest; a step is its own trigger and its own  *)
(* distance from the entry, as both fall together.                         *)
TRAILING_STOP_STEPS == [k \in 1..TopStep |-> TopStep + 1 - k]

Entry == TopStep + 1
GetPriceAtPnl(side, step) == IF side = "BUY" THEN Entry + step ELSE Entry - step
Better(side, new, old) == IF side = "BUY" THEN new > old ELSE new < old

StopAt(t, k) == GetPriceAtPnl(book[t].side, TRAILING_STOP_STEPS[k])

(* The steps that would tighten its stop at this profit.  The position as  *)
(* the scan saw it decides, so they are known when the scan begins.        *)
Applies(t, profit) ==
    {k \in 1..TopStep : /\ profit >= TRAILING_STOP_STEPS[k]
                        /\ Better(book[t].side, StopAt(t, k), book[t].sl)}

(* get_positions.  The profit of a position is what the market made of it  *)
(* by then; nobody else reads it.                                          *)
Scan ==
    /\ job.at = "idle" /\ Open # {}
    /\ \E profit \in [Open -> 0..TopStep] :
          /\ \A t \in Open : profit[t] \in Profits[t]
          /\ job' = [IdleJob EXCEPT !.at = "scan",
                                    !.snap = [t \in Open |-> Applies(t, profit[t])]]
    /\ UNCHANGED <<book, req, rows, notes>>

Untried == {k \in job.snap[Current] : k >= job.k}

(* A position without a row, or without a step that would tighten its stop.*)
Skip ==
    /\ job.at = "scan" /\ Left # {}
    /\ Current \notin rows \/ Untried = {}
    /\ job' = Passed
    /\ UNCHANGED <<book, req, rows, notes>>

(* modify_sl_tp reads the position for its target; one that is gone raises,*)
(* which ends the scan.                                                    *)
JobReads ==
    /\ job.at = "scan" /\ Left # {} /\ Current \in rows /\ Untried # {}
    /\ job' = IF Current \in Open
              THEN [job EXCEPT !.at = "send", !.k = Least(Untried),
                               !.tp = book[Current].tp]
              ELSE IdleJob
    /\ UNCHANGED <<book, req, rows, notes>>

JobSends(t) ==
    /\ job.at = "send" /\ t = Current /\ t \in Open
    /\ book' = [book EXCEPT ![t].sl = StopAt(t, job.k),
                            ![t].tp = job.tp]
    /\ UNCHANGED <<req, rows, notes>>

JobMoves(t) ==
    /\ JobSends(t)
    /\ job' = [job EXCEPT !.at = "note"]

(* Any code but 10009: the next lower step is tried, on the position as the*)
(* scan saw it, whatever became of the higher one.                         *)
JobUnclear(t) ==
    /\ JobSends(t)
    /\ job' = [job EXCEPT !.at = "scan", !.k = @ + 1, !.unseen = @ \cup {t}]

(* Fault: a position that refuses every step ends the scan. *)
JobRefusedReturns ==
    /\ job.at = "send"
    /\ job' = IF job.k = TopStep THEN IdleJob ELSE [job EXCEPT !.at = "scan", !.k = @ + 1]
    /\ UNCHANGED <<book, req, rows, notes>>

JobRefused ==
    /\ job.at = "send"
    /\ job' = [job EXCEPT !.at = "scan", !.k = @ + 1]
    /\ UNCHANGED <<book, req, rows, notes>>

JobRaises ==
    /\ job.at \in {"send", "note"}
    /\ job' = IdleJob
    /\ UNCHANGED <<book, req, rows, notes>>

(* Fault: the lower steps are tried after one was taken. *)
JobNotesOn ==
    /\ job.at = "note"
    /\ notes' = notes \cup {Current}
    /\ job' = [job EXCEPT !.at = "scan", !.k = @ + 1]
    /\ UNCHANGED <<book, req, rows>>

JobNotes ==
    /\ job.at = "note"
    /\ notes' = notes \cup {Current}
    /\ job' = Passed
    /\ UNCHANGED <<book, req, rows>>

ScanEnds ==
    /\ job.at = "scan" /\ Left = {}
    /\ job' = IdleJob
    /\ UNCHANGED <<book, req, rows, notes>>
-----------------------------------------------------------------------------
(* The process of the API ends (os._exit of the connector, a redeploy) and *)
(* is started again: routes stop where they are, rows and book stay.  Bound:*)
(* it happens under a request; otherwise a scan starts over, no more.      *)
Crash ==
    /\ \E r \in Requests : UnderWay(r)
    /\ req' = [r \in Requests |->
                 IF UnderWay(r) THEN Answered(req[r], Refusal(NoCode)) ELSE req[r]]
    /\ job' = IdleJob
    /\ UNCHANGED <<book, rows, notes>>

Market == \E t \in Tickets : StopsOut(t) \/ Triggers(t)

Agent == \E r \in Requests :
    \/ PlaceMarketOrder(r) \/ PlacePendingOrder(r) \/ ModifyPosition(r)
    \/ ModifyPendingOrder(r) \/ ModifySlTp(r) \/ ClosePosition(r)
    \/ CloseAllPositions(r) \/ CancelPendingOrder(r) \/ GiveUp(r)

Route == \E r \in Requests :
    \/ ReadTicket(r) \/ Send(r) \/ SendFails(r) \/ CreateTrade(r)
    \/ MutateTrade(r) \/ RowFails(r) \/ ListPositions(r) \/ CloseEach(r)
    \/ CloseAllAnswers(r)

Trailing ==
    \/ Scan \/ Skip \/ JobReads \/ JobRefused \/ JobRaises
    \/ JobNotes \/ ScanEnds
    \/ \E t \in Tickets : JobMoves(t) \/ JobUnclear(t)

Next == Market \/ Agent \/ Route \/ Trailing \/ Crash

Spec == Init /\ [][Next]_vars

(* The scheduler runs the job, and order_send answers in the end, with any *)
(* code: an answer None raises and ends the scan for every position.  The  *)
(* stops of some positions it accepts in the end; the others it may refuse *)
(* for ever.                                                               *)
JobAnswered(t, k) ==
    /\ job.at = "send" /\ t = Current /\ k = job.k
    /\ JobMoves(t) \/ JobUnclear(t) \/ JobRefused

FairSpec ==
    /\ Spec
    /\ WF_vars(Trailing)
    /\ \A t \in Tickets, k \in 1..TopStep : SF_vars(JobAnswered(t, k))
    /\ \A t \in Accepted : SF_vars(JobMoves(t))
-----------------------------------------------------------------------------
(* Properties.                                                             *)

TypeOK ==
    /\ book \in [Tickets -> [is : {"unused", "resting", "open", "gone"},
                             side : {"BUY", "SELL"}, sl : Nat, tp : Nat]]
    /\ \A r \in Requests :
         /\ req[r].at \in {"new", "read", "send", "list", "each", "row",
                           "note", "done"}
         /\ req[r].told \in {"nothing", "ok", "refused", "unreached"}
         /\ req[r].at = "done" => req[r].told # "nothing"
         /\ req[r].did \subseteq Tickets /\ req[r].todo \subseteq Tickets
    /\ rows \subseteq Nat /\ notes \subseteq rows
    /\ job.at \in {"idle", "scan", "send", "note"} /\ Left \subseteq Tickets
    /\ job.at \in {"send", "note"} => Left # {} /\ job.k \in 1..TopStep

(* What an agent is told was done was done by its own call: the order or   *)
(* the change exists, the position it stops watching is gone, and close_all*)
(* counts what it closed and not what it attempted.                        *)
OkIsDone ==
    \A r \in Requests : req[r].told = "ok" =>
        IF req[r].tool = "close_all" THEN req[r].count = Cardinality(req[r].did)
        ELSE req[r].did # {}

Safe == TypeOK /\ OkIsDone

(* A row names an order the account held ("leaving this service's own      *)
(* database carrying positions the account never held", trading.py), and   *)
(* an order answered as placed has its row with the record of its stops, so*)
(* that the trailing job finds it after any restart.                       *)
RowsAgree ==
    /\ \A t \in rows : t \in Tickets /\ book[t].is \in {"open", "gone"}
    /\ \A r \in Requests : req[r].told = "ok" /\ req[r].tool = "market" => req[r].did \subseteq notes

(* The job moves a stop away from the price it guards, or the target, in   *)
(* two cases only, both of a position it does not look at again: a call    *)
(* moved them since the scan began, or the answer to a higher step left its*)
(* outcome open.                                                           *)
LoosensOnlyUnseen ==
    [][\A t \in Tickets :
         JobMoves(t) \/ JobUnclear(t) =>
            \/ t \in job.unseen
            \/ /\ Better(book[t].side, book'[t].sl, book[t].sl)
               /\ book'[t].tp = book[t].tp]_vars

(* The stop of a recorded position reaches every step its profit triggers, *)
(* or a scan finds the profit lower again: also after the job, or a call,  *)
(* loosened it, after restarts, and beside positions the broker refuses for*)
(* ever.  A short without a stop is left out: the job takes 0 for a better *)
(* one.                                                                    *)
Due(t, k) ==
    /\ t \in Open \cap rows /\ (t \in Left => k \in job.snap[t])
    /\ book[t].side = "BUY" \/ book[t].sl # None
    /\ Better(book[t].side, StopAt(t, k), book[t].sl)
Trailed == \A t \in Accepted, k \in 1..TopStep : Due(t, k) ~> ~Due(t, k)

(* Neither exemption; it does not hold: "Check if new SL is better than     *)
(* current SL" (trailing.py) asks the row of the scan.                     *)
NeverLoosens ==
    [][\A t \in Tickets :
         JobMoves(t) => Better(book[t].side, book'[t].sl, book[t].sl)]_vars

(* "the request did not reach the trade server" (retcodes.py): a tool that *)
(* says so has changed nothing.                                            *)
UnreachedIsUntouched ==
    \A r \in Requests : req[r].told = "unreached" /\ req[r].tool # "modify_row" =>
        req[r].did = {}
=============================================================================
