----------------------------- MODULE Execution -----------------------------
(***************************************************************************)
(* The order side of the Nautilus adapter (nautilus_mt5/execution.py) over *)
(* either of its transports, down to the terminal that holds the book:     *)
(*   "http"  bridge.py, the routes of MT5/api/app/routers and trade.py,    *)
(*           where a refusal is a 400 and so an exception of the client    *)
(*   "rpyc"  proxy.py, where a refusal is an envelope without success      *)
(* Every command of the engine is a task of its own on the client's loop;  *)
(* every await is a point where the other tasks and the market go on.  A   *)
(* call that times out may still reach the terminal, later.                *)
(* An order fills whole (FOK, the one mode of this account).  A ticket     *)
(* names the order and then its position, so both are written `o` here.    *)
(***************************************************************************)
EXTENDS Integers

CONSTANTS Orders,       \* orders of this desk, named by their client id
          Markets,      \* the market orders among them; the others are limits
          Stopped,      \* the orders submitted with a stop
          Carried,      \* the orders an earlier run may have left behind
          Tasks,        \* commands that may run at once
          Transports,   \* the transports a desk may be configured with
          Asks,         \* what a modify may carry: [price, stop], 0 for None
          MaxLevel,     \* bound: prices, stops and targets
          MaxCommands,  \* bound: commands of the engine
          MaxLost       \* bound: calls whose answer never comes

Levels == 0..MaxLevel

ASSUME ExecutionAssumption ==
    /\ Markets \subseteq Orders /\ Stopped \subseteq Orders
    /\ Carried \subseteq Orders
    /\ "none" \notin Orders
    /\ Transports \subseteq {"http", "rpyc"} /\ Transports # {}
    /\ Asks \subseteq [price : Levels, stop : Levels]
    /\ MaxLevel \in Nat \ {0} /\ MaxCommands \in Nat /\ MaxLost \in Nat

VARIABLES
    transport,  \* what the desk is configured with
    book,       \* [Orders -> where it is at the broker]
    level,      \* [Orders -> the price, stop and target the broker holds]
    late,       \* requests whose caller has given up
    engine,     \* [Orders -> the state the engine was told]
    fills,      \* [Orders -> the trade ids it was told]
    doubted,    \* history: orders rejected although they may stand
    described,  \* the orders whose instrument the provider has loaded
    task,       \* [Tasks -> what the command has done so far]
    commands, lost

broker == <<book, level>>
told   == <<engine, fills, doubted>>
vars   == <<transport, broker, late, told, described, task, commands, lost>>

Verbs == {"place", "remove", "move", "protect"}
Request == [verb : Verbs, o : Orders, a : Levels, b : Levels]
Ask(verb, o, a, b) == [verb |-> verb, o |-> o, a |-> a, b |-> b]
NoRequest == [verb |-> "none"]
NoAsk     == [price |-> 0, stop |-> 0]
NoSight   == [resting |-> FALSE, held |-> FALSE, sl |-> 0, tp |-> 0]

Idle(out) ==
    [op |-> "idle", at |-> "idle", o |-> "none", req |-> NoRequest,
     reply |-> "none", ask |-> NoAsk, seen |-> NoSight, sure |-> FALSE,
     rest |-> {}, out |-> out]

Waiting == {"placing", "removing", "dropping", "modifying"}

Stop(o) == IF o \in Stopped THEN 1 ELSE 0
Standing(o) == [price |-> 1, sl |-> Stop(o), tp |-> 0]
Nowhere     == [price |-> 0, sl |-> 0, tp |-> 0]

(* The engine's cache may hold orders of an earlier run, whose instruments *)
(* nothing has loaded in this one.                                         *)
Init ==
    /\ transport \in Transports
    /\ \E carried \in SUBSET Carried :
         /\ book \in [Orders -> {"none", "resting", "held", "cancelled"}]
         /\ \A o \in Orders : book[o] = "none" <=> o \notin carried
         /\ level = [o \in Orders |->
                       IF o \in carried THEN Standing(o) ELSE Nowhere]
         /\ engine = [o \in Orders |->
                        IF o \in carried THEN "accepted" ELSE "initialized"]
    /\ late = {} /\ doubted = {} /\ described = {}
    /\ fills = [o \in Orders |-> {}]
    /\ task = [k \in Tasks |-> Idle("none")]
    /\ commands = 0 /\ lost = 0
-----------------------------------------------------------------------------
(* The terminal and the way to it.                                         *)

(* What a request does to the book when the terminal takes it, and the     *)
(* code it answers with.  A limit the market has reached fills at once; a  *)
(* market order may be taken and still be working.                         *)
Placing(r, code) ==
    /\ r.verb = "place" /\ book[r.o] = "none"
    /\ level' = [level EXCEPT ![r.o] = [price |-> 1, sl |-> r.a, tp |-> r.b]]
    /\ \/ book' = [book EXCEPT ![r.o] = "held"] /\ code = "done"
       \/ book' = [book EXCEPT ![r.o] = "resting"] /\ code = "placed"
       \/ /\ r.o \notin Markets /\ code = "done"
          /\ book' = [book EXCEPT ![r.o] = "resting"]

Removing(r, code) ==
    /\ r.verb = "remove" /\ book[r.o] = "resting" /\ code = "done"
    /\ book' = [book EXCEPT ![r.o] = "cancelled"]
    /\ UNCHANGED level

Moving(r, code) ==
    /\ r.verb = "move" /\ book[r.o] = "resting" /\ code = "done"
    /\ level' = [level EXCEPT ![r.o].price = r.a]
    /\ UNCHANGED book

(* A target left out is the position's own over HTTP, none over RPyC.      *)
Target(r) ==
    IF r.b = 0 /\ transport = "http" THEN level[r.o].tp ELSE r.b

Protecting(r, code) ==
    /\ r.verb = "protect" /\ book[r.o] = "held" /\ code = "done"
    /\ level' = [level EXCEPT ![r.o].sl = r.a, ![r.o].tp = Target(r)]
    /\ UNCHANGED book

Refusing(code) == code = "refused" /\ UNCHANGED broker

Perform(r, code) ==
    \/ Placing(r, code) \/ Removing(r, code)
    \/ Moving(r, code) \/ Protecting(r, code)
    \/ Refusing(code)

(* What the route makes of the terminal's code: placements too are checked *)
(* against DONE alone before the route that accepts PLACED sees them.      *)
Answered(r, code) ==
    IF transport = "http" /\ code = "placed" THEN "refused" ELSE code

(* What a command is left with when the outcome is not told: an exception, *)
(* or an envelope that says neither (10012, or no answer of order_send).   *)
NoAnswer == {"lost", "unclear"}

Answer(k) ==
    /\ task[k].at \in Waiting /\ task[k].reply = "none"
    /\ \E code \in {"done", "placed", "refused"} :
          /\ Perform(task[k].req, code)
          /\ \/ /\ task' = [task EXCEPT ![k].reply =
                                Answered(task[k].req, code)]
                /\ UNCHANGED lost
             \/ /\ lost < MaxLost /\ lost' = lost + 1
                /\ \E reply \in NoAnswer :
                      task' = [task EXCEPT ![k].reply = reply]
    /\ UNCHANGED <<transport, late, told, described, commands>>

TimeOut(k) ==
    /\ task[k].at \in Waiting /\ task[k].reply = "none" /\ lost < MaxLost
    /\ lost' = lost + 1
    /\ late' = late \cup {task[k].req}
    /\ \E reply \in NoAnswer : task' = [task EXCEPT ![k].reply = reply]
    /\ UNCHANGED <<transport, broker, told, described, commands>>

LateArrives ==
    /\ \E r \in late : /\ \E code \in {"done", "placed", "refused"} :
                             Perform(r, code)
                       /\ late' = late \ {r}
    /\ UNCHANGED <<transport, told, described, task, commands, lost>>

Market(o) ==
    /\ book[o] = "resting"
    /\ book' = [book EXCEPT ![o] = "held"]
    /\ UNCHANGED <<transport, level, late, told, described, task, commands, lost>>
-----------------------------------------------------------------------------
(* Steps every command is made of.                                         *)

Answers(k) == task[k].at \in Waiting /\ task[k].reply # "none"

(* The await raised: no answer in time, or BridgeError for a status of 400 *)
(* and above.                                                              *)
Raised(k) ==
    \/ task[k].reply = "lost"
    \/ task[k].reply = "refused" /\ transport = "http"

Sends(k, at, r) ==
    task' = [task EXCEPT ![k].at = at, ![k].req = r, ![k].reply = "none"]
Goes(k, at) ==
    task' = [task EXCEPT ![k].at = at, ![k].req = NoRequest,
                         ![k].reply = "none"]
Ends(k, out) == task' = [task EXCEPT ![k] = Idle(out)]

Tells(o, state) ==
    /\ engine' = [engine EXCEPT ![o] = state]
    /\ UNCHANGED <<fills, doubted>>
TellsFill(o, id) ==
    /\ engine' = [engine EXCEPT ![o] = "filled"]
    /\ fills' = [fills EXCEPT ![o] = @ \cup {id}]
    /\ UNCHANGED doubted

(* Rejected, as the safe reading of an answer that does not say.           *)
Doubts(o) ==
    /\ engine' = [engine EXCEPT ![o] = "rejected"]
    /\ doubted' = doubted \cup {o}
    /\ UNCHANGED fills

Begins(k) ==
    /\ task[k].op = "idle" /\ commands < MaxCommands
    /\ commands' = commands + 1
    /\ UNCHANGED <<transport, broker, late, lost>>
Keeps == UNCHANGED <<transport, broker, late, commands, lost>>
Continues == Keeps /\ UNCHANGED described

(* _instrument: the provider is asked once, and may not know the symbol.   *)
Loads(o) == described' \in {described, described \cup {o}}

Ticket(o) == engine[o] \in {"accepted", "canceled", "filled"}
Open(o) == engine[o] \in {"submitted", "accepted"}
-----------------------------------------------------------------------------
(* _submit_order                                                           *)

RejectEarly(k, o) ==
    /\ Begins(k) /\ engine[o] = "initialized"
    /\ Tells(o, "rejected") /\ Ends(k, "rejected")
    /\ UNCHANGED described

(* Loading the instrument raised: no event, and the order initialized.     *)
SubmitUndescribed(k, o) ==
    /\ Begins(k) /\ engine[o] = "initialized" /\ o \notin described
    /\ Ends(k, "undescribed")
    /\ UNCHANGED <<told, described>>

Submit(k, o) ==
    /\ Begins(k) /\ engine[o] = "initialized"
    /\ described' = described \cup {o}
    /\ Tells(o, "submitted")
    /\ task' = [task EXCEPT ![k].op = "submit", ![k].o = o,
                            ![k].at = "placing",
                            ![k].req = Ask("place", o, Stop(o), 0)]

(* Fault: PLACED read as a refusal by the client. *)
TakenDone == {"done"}

Taken == {"placed", "done"}
(* Fault: a limit's DONE taken for a fill. *)
IsFillDone(o, code) == code = "done"

IsFill(o, code) == o \in Markets /\ code = "done"

(* A fill is named by its deal, or by the order when no deal was named.    *)
TradeIds == {"deal", "ticket"}

(* Without an event: the exception leaves the task, the order submitted.   *)
SubmitRaises(k) ==
    /\ task[k].at = "placing" /\ Answers(k) /\ Raised(k)
    /\ Ends(k, "silent")
    /\ Continues /\ UNCHANGED told

SubmitRefused(k) ==
    /\ task[k].at = "placing" /\ Answers(k) /\ ~Raised(k)
    /\ task[k].reply \notin Taken
    /\ IF task[k].reply = "unclear" THEN Doubts(task[k].o)
       ELSE Tells(task[k].o, "rejected")
    /\ Ends(k, "rejected")
    /\ Continues

(* Confirmed, and no ticket came back.                                     *)
SubmitUnticketed(k) ==
    /\ task[k].at = "placing" /\ Answers(k) /\ ~Raised(k)
    /\ task[k].reply \in Taken
    /\ Doubts(task[k].o) /\ Ends(k, "rejected")
    /\ Continues

SubmitAccepted(k) ==
    /\ task[k].at = "placing" /\ Answers(k) /\ ~Raised(k)
    /\ task[k].reply \in Taken
    /\ \/ /\ ~IsFill(task[k].o, task[k].reply)
          /\ Tells(task[k].o, "accepted") /\ Ends(k, "accepted")
       \/ /\ IsFill(task[k].o, task[k].reply)       \* priced
          /\ \E id \in TradeIds : TellsFill(task[k].o, id)
          /\ Ends(k, "filled")
       \/ /\ IsFill(task[k].o, task[k].reply)       \* unpriced
          /\ Tells(task[k].o, "accepted") /\ Goes(k, "pricing")
    /\ Continues

Price(k) ==
    /\ task[k].at = "pricing"
    /\ \/ /\ book[task[k].o] = "held"
          /\ \E id \in TradeIds : TellsFill(task[k].o, id)
       \/ UNCHANGED told        \* the history cannot be read
    /\ Ends(k, "accepted")
    /\ Continues
-----------------------------------------------------------------------------
(* _withdraw, for _cancel_order and for each row of _cancel_all_orders     *)

Cancel(k, o) ==
    /\ Begins(k) /\ Open(o)
    /\ \/ ~Ticket(o) /\ Ends(k, "cancel_rejected")
       \/ /\ Ticket(o)
          /\ task' = [task EXCEPT ![k].op = "cancel", ![k].o = o,
                                  ![k].at = "removing",
                                  ![k].req = Ask("remove", o, 0, 0)]
    /\ UNCHANGED <<told, described>>

(* One ticket is settled: the command ends, or goes on to the next row.    *)
Settles(k, out) ==
    IF task[k].op = "cancel" THEN Ends(k, out)
    ELSE task' = [task EXCEPT ![k] =
                    [Idle("none") EXCEPT !.op = "cancel_all", !.at = "next",
                                         !.rest = task[k].rest]]

(* Fault: what the transport raises for a cancel leaves the task. *)
RemoveRaisesOn(k) ==
    /\ task[k].at = "removing" /\ Answers(k) /\ Raised(k)
    /\ Ends(k, "silent")
    /\ Continues /\ UNCHANGED told

RemoveRaises(k) ==
    /\ task[k].at = "removing" /\ Answers(k) /\ Raised(k)
    /\ Settles(k, "cancel_rejected")
    /\ Continues /\ UNCHANGED told

Removed(k) ==
    /\ task[k].at = "removing" /\ Answers(k) /\ ~Raised(k)
    /\ task' = [task EXCEPT ![k].at = "listing", ![k].req = NoRequest,
                            ![k].reply = "none",
                            ![k].sure = (task[k].reply = "done")]
    /\ Continues /\ UNCHANGED told

(* Over HTTP a listing that the terminal failed to give reads as empty.    *)
ReadsEmpty == transport = "http"

(* Fault: an order that is listed no more taken for cancelled. *)
ListUnsure(k) ==
    /\ task[k].at = "listing"
    /\ IF book[task[k].o] = "resting"
       THEN Settles(k, "cancel_rejected") /\ UNCHANGED told
       ELSE Tells(task[k].o, "canceled") /\ Settles(k, "canceled")
    /\ Continues

(* The listing of resting orders, and what follows from it.                *)
List(k) ==
    LET o == task[k].o IN
    /\ task[k].at = "listing"
    /\ \/ /\ ~task[k].sure                          \* it cannot be read
          /\ Settles(k, "cancel_rejected") /\ UNCHANGED told
       \/ /\ book[o] = "resting"
          /\ Settles(k, "cancel_rejected") /\ UNCHANGED told
       \/ /\ task[k].sure                           \* read, or not
          /\ Tells(o, "canceled") /\ Settles(k, "canceled")
       \/ /\ book[o] # "resting" \/ ReadsEmpty
          /\ ~task[k].sure
          /\ Goes(k, "explaining") /\ UNCHANGED told
    /\ Continues

(* Only a deal explains it.  The instrument is loaded after the deals are  *)
(* read, and what loading raises ends the command, all rows included.      *)
Explain(k) ==
    LET o == task[k].o IN
    /\ task[k].at = "explaining" /\ Keeps /\ Loads(o)
    /\ \/ /\ book[o] = "held" /\ o \in described'
          /\ \E id \in TradeIds : TellsFill(o, id)
          /\ Settles(k, "filled")
       \/ UNCHANGED told /\ Settles(k, "cancel_rejected")
       \/ o \notin described /\ UNCHANGED told /\ Ends(k, "undescribed")

CancelAll(k) ==
    /\ Begins(k)
    /\ task' = [task EXCEPT ![k].op = "cancel_all", ![k].at = "rows"]
    /\ UNCHANGED <<told, described>>

Rows(k) ==
    /\ task[k].at = "rows"
    /\ \/ Ends(k, "silent")                         \* the listing raised
       \/ task' = [task EXCEPT ![k].at = "next",
                       ![k].rest = {o \in Orders : book[o] = "resting"}]
       \/ ReadsEmpty /\ task' = [task EXCEPT ![k].at = "next", ![k].rest = {}]
    /\ Continues /\ UNCHANGED told

NextRow(k) ==
    /\ task[k].at = "next"
    /\ \/ task[k].rest = {} /\ Ends(k, "none")
       \/ \E o \in task[k].rest :
             task' = [task EXCEPT ![k].rest = @ \ {o}, ![k].o = o,
                         ![k].at = IF Ticket(o) THEN "removing" ELSE "dropping",
                         ![k].req = Ask("remove", o, 0, 0)]
    /\ Continues /\ UNCHANGED told

(* A row the cache does not know: what its cancel raises ends the command. *)
Dropped(k) ==
    /\ task[k].at = "dropping" /\ Answers(k)
    /\ IF Raised(k) THEN Ends(k, "silent") ELSE Settles(k, "none")
    /\ Continues /\ UNCHANGED told
-----------------------------------------------------------------------------
(* _modify_order                                                           *)

Modify(k, o, ask) ==
    /\ Begins(k) /\ engine[o] \in {"submitted", "accepted", "filled"}
    /\ \/ ~Ticket(o) /\ Ends(k, "modify_rejected")
       \/ /\ Ticket(o)
          /\ task' = [task EXCEPT ![k].op = "modify", ![k].o = o,
                         ![k].at = IF o \in described THEN "locating"
                                   ELSE "describing",
                         ![k].ask = ask]
    /\ UNCHANGED <<told, described>>

(* Loading the instrument: an unknown one does not matter here, and what   *)
(* the loading raises is caught by nothing.                                *)
Describe(k) ==
    /\ task[k].at = "describing" /\ Keeps /\ Loads(task[k].o)
    /\ Goes(k, "locating") \/ Ends(k, "undescribed")
    /\ UNCHANGED told

Refuses(k) == Ends(k, "modify_rejected")    \* _Refusal, answered

SeeOrders(k) ==
    /\ task[k].at = "locating"
    /\ \/ Refuses(k)
       \/ task' = [task EXCEPT ![k].at = "holding",
                      ![k].seen.resting = (book[task[k].o] = "resting")]
       \/ ReadsEmpty /\ task' = [task EXCEPT ![k].at = "holding"]
    /\ Continues /\ UNCHANGED told

SeePositions(k) ==
    LET o == task[k].o IN
    /\ task[k].at = "holding"
    /\ \/ Refuses(k)
       \/ /\ book[o] = "held"
          /\ task' = [task EXCEPT ![k].at = "sending",
                         ![k].seen = [resting |-> @.resting, held |-> TRUE,
                                      sl |-> level[o].sl, tp |-> level[o].tp]]
       \/ /\ book[o] # "held" \/ ReadsEmpty
          /\ task' = [task EXCEPT ![k].at = "sending"]
    /\ Continues /\ UNCHANGED told

(* Fault: an omitted stop sent as zero. *)
NewStopAsked(ask, seen) == ask.stop

(* An omitted side of a position is what it was seen to hold.              *)
NewStop(ask, seen) == IF ask.stop # 0 THEN ask.stop ELSE seen.sl
NewTarget(ask, seen) == IF ask.price # 0 THEN ask.price ELSE seen.tp

SendModify(k) ==
    LET o == task[k].o  ask == task[k].ask  seen == task[k].seen IN
    /\ task[k].at = "sending"
    /\ \/ /\ seen.resting /\ ask.price # 0
          /\ Sends(k, "modifying", Ask("move", o, ask.price, 0))
       \/ /\ ~seen.resting /\ seen.held /\ ask # NoAsk
          /\ Sends(k, "modifying", Ask("protect", o, NewStop(ask, seen),
                                       NewTarget(ask, seen)))
       \/ /\ IF seen.resting THEN ask.price = 0 ELSE ~seen.held \/ ask = NoAsk
          /\ Refuses(k)
    /\ Continues /\ UNCHANGED told

Modified(k) ==
    /\ task[k].at = "modifying" /\ Answers(k)
    /\ IF Raised(k) \/ task[k].reply # "done" THEN Refuses(k)
       ELSE task' = [task EXCEPT ![k].at = "verifying", ![k].reply = "none"]
    /\ Continues /\ UNCHANGED told

Shown(r) ==
    \/ r.verb = "move" /\ book[r.o] = "resting" /\ level[r.o].price = r.a
    \/ /\ r.verb = "protect" /\ book[r.o] = "held"
       /\ level[r.o].sl = r.a /\ level[r.o].tp = r.b

Verify(k) ==
    /\ task[k].at = "verifying"
    /\ Refuses(k) \/ (Shown(task[k].req) /\ Ends(k, "updated"))
    /\ Continues /\ UNCHANGED told
-----------------------------------------------------------------------------
(* generate_fill_reports, as the engine asks for it and applies it.        *)
Reconcile(o) ==
    /\ Ticket(o) /\ book[o] = "held"
    /\ TellsFill(o, "deal")
    /\ Continues /\ UNCHANGED task

Step(k) ==
    \/ SubmitRaises(k) \/ SubmitRefused(k) \/ SubmitUnticketed(k)
    \/ SubmitAccepted(k) \/ Price(k)
    \/ RemoveRaises(k) \/ Removed(k) \/ List(k) \/ Explain(k)
    \/ Rows(k) \/ NextRow(k) \/ Dropped(k)
    \/ Describe(k) \/ SeeOrders(k) \/ SeePositions(k) \/ SendModify(k)
    \/ Modified(k) \/ Verify(k)

Command(k) ==
    \/ CancelAll(k)
    \/ \E o \in Orders : \/ RejectEarly(k, o) \/ SubmitUndescribed(k, o)
                         \/ Submit(k, o) \/ Cancel(k, o)
    \/ \E o \in Orders, ask \in Asks : Modify(k, o, ask)

Next ==
    \/ \E k \in Tasks : Command(k) \/ Step(k) \/ Answer(k) \/ TimeOut(k)
    \/ \E o \in Orders : Market(o) \/ Reconcile(o)
    \/ LateArrives

Spec == Init /\ [][Next]_vars

(* The loop runs every task on, and the terminal answers what it can.      *)
FairSpec == Spec /\ \A k \in Tasks : WF_vars(Step(k)) /\ WF_vars(Answer(k))
-----------------------------------------------------------------------------
(* Properties.                                                             *)

OutValues == {"none", "silent", "accepted", "rejected", "filled", "canceled",
              "cancel_rejected", "updated", "modify_rejected", "undescribed"}

(* The types, and that a command awaits an answer exactly where it has     *)
(* sent something and is idle exactly when it has none to work on.         *)
TypeOK ==
    /\ transport \in Transports
    /\ book \in [Orders -> {"none", "resting", "held", "cancelled"}]
    /\ level \in [Orders -> [price : Levels, sl : Levels, tp : Levels]]
    /\ late \subseteq Request
    /\ engine \in [Orders -> {"initialized", "submitted", "accepted",
                              "rejected", "canceled", "filled"}]
    /\ fills \in [Orders -> SUBSET TradeIds]
    /\ doubted \subseteq Orders /\ described \subseteq Orders
    /\ \A k \in Tasks :
         /\ task[k].out \in OutValues
         /\ task[k].rest \subseteq Orders
         /\ task[k].at \in Waiting => task[k].req \in Request
         /\ (task[k].op = "idle") <=> (task[k].at = "idle")
    /\ commands \in 0..MaxCommands /\ lost \in 0..MaxLost

(* The engine holds a fill only for an order that became a position: a     *)
(* resting order reported as a fill "gave the desk a position it did not   *)
(* have" (execution.py:708).                                               *)
FillsAreDeals == \A o \in Orders : fills[o] # {} => book[o] = "held"

(* The engine believes an order cancelled only if the broker has it no     *)
(* more and it did not fill, whatever answers were lost on the way         *)
(* (_withdraw).                                                            *)
CanceledIsGone ==
    \A o \in Orders : engine[o] = "canceled" => book[o] = "cancelled"

(* One deal is one fill for the engine, reported by the submit, by a       *)
(* cancel that came too late or by reconciliation.  It does not hold: an   *)
(* answer without a deal names the fill by the order, and reconciliation   *)
(* by the deal.                                                            *)
FilledOnce == \A o \in Orders : fills[o] # TradeIds

(* A rejected order is not at the broker, unless the answer it was         *)
(* rejected on did not say (the _reject of _submit_order).                 *)
RejectedIsNotPlaced ==
    \A o \in Orders :
        engine[o] = "rejected" /\ o \notin doubted => book[o] = "none"

(* A position that was opened with a stop has one, whatever modifies run   *)
(* at once, time out or arrive late (_send_modify).                        *)
StopKept ==
    \A o \in Stopped : book[o] # "none" => level[o].sl # 0

(* Every cancel and every modify of an order ends in an event, or in the   *)
(* exception of the load of its instrument.                                *)
EveryCommandAnswered ==
    \A k \in Tasks : task[k].op \in {"cancel", "modify"}
        ~> (task[k].op = "idle" /\ task[k].out # "silent")

(* Every modify ends in an event (execution.py:831).  It does not where    *)
(* the load of its instrument raises.                                      *)
EveryModifyAnswered ==
    \A k \in Tasks : task[k].op = "modify"
        ~> (task[k].op = "idle" /\ task[k].out \in {"updated", "modify_rejected"})

(* A placement the terminal took is not answered as a refusal.             *)
TakenIsNotRefused ==
    \A k \in Tasks :
        task[k].at = "placing" /\ task[k].reply = "refused"
            => book[task[k].o] = "none"

(* No request takes a stop away (_modify_order).                           *)
NeverRemovesStop ==
    [][\A o \in Orders : level[o].sl # 0 => level'[o].sl # 0]_vars
=============================================================================
