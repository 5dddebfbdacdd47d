-------------------------- MODULE Execution_proofs --------------------------
(***************************************************************************)
(* What the engine may rely on, for any orders, commands and transports:   *)
(* an order it believes cancelled is gone, a fill it holds is a position,  *)
(* an order it believes rejected is not at the broker, and a stop stays.   *)
(***************************************************************************)
EXTENDS Execution, TLAPS

Places == {"idle", "placing", "pricing", "removing", "listing", "explaining",
           "rows", "next", "dropping", "locating", "holding", "sending",
           "modifying", "verifying", "describing"}

Seen == [resting : BOOLEAN, held : BOOLEAN, sl : Levels, tp : Levels]

TaskRecord ==
    [op : {"idle", "submit", "cancel", "cancel_all", "modify"}, at : Places,
     o : Orders \cup {"none"}, req : Request \cup {NoRequest},
     reply : {"none", "done", "placed", "refused", "lost", "unclear"},
     ask : [price : Levels, stop : Levels],
     seen : Seen,
     sure : BOOLEAN, rest : SUBSET Orders, out : OutValues]

(* A task waits with a request, is idle without a command, and past its    *)
(* start works on an order.                                                *)
Consistent(t) ==
    /\ t.at \in Waiting => t.req \in Request
    /\ (t.op = "idle") <=> (t.at = "idle")
    /\ t.at \notin {"idle", "rows", "next"} => t.o \in Orders

Task == {t \in TaskRecord : Consistent(t)}

Books ==
    /\ transport \in Transports
    /\ book \in [Orders -> {"none", "resting", "held", "cancelled"}]
    /\ level \in [Orders -> [price : Levels, sl : Levels, tp : Levels]]
    /\ late \subseteq Request
Told ==
    /\ engine \in [Orders -> {"initialized", "submitted", "accepted",
                              "rejected", "canceled", "filled"}]
    /\ fills \in [Orders -> SUBSET TradeIds]
    /\ doubted \subseteq Orders
Counted ==
    /\ commands \in 0..MaxCommands /\ lost \in 0..MaxLost
    /\ described \subseteq Orders

Typed == Books /\ Told /\ Counted /\ task \in [Tasks -> Task]

-----------------------------------------------------------------------------
(* The types.                                                              *)

LEMMA LevelsInUse == 0 \in Levels /\ 1 \in Levels
  BY ExecutionAssumption, SMT DEF Levels

LEMMA IdleIsTask ==
    ASSUME NEW out \in OutValues
    PROVE  Idle(out) \in Task
<1>1. Idle(out) \in TaskRecord
  BY LevelsInUse DEF Idle, TaskRecord, Seen, Places, NoRequest, NoAsk, NoSight
<1>2. Consistent(Idle(out))
  BY DEF Consistent, Idle, Waiting
<1>3. QED
  BY <1>1, <1>2 DEF Task

LEMMA TypedIsTypeOK == Typed => TypeOK
<1> SUFFICES ASSUME Typed
             PROVE  TypeOK
  OBVIOUS
<1>1. ASSUME NEW k \in Tasks
      PROVE  /\ task[k].out \in OutValues
             /\ task[k].rest \subseteq Orders
             /\ task[k].at \in Waiting => task[k].req \in Request
             /\ (task[k].op = "idle") <=> (task[k].at = "idle")
  BY DEF Typed, Task, TaskRecord, Consistent
<1>2. QED
  BY <1>1 DEF Typed, Books, Told, Counted, TypeOK

LEMMA InitTyped == Init => Typed
<1> SUFFICES ASSUME Init
             PROVE  Typed
  OBVIOUS
<1>1. task \in [Tasks -> Task]
  BY IdleIsTask DEF Init, OutValues
<1>2. PICK carried \in SUBSET Carried :
         /\ book \in [Orders -> {"none", "resting", "held", "cancelled"}]
         /\ level = [o \in Orders |->
                       IF o \in carried THEN Standing(o) ELSE Nowhere]
         /\ engine = [o \in Orders |->
                        IF o \in carried THEN "accepted" ELSE "initialized"]
  BY DEF Init
<1>3. \A o : /\ Standing(o) \in [price : Levels, sl : Levels, tp : Levels]
             /\ Nowhere \in [price : Levels, sl : Levels, tp : Levels]
  BY LevelsInUse DEF Standing, Nowhere, Stop
<1>4. level \in [Orders -> [price : Levels, sl : Levels, tp : Levels]]
  BY <1>2, <1>3
<1>5. Books /\ Told /\ Counted
  BY <1>2, <1>4, ExecutionAssumption DEF Init, Books, Told, Counted
<1>6. QED
  BY <1>1, <1>5 DEF Typed

(* A step of one task keeps the others as they are. *)
LEMMA OneTaskMoves ==
    ASSUME task \in [Tasks -> Task],
           NEW k \in Tasks, NEW t \in Task,
           task' = [task EXCEPT ![k] = t]
    PROVE  task' \in [Tasks -> Task]
  OBVIOUS

LEMMA EndsKeepsTasks ==
    ASSUME task \in [Tasks -> Task], NEW k \in Tasks, NEW out \in OutValues, Ends(k, out)
    PROVE  task' \in [Tasks -> Task]
BY IdleIsTask DEF Ends

LEMMA SettlesKeepsTasks ==
    ASSUME task \in [Tasks -> Task], NEW k \in Tasks, NEW out \in OutValues,
           Settles(k, out)
    PROVE  task' \in [Tasks -> Task]
<1>1. CASE task[k].op = "cancel"
  BY <1>1, EndsKeepsTasks DEF Settles
<1>2. CASE task[k].op # "cancel"
  <2> DEFINE t == [Idle("none") EXCEPT !.op = "cancel_all", !.at = "next",
                                       !.rest = task[k].rest]
  <2>1. Idle("none") \in Task
    BY IdleIsTask DEF OutValues
  <2>2. t \in Task
    BY <2>1 DEF Task, TaskRecord, Consistent, Places, Waiting
  <2>3. QED
    BY <1>2, <2>2 DEF Settles
<1>3. QED
  BY <1>1, <1>2

(* What a step makes of the record of its task.                            *)
LEMMA SeesOrder ==
    ASSUME NEW s \in Seen, NEW resting \in BOOLEAN
    PROVE  [s EXCEPT !.resting = resting] \in Seen
BY DEF Seen

LEMMA SeesPosition ==
    ASSUME NEW s \in Seen, NEW l \in [price : Levels, sl : Levels, tp : Levels]
    PROVE  [resting |-> s.resting, held |-> TRUE, sl |-> l.sl, tp |-> l.tp] \in Seen
BY DEF Seen

LEMMA GoesOn ==
    ASSUME NEW t \in Task, t.o \in Orders, t.op # "idle",
           NEW s \in Seen, NEW at \in {"holding", "sending"}
    PROVE  [t EXCEPT !.at = at, !.seen = s] \in Task
BY DEF Task, TaskRecord, Consistent, Places, Waiting

LEMMA SendsOn ==
    ASSUME NEW t \in Task, t.o \in Orders, t.op # "idle", NEW r \in Request
    PROVE  [t EXCEPT !.at = "modifying", !.req = r, !.reply = "none"] \in Task
BY DEF Task, TaskRecord, Consistent, Places, Waiting

LEMMA TakesRow ==
    ASSUME NEW t \in Task, t.op # "idle", NEW r \in Request, NEW o \in Orders,
           NEW at \in {"removing", "dropping"}, NEW rest \in SUBSET Orders
    PROVE  [t EXCEPT !.rest = rest, !.o = o, !.at = at, !.req = r] \in Task
BY DEF Task, TaskRecord, Consistent, Places, Waiting

LEMMA ListsNext ==
    ASSUME NEW t \in Task, t.o \in Orders, t.op # "idle", NEW sure \in BOOLEAN
    PROVE  [t EXCEPT !.at = "listing", !.req = NoRequest, !.reply = "none",
                     !.sure = sure] \in Task
BY DEF Task, TaskRecord, Consistent, Places, Waiting

LEMMA OrderSeen ==
    ASSUME task \in [Tasks -> Task], NEW k \in Tasks, NEW resting \in BOOLEAN,
           task[k].o \in Orders, task[k].op # "idle",
           task' = [task EXCEPT ![k].at = "holding", ![k].seen.resting = resting]
    PROVE  task' \in [Tasks -> Task]
<1> DEFINE s == [task[k].seen EXCEPT !.resting = resting]
           t == [task[k] EXCEPT !.at = "holding", !.seen = s]
<1>1. task[k] \in TaskRecord /\ task[k].seen \in Seen
  BY DEF Task, TaskRecord
<1>2. s \in Seen
  BY <1>1, SeesOrder
<1>3. t \in Task
  <2> HIDE DEF s
  <2> QED
    BY <1>2, GoesOn
<1>4. task' = [task EXCEPT ![k] = t]
  BY <1>1 DEF TaskRecord
<1>5. QED
  BY <1>3, <1>4, OneTaskMoves

LEMMA PositionSeen ==
    ASSUME task \in [Tasks -> Task], NEW k \in Tasks, NEW s \in Seen,
           task[k].o \in Orders, task[k].op # "idle",
           task' = [task EXCEPT ![k].at = "sending", ![k].seen = s]
    PROVE  task' \in [Tasks -> Task]
<1> DEFINE t == [task[k] EXCEPT !.at = "sending", !.seen = s]
<1>1. t \in Task
  BY GoesOn
<1>2. task' = [task EXCEPT ![k] = t]
  OBVIOUS
<1>3. QED
  BY <1>1, <1>2, OneTaskMoves

LEMMA RowTaken ==
    ASSUME task \in [Tasks -> Task], NEW k \in Tasks, NEW o \in Orders,
           NEW r \in Request, NEW at \in {"removing", "dropping"},
           task[k].op # "idle",
           task' = [task EXCEPT ![k].rest = @ \ {o}, ![k].o = o, ![k].at = at,
                                ![k].req = r]
    PROVE  task' \in [Tasks -> Task]
<1> DEFINE rest == task[k].rest \ {o}
           t == [task[k] EXCEPT !.rest = rest, !.o = o, !.at = at, !.req = r]
<1>1. rest \in SUBSET Orders
  BY DEF Task, TaskRecord
<1>2. t \in Task
  <2> HIDE DEF rest
  <2> QED
    BY <1>1, TakesRow
<1>3. task' = [task EXCEPT ![k] = t]
  OBVIOUS
<1>4. QED
  BY <1>2, <1>3, OneTaskMoves

LEMMA StepTasks ==
    ASSUME Typed, NEW k \in Tasks, Step(k)
    PROVE  task' \in [Tasks -> Task]
<1> task \in [Tasks -> Task]
  BY DEF Typed
<1> USE DEF Task, TaskRecord, Consistent, Places, Waiting
<1>1. CASE SubmitRaises(k)
  BY <1>1, EndsKeepsTasks, SettlesKeepsTasks DEF SubmitRaises, OutValues
<1>2. CASE SubmitRefused(k)
  BY <1>2, EndsKeepsTasks, SettlesKeepsTasks DEF SubmitRefused, OutValues
<1>3. CASE SubmitAccepted(k)
  BY <1>3, EndsKeepsTasks, SettlesKeepsTasks DEF SubmitAccepted, OutValues, Goes, Tells, NoRequest
<1>4. CASE Price(k)
  BY <1>4, EndsKeepsTasks, SettlesKeepsTasks DEF Price, OutValues
<1>5. CASE RemoveRaises(k)
  BY <1>5, EndsKeepsTasks, SettlesKeepsTasks DEF RemoveRaises, OutValues
<1>6. CASE Removed(k)
  <2>1. (task[k].reply = "done") \in BOOLEAN
    OBVIOUS
  <2>2. task[k] \in Task /\ task[k].o \in Orders /\ task[k].op # "idle"
    BY <1>6 DEF Removed
  <2>3. [task[k] EXCEPT !.at = "listing", !.req = NoRequest, !.reply = "none",
                        !.sure = (task[k].reply = "done")] \in Task
    <3> HIDE DEF Task
    <3> QED
      BY <2>1, <2>2, ListsNext, Zenon
  <2>4. QED
    BY <1>6, <2>3, OneTaskMoves DEF Removed
<1>7. CASE List(k)
  <2>1. task' \in [Tasks -> Task] \/ Goes(k, "explaining")
    BY <1>7, EndsKeepsTasks, SettlesKeepsTasks DEF List, OutValues
  <2>2. ASSUME Goes(k, "explaining") PROVE task' \in [Tasks -> Task]
    <3> DEFINE t == [task[k] EXCEPT !.at = "explaining", !.req = NoRequest, !.reply = "none"]
    <3>1. task[k] \in Task /\ task[k].at = "listing"
      BY <1>7 DEF List
    <3>2. t \in Task
      BY <3>1 DEF NoRequest
    <3>3. task' = [task EXCEPT ![k] = t]
      BY <2>2 DEF Goes
    <3> HIDE DEF t
    <3>4. QED
      BY <3>2, <3>3, OneTaskMoves
  <2>3. QED
    BY <2>1, <2>2
<1>8. CASE Explain(k)
  BY <1>8, EndsKeepsTasks, SettlesKeepsTasks, Zenon DEF Explain, OutValues
<1>9. CASE Rows(k)
  BY <1>9, EndsKeepsTasks, SettlesKeepsTasks DEF Rows, OutValues
<1>10. CASE NextRow(k)
  <2>1. CASE Ends(k, "none")
    BY <2>1, EndsKeepsTasks DEF OutValues
  <2>2. ASSUME NEW o \in task[k].rest,
               task' = [task EXCEPT ![k].rest = @ \ {o}, ![k].o = o,
                          ![k].at = IF Ticket(o) THEN "removing" ELSE "dropping",
                          ![k].req = Ask("remove", o, 0, 0)]
        PROVE  task' \in [Tasks -> Task]
    <3>1. /\ task[k] \in Task /\ task[k].op # "idle"
          /\ o \in Orders /\ task[k].rest \ {o} \in SUBSET Orders
      BY <1>10 DEF NextRow
    <3>2. Ask("remove", o, 0, 0) \in Request
      BY <3>1, LevelsInUse DEF Ask, Request, Verbs
    <3>3. (IF Ticket(o) THEN "removing" ELSE "dropping") \in {"removing", "dropping"}
      OBVIOUS
    <3>4. QED
      <4> HIDE DEF Task
      <4> QED
        BY <2>2, <3>1, <3>2, <3>3, RowTaken, Zenon
  <2>3. QED
    BY <1>10, <2>1, <2>2 DEF NextRow
<1>11. CASE Dropped(k)
  BY <1>11, EndsKeepsTasks, SettlesKeepsTasks DEF Dropped, OutValues
<1>12. CASE SeeOrders(k)
  <2>1. CASE Refuses(k)
    BY <2>1, EndsKeepsTasks DEF Refuses, OutValues
  <2>2. CASE task' = [task EXCEPT ![k].at = "holding",
                         ![k].seen.resting = (book[task[k].o] = "resting")]
    <3>1. (book[task[k].o] = "resting") \in BOOLEAN
      OBVIOUS
    <3>2. /\ task[k] \in Task /\ task[k].o \in Orders /\ task[k].op # "idle"
      BY <1>12 DEF SeeOrders
    <3>3. QED
      <4> HIDE DEF Task
      <4> QED
        BY <2>2, <3>1, <3>2, OrderSeen, Zenon
  <2>3. QED
    BY <1>12, <2>1, <2>2 DEF SeeOrders
<1>13. CASE SeePositions(k)
  <2>1. CASE Refuses(k)
    BY <2>1, EndsKeepsTasks DEF Refuses, OutValues
  <2> DEFINE s == task[k].seen
             l == level[task[k].o]
             saw == [resting |-> s.resting, held |-> TRUE, sl |-> l.sl, tp |-> l.tp]
  <2>2. CASE task' = [task EXCEPT ![k].at = "sending", ![k].seen = saw]
    <3>1. /\ task[k] \in Task /\ task[k].o \in Orders /\ task[k].op # "idle"
          /\ s \in Seen
      BY <1>13 DEF SeePositions
    <3>2. l \in [price : Levels, sl : Levels, tp : Levels]
      BY <3>1 DEF Typed, Books
    <3>3. saw \in Seen
      BY <3>1, <3>2, SeesPosition, Zenon
    <3>4. QED
      <4> HIDE DEF Task, saw
      <4> QED
        BY <2>2, <3>1, <3>3, PositionSeen, Zenon
  <2>3. CASE task' = [task EXCEPT ![k].at = "sending"]
    <3>1. task[k] \in Task /\ task[k].o \in Orders /\ task[k].op # "idle"
      BY <1>13 DEF SeePositions
    <3>2. [task[k] EXCEPT !.at = "sending"] \in Task
      BY <3>1
    <3>3. QED
      BY <2>3, <3>2, OneTaskMoves
  <2>4. QED
    BY <1>13, <2>1, <2>2, <2>3 DEF SeePositions
<1>14. CASE SendModify(k)
  <2>1. task[k].o \in Orders /\ task[k].at = "sending"
    BY <1>14 DEF SendModify
  <2>2. CASE Refuses(k)
    BY <2>2, EndsKeepsTasks DEF Refuses, OutValues
  <2>3. ASSUME NEW r \in Request, Sends(k, "modifying", r)
        PROVE  task' \in [Tasks -> Task]
    <3>1. task[k] \in Task /\ task[k].op # "idle"
      BY <2>1
    <3>2. [task[k] EXCEPT !.at = "modifying", !.req = r, !.reply = "none"] \in Task
      <4> HIDE DEF Task
      <4> QED
        BY <2>1, <3>1, SendsOn, Zenon
    <3>3. QED
      BY <2>3, <3>2, OneTaskMoves DEF Sends
  <2>4. Ask("move", task[k].o, task[k].ask.price, 0) \in Request
    BY <2>1, LevelsInUse DEF Ask, Request, Verbs
  <2>5. Ask("protect", task[k].o, NewStop(task[k].ask, task[k].seen),
            NewTarget(task[k].ask, task[k].seen)) \in Request
    <3>1. /\ task[k].ask \in [price : Levels, stop : Levels]
          /\ task[k].seen \in Seen
      OBVIOUS
    <3>2. /\ NewStop(task[k].ask, task[k].seen) \in Levels
          /\ NewTarget(task[k].ask, task[k].seen) \in Levels
      BY <3>1 DEF Seen, NewStop, NewTarget
    <3>3. QED
      BY <2>1, <3>2 DEF Ask, Request, Verbs
  <2>6. QED
    BY <1>14, <2>2, <2>3, <2>4, <2>5 DEF SendModify
<1>15. CASE Modified(k)
  BY <1>15, EndsKeepsTasks, SettlesKeepsTasks DEF Modified, OutValues, Refuses
<1>16. CASE Verify(k)
  BY <1>16, EndsKeepsTasks, SettlesKeepsTasks DEF Verify, OutValues, Refuses
<1>17. CASE SubmitUnticketed(k)
  BY <1>17, EndsKeepsTasks DEF SubmitUnticketed, OutValues
<1>18. CASE Describe(k)
  BY <1>18, EndsKeepsTasks DEF Describe, Goes, OutValues, NoRequest
<1>19. QED
  BY <1>1, <1>2, <1>3, <1>4, <1>5, <1>6, <1>7, <1>8, <1>9, <1>10, <1>11, <1>12, <1>13, <1>14, <1>15, <1>16, <1>17, <1>18 DEF Step

LEMMA StartsOn ==
    ASSUME NEW t \in Task, NEW o \in Orders, NEW r \in Request,
           NEW op \in {"submit", "cancel"}, NEW at \in {"placing", "removing"}
    PROVE  [t EXCEPT !.op = op, !.o = o, !.at = at, !.req = r] \in Task
BY DEF Task, TaskRecord, Consistent, Places, Waiting

LEMMA Starts ==
    ASSUME task \in [Tasks -> Task], NEW k \in Tasks, NEW o \in Orders, NEW r \in Request,
           NEW op \in {"submit", "cancel"}, NEW at \in {"placing", "removing"},
           task' = [task EXCEPT ![k].op = op, ![k].o = o, ![k].at = at, ![k].req = r]
    PROVE  task' \in [Tasks -> Task]
<1> DEFINE t == [task[k] EXCEPT !.op = op, !.o = o, !.at = at, !.req = r]
<1>1. t \in Task
  BY StartsOn
<1>2. task' = [task EXCEPT ![k] = t]
  OBVIOUS
<1>3. QED
  BY <1>1, <1>2, OneTaskMoves

LEMMA ModifiesOn ==
    ASSUME NEW t \in Task, NEW o \in Orders, NEW at \in {"locating", "describing"},
           NEW ask \in [price : Levels, stop : Levels]
    PROVE  [t EXCEPT !.op = "modify", !.o = o, !.at = at, !.ask = ask] \in Task
BY DEF Task, TaskRecord, Consistent, Places, Waiting

LEMMA ListsRows ==
    ASSUME NEW t \in Task
    PROVE  [t EXCEPT !.op = "cancel_all", !.at = "rows"] \in Task
BY DEF Task, TaskRecord, Consistent, Places, Waiting

LEMMA CommandTasks ==
    ASSUME Typed, NEW k \in Tasks, Command(k)
    PROVE  task' \in [Tasks -> Task]
<1> task \in [Tasks -> Task]
  BY DEF Typed
<1>1. CASE CancelAll(k)
  <2> DEFINE t == [task[k] EXCEPT !.op = "cancel_all", !.at = "rows"]
  <2>1. t \in Task
    BY ListsRows
  <2>2. task' = [task EXCEPT ![k] = t]
    BY <1>1 DEF CancelAll
  <2>3. QED
    BY <2>1, <2>2, OneTaskMoves
<1>2. ASSUME NEW o \in Orders, RejectEarly(k, o)
      PROVE  task' \in [Tasks -> Task]
  BY <1>2, EndsKeepsTasks DEF RejectEarly, OutValues
<1>3. ASSUME NEW o \in Orders, Submit(k, o)
      PROVE  task' \in [Tasks -> Task]
  <2>1. Ask("place", o, Stop(o), 0) \in Request
    BY LevelsInUse DEF Ask, Request, Verbs, Stop
  <2>2. QED
    BY <1>3, <2>1, Starts DEF Submit
<1>4. ASSUME NEW o \in Orders, Cancel(k, o)
      PROVE  task' \in [Tasks -> Task]
  <2>1. Ask("remove", o, 0, 0) \in Request
    BY LevelsInUse DEF Ask, Request, Verbs
  <2>2. CASE Ends(k, "cancel_rejected")
    BY <2>2, EndsKeepsTasks DEF OutValues
  <2>3. CASE task' = [task EXCEPT ![k].op = "cancel", ![k].o = o,
                                  ![k].at = "removing",
                                  ![k].req = Ask("remove", o, 0, 0)]
    BY <2>1, <2>3, Starts
  <2>4. QED
    BY <1>4, <2>2, <2>3 DEF Cancel
<1>5. ASSUME NEW o \in Orders, NEW ask \in Asks, Modify(k, o, ask)
      PROVE  task' \in [Tasks -> Task]
  <2>1. ask \in [price : Levels, stop : Levels]
    BY ExecutionAssumption
  <2>2. CASE Ends(k, "modify_rejected")
    BY <2>2, EndsKeepsTasks DEF OutValues
  <2>3. ASSUME NEW at \in {"locating", "describing"},
               task' = [task EXCEPT ![k].op = "modify", ![k].o = o, ![k].at = at,
                                    ![k].ask = ask]
        PROVE  task' \in [Tasks -> Task]
    <3> DEFINE t == [task[k] EXCEPT !.op = "modify", !.o = o, !.at = at, !.ask = ask]
    <3>1. t \in Task
      BY <2>1, ModifiesOn
    <3>2. task' = [task EXCEPT ![k] = t]
      BY <2>3
    <3> HIDE DEF t
    <3>3. QED
      BY <3>1, <3>2, OneTaskMoves
  <2>4. (IF o \in described THEN "locating" ELSE "describing") \in {"locating", "describing"}
    OBVIOUS
  <2>5. QED
    BY <1>5, <2>2, <2>3, <2>4 DEF Modify
<1>6. ASSUME NEW o \in Orders, SubmitUndescribed(k, o)
      PROVE  task' \in [Tasks -> Task]
  BY <1>6, EndsKeepsTasks DEF SubmitUndescribed, OutValues
<1>7. QED
  BY <1>1, <1>2, <1>3, <1>4, <1>5, <1>6 DEF Command

LEMMA AnswerTasks ==
    ASSUME Typed, NEW k \in Tasks, Answer(k) \/ TimeOut(k)
    PROVE  task' \in [Tasks -> Task]
<1> task \in [Tasks -> Task]
  BY DEF Typed
<1>1. ASSUME NEW reply \in {"done", "placed", "refused", "lost", "unclear"},
             task' = [task EXCEPT ![k].reply = reply]
      PROVE  task' \in [Tasks -> Task]
  BY <1>1 DEF Task, TaskRecord, Consistent, Waiting
<1>2. \A r, code : code \in {"done", "placed", "refused"}
         => Answered(r, code) \in {"done", "placed", "refused"}
  BY DEF Answered
<1>3. QED
  BY <1>1, <1>2 DEF Answer, TimeOut, NoAnswer

-----------------------------------------------------------------------------
(* What the terminal and the engine are told.                              *)

LEMMA PerformTypes ==
    ASSUME Books, NEW r \in Request, NEW code, Perform(r, code),
           transport' = transport, late' \subseteq Request
    PROVE  Books'
<1> USE DEF Books, Request
<1>1. CASE Placing(r, code)
  BY <1>1, LevelsInUse DEF Placing
<1>2. CASE Removing(r, code)
  BY <1>2 DEF Removing
<1>3. CASE Moving(r, code)
  BY <1>3 DEF Moving
<1>4. CASE Protecting(r, code)
  <2>1. Target(r) \in Levels
    BY DEF Target
  <2>2. QED
    BY <1>4, <2>1 DEF Protecting
<1>5. CASE Refusing(code)
  BY <1>5 DEF Refusing, broker
<1>6. QED
  BY <1>1, <1>2, <1>3, <1>4, <1>5 DEF Perform

LEMMA ToldTypes ==
    ASSUME Told, NEW o \in Orders,
           \/ UNCHANGED told
           \/ \E state \in {"submitted", "accepted", "rejected", "canceled"} : Tells(o, state)
           \/ \E id \in TradeIds : TellsFill(o, id)
           \/ Doubts(o)
    PROVE  Told'
BY DEF Told, told, Tells, TellsFill, Doubts

LEMMA CommandTypes ==
    ASSUME Typed, NEW k \in Tasks, Command(k)
    PROVE  Books' /\ Told' /\ Counted'
<1>1. /\ Begins(k)
      /\ described' = described \/ \E o \in Orders : described' = described \cup {o}
  BY DEF Command, CancelAll, RejectEarly, SubmitUndescribed, Submit, Cancel, Modify
<1>2. Books'
  BY <1>1 DEF Begins, broker, Books, Typed
<1>3. Counted'
  BY <1>1, ExecutionAssumption DEF Begins, Counted, Typed
<1>4. \/ UNCHANGED told
      \/ \E o \in Orders, state \in {"submitted", "rejected"} : Tells(o, state)
  BY DEF Command, CancelAll, RejectEarly, SubmitUndescribed, Submit, Cancel, Modify
<1>5. Told'
  BY <1>4 DEF Tells, told, Told, Typed
<1>6. QED
  BY <1>2, <1>3, <1>5

(* A step loads an instrument only for the order it works on, and leaves   *)
(* the broker and the counts alone.                                        *)
LEMMA StepKeeps ==
    ASSUME NEW k \in Tasks, Step(k)
    PROVE  /\ Keeps
           /\ \/ UNCHANGED described
              \/ /\ task[k].at \in {"describing", "explaining"}
                 /\ Loads(task[k].o)
BY DEF Step, SubmitRaises, SubmitRefused, SubmitUnticketed, SubmitAccepted, Price,
         RemoveRaises, Removed, List, Explain, Rows, NextRow, Dropped, Describe,
         SeeOrders, SeePositions, SendModify, Modified, Verify,
       Continues

LEMMA StepTells ==
    ASSUME NEW k \in Tasks, Step(k)
    PROVE  \/ UNCHANGED told
           \/ /\ task[k].at \in {"placing", "pricing", "listing", "explaining"}
              /\ \/ \E state \in {"accepted", "rejected", "canceled"} :
                       Tells(task[k].o, state)
                 \/ \E id \in TradeIds : TellsFill(task[k].o, id)
                 \/ Doubts(task[k].o)
BY Zenon DEF Step, SubmitRaises, SubmitRefused, SubmitUnticketed, SubmitAccepted, Price,
         RemoveRaises, Removed, List, Explain, Rows, NextRow, Dropped, Describe,
         SeeOrders, SeePositions, SendModify, Modified, Verify

LEMMA StepTypes ==
    ASSUME Typed, NEW k \in Tasks, Step(k)
    PROVE  Books' /\ Told' /\ Counted'
<1>1. task[k].at \notin {"idle", "rows", "next"} => task[k].o \in Orders
  BY DEF Typed, Task, Consistent
<1>2. Books' /\ Counted'
  BY <1>1, StepKeeps DEF Keeps, Loads, broker, Books, Counted, Typed
<1>3. CASE UNCHANGED told
  BY <1>2, <1>3 DEF Typed, told, Told
<1>4. CASE ~UNCHANGED told
  <2>1. task[k].o \in Orders
    BY <1>1, <1>4, StepTells
  <2>2. QED
    BY <1>2, <1>4, <2>1, StepTells, ToldTypes DEF Typed
<1>5. QED
  BY <1>2, <1>3, <1>4

LEMMA TypedStep == Typed /\ [Next]_vars => Typed'
<1> SUFFICES ASSUME Typed, [Next]_vars
             PROVE  Typed'
  OBVIOUS
<1>1. ASSUME NEW k \in Tasks, Command(k)
      PROVE  Typed'
  BY <1>1, CommandTasks, CommandTypes DEF Typed
<1>2. ASSUME NEW k \in Tasks, Step(k)
      PROVE  Typed'
  BY <1>2, StepTasks, StepTypes DEF Typed
<1>3. ASSUME NEW k \in Tasks, Answer(k)
      PROVE  Typed'
  <2>1. task[k].req \in Request
    BY <1>3 DEF Answer, Typed, Task, Consistent
  <2>2. Books'
    BY <1>3, <2>1, PerformTypes DEF Answer, Typed, Books
  <2>3. Told' /\ Counted'
    BY <1>3, ExecutionAssumption DEF Answer, Typed, Told, told, Counted
  <2>4. QED
    BY <1>3, <2>2, <2>3, AnswerTasks DEF Typed
<1>4. ASSUME NEW k \in Tasks, TimeOut(k)
      PROVE  Typed'
  <2>1. task[k].req \in Request
    BY <1>4 DEF TimeOut, Typed, Task, Consistent
  <2>2. Books'
    BY <1>4, <2>1 DEF TimeOut, Typed, Books, broker
  <2>3. Told' /\ Counted'
    BY <1>4, ExecutionAssumption DEF TimeOut, Typed, Told, told, Counted
  <2>4. QED
    BY <1>4, <2>2, <2>3, AnswerTasks DEF Typed
<1>5. CASE LateArrives
  <2>1. Books'
    BY <1>5, PerformTypes DEF LateArrives, Typed, Books
  <2>2. QED
    BY <1>5, <2>1 DEF LateArrives, Typed, Told, told, Counted
<1>6. ASSUME NEW o \in Orders, Market(o)
      PROVE  Typed'
  BY <1>6 DEF Market, Typed, Books, Told, told, Counted
<1>7. ASSUME NEW o \in Orders, Reconcile(o)
      PROVE  Typed'
  <2>1. Told'
    BY <1>7, ToldTypes DEF Reconcile, Typed, TradeIds
  <2>2. QED
    BY <1>7, <2>1 DEF Reconcile, Continues, Keeps, broker, Typed, Books, Counted
<1>8. CASE UNCHANGED vars
  BY <1>8 DEF vars, broker, told, Typed, Books, Told, Counted
<1>9. QED
  BY <1>1, <1>2, <1>3, <1>4, <1>5, <1>6, <1>7, <1>8 DEF Next

(* Every state of the desk has its types, among them that a command waits  *)
(* exactly with a request and is idle exactly without one.                 *)
THEOREM TypeCorrect == Spec => []TypeOK
<1>1. Typed => TypeOK
  BY TypedIsTypeOK
<1>2. QED
  BY InitTyped, TypedStep, <1>1, PTL DEF Spec
-----------------------------------------------------------------------------
(* What a command has asked for, and what its answer is evidence of.       *)

Sent(t) ==
    /\ t.at \notin Waiting => t.reply = "none"
    /\ t.at = "placing" => t.req.verb = "place" /\ t.req.o = t.o
    /\ t.at \in {"removing", "dropping"} => t.req.verb = "remove" /\ t.req.o = t.o
    /\ t.at = "modifying" => t.req.verb \in {"move", "protect"}

AllSent == \A k \in Tasks : Sent(task[k])

LEMMA InitSent == Init => AllSent
BY DEF Init, Idle, AllSent, Sent, Waiting

LEMMA EndsSent ==
    ASSUME task \in [Tasks -> Task], NEW k \in Tasks, NEW out, Ends(k, out)
    PROVE  Sent(task'[k])
BY DEF Ends, Idle, Sent, Waiting

LEMMA SettlesSent ==
    ASSUME task \in [Tasks -> Task], NEW k \in Tasks, NEW out, Settles(k, out)
    PROVE  Sent(task'[k])
<1>1. CASE task[k].op = "cancel"
  BY <1>1, EndsSent DEF Settles
<1>2. CASE task[k].op # "cancel"
  BY <1>2 DEF Settles, Idle, Sent, Waiting
<1>3. QED
  BY <1>1, <1>2

LEMMA OthersKeep ==
    ASSUME Typed, NEW k \in Tasks, Command(k) \/ Step(k) \/ Answer(k) \/ TimeOut(k),
           NEW j \in Tasks, j # k
    PROVE  task'[j] = task[j]
<1> task \in [Tasks -> Task]
  BY DEF Typed
<1>1. CASE Command(k)
  BY <1>1 DEF Command, CancelAll, RejectEarly, SubmitUndescribed, Submit, Cancel, Modify, Ends
<1>2. CASE Step(k)
  BY <1>2 DEF Step, SubmitRaises, SubmitRefused, SubmitUnticketed,
         Doubts, SubmitAccepted, Price, RemoveRaises, Removed,
         List, Explain, Rows, NextRow, Dropped, Describe, SeeOrders, SeePositions, SendModify,
         Modified, Verify, Ends, Settles, Goes, Sends, Refuses
<1>3. CASE Answer(k) \/ TimeOut(k)
  BY <1>3 DEF Answer, TimeOut
<1>4. QED
  BY <1>1, <1>2, <1>3

LEMMA StepSent ==
    ASSUME Typed, AllSent, NEW k \in Tasks, Step(k)
    PROVE  Sent(task'[k])
<1> task \in [Tasks -> Task] /\ task[k] \in TaskRecord /\ Sent(task[k])
  BY DEF Typed, Task, AllSent
<1> USE EndsSent, SettlesSent DEF Waiting, TaskRecord
<1>1. CASE SubmitRaises(k)
  BY <1>1 DEF SubmitRaises
<1>2. CASE SubmitRefused(k)
  BY <1>2 DEF SubmitRefused
<1>3. CASE SubmitAccepted(k)
  BY <1>3 DEF SubmitAccepted, Goes, Sent
<1>4. CASE Price(k)
  BY <1>4 DEF Price
<1>5. CASE RemoveRaises(k)
  BY <1>5 DEF RemoveRaises
<1>6. CASE Removed(k)
  BY <1>6 DEF Removed, Sent
<1>7. CASE List(k)
  BY <1>7 DEF List, Goes, Sent
<1>8. CASE Explain(k)
  BY <1>8 DEF Explain
<1>9. CASE Rows(k)
  BY <1>9 DEF Rows, Sent
<1>10. CASE NextRow(k)
  <2>1. CASE Ends(k, "none")
    BY <2>1
  <2>2. ASSUME NEW o \in task[k].rest, NEW at \in {"removing", "dropping"},
               task' = [task EXCEPT ![k].rest = @ \ {o}, ![k].o = o, ![k].at = at,
                                    ![k].req = Ask("remove", o, 0, 0)]
        PROVE  Sent(task'[k])
    <3>1. /\ task'[k].at = at /\ task'[k].o = o
          /\ task'[k].req = Ask("remove", o, 0, 0)
      BY <2>2
    <3>2. QED
      BY <3>1 DEF Sent, Ask
  <2>3. \A o : (IF Ticket(o) THEN "removing" ELSE "dropping") \in {"removing", "dropping"}
    OBVIOUS
  <2>4. QED
    BY <1>10, <2>1, <2>2, <2>3 DEF NextRow
<1>11. CASE Dropped(k)
  BY <1>11 DEF Dropped
<1>12. CASE SeeOrders(k)
  BY <1>12 DEF SeeOrders, Refuses, Sent
<1>13. CASE SeePositions(k)
  BY <1>13 DEF SeePositions, Refuses, Sent
<1>14. CASE SendModify(k)
  BY <1>14 DEF SendModify, Refuses, Sends, Ask, Sent
<1>15. CASE Modified(k)
  BY <1>15 DEF Modified, Refuses, Sent
<1>16. CASE Verify(k)
  BY <1>16 DEF Verify, Refuses
<1>17. CASE SubmitUnticketed(k)
  BY <1>17 DEF SubmitUnticketed
<1>18. CASE Describe(k)
  BY <1>18 DEF Describe, Goes, Sent
<1>19. QED
  BY <1>1, <1>2, <1>3, <1>4, <1>5, <1>6, <1>7, <1>8, <1>9, <1>10, <1>11, <1>12, <1>13, <1>14, <1>15, <1>16, <1>17, <1>18 DEF Step

LEMMA CommandSent ==
    ASSUME Typed, AllSent, NEW k \in Tasks, Command(k)
    PROVE  Sent(task'[k])
<1> task \in [Tasks -> Task] /\ task[k] \in TaskRecord /\ Sent(task[k])
  BY DEF Typed, Task, AllSent
<1>1. task[k].at = "idle"
  BY DEF Command, CancelAll, RejectEarly, SubmitUndescribed, Submit, Cancel, Modify, Begins, Typed, Task, Consistent
<1> USE EndsSent DEF Waiting, TaskRecord, Sent, Ask
<1>2. CASE CancelAll(k)
  BY <1>1, <1>2 DEF CancelAll
<1>3. ASSUME NEW o \in Orders, RejectEarly(k, o)
      PROVE  Sent(task'[k])
  BY <1>3 DEF RejectEarly
<1>4. ASSUME NEW o \in Orders, Submit(k, o)
      PROVE  Sent(task'[k])
  BY <1>1, <1>4 DEF Submit
<1>5. ASSUME NEW o \in Orders, Cancel(k, o)
      PROVE  Sent(task'[k])
  BY <1>1, <1>5 DEF Cancel
<1>6. ASSUME NEW o \in Orders, NEW ask \in Asks, Modify(k, o, ask)
      PROVE  Sent(task'[k])
  BY <1>1, <1>6 DEF Modify
<1>7. ASSUME NEW o \in Orders, SubmitUndescribed(k, o)
      PROVE  Sent(task'[k])
  BY <1>7 DEF SubmitUndescribed
<1>8. QED
  BY <1>2, <1>3, <1>4, <1>5, <1>6, <1>7 DEF Command

LEMMA AnswerSent ==
    ASSUME Typed, AllSent, NEW k \in Tasks, Answer(k) \/ TimeOut(k)
    PROVE  Sent(task'[k])
<1> task \in [Tasks -> Task] /\ task[k] \in TaskRecord /\ Sent(task[k])
  BY DEF Typed, Task, AllSent
<1>1. QED
  BY DEF Answer, TimeOut, Sent, Waiting, TaskRecord

LEMMA SentStep == Typed /\ AllSent /\ [Next]_vars => AllSent'
<1> SUFFICES ASSUME Typed, AllSent, [Next]_vars, NEW j \in Tasks
             PROVE  Sent(task'[j])
  BY DEF AllSent
<1>1. ASSUME NEW k \in Tasks, Command(k) \/ Step(k) \/ Answer(k) \/ TimeOut(k)
      PROVE  Sent(task'[j])
  <2>1. CASE j = k
    BY <1>1, <2>1, CommandSent, StepSent, AnswerSent
  <2>2. CASE j # k
    BY <1>1, <2>2, OthersKeep DEF AllSent
  <2>3. QED
    BY <2>1, <2>2
<1>2. CASE UNCHANGED task
  BY <1>2 DEF AllSent
<1>3. QED
  BY <1>1, <1>2 DEF Next, Market, Reconcile, LateArrives, vars
-----------------------------------------------------------------------------
(* An answer is evidence of what the book says from then on, because an    *)
(* order that filled or was cancelled stays so.                            *)

Stays == \A o \in Orders : book[o] \in {"cancelled", "held"} => book'[o] = book[o]

Evidence(k) ==
    /\ task[k].at = "removing" /\ task[k].reply = "done" => book[task[k].o] = "cancelled"
    /\ task[k].at = "placing" /\ task[k].reply = "done" /\ task[k].o \in Markets
          => book[task[k].o] = "held"
    /\ task[k].at = "listing" /\ task[k].sure => book[task[k].o] = "cancelled"

BookInv ==
    /\ Typed /\ AllSent /\ \A k \in Tasks : Evidence(k)
    /\ CanceledIsGone /\ FillsAreDeals

LEMMA PerformStays ==
    ASSUME Books, NEW r, NEW code, Perform(r, code)
    PROVE  Stays
BY DEF Books, Perform, Placing, Removing, Moving, Protecting, Refusing, broker, Stays

LEMMA PerformSettles ==
    ASSUME Books, NEW r \in Request, NEW code, Perform(r, code), code = "done"
    PROVE  /\ r.verb = "remove" => book'[r.o] = "cancelled"
           /\ r.verb = "place" /\ r.o \in Markets => book'[r.o] = "held"
BY DEF Books, Request, Perform, Placing, Removing, Moving, Protecting, Refusing

LEMMA BookStays == Typed /\ [Next]_vars => Stays
<1> SUFFICES ASSUME Typed, [Next]_vars
             PROVE  Stays
  OBVIOUS
<1>1. ASSUME NEW k \in Tasks, Command(k) \/ Step(k)
      PROVE  book' = book
  BY <1>1, StepKeeps DEF Command, CancelAll, RejectEarly, SubmitUndescribed, Submit, Cancel,
         Modify, Begins, broker, Keeps
<1>2. ASSUME NEW k \in Tasks, Answer(k)
      PROVE  Stays
  BY <1>2, PerformStays DEF Answer, Typed
<1>3. ASSUME NEW k \in Tasks, TimeOut(k)
      PROVE  book' = book
  BY <1>3 DEF TimeOut, broker
<1>4. CASE LateArrives
  BY <1>4, PerformStays DEF LateArrives, Typed
<1>5. ASSUME NEW o \in Orders, Market(o)
      PROVE  Stays
  BY <1>5 DEF Market, Stays, Typed, Books
<1>6. ASSUME NEW o \in Orders, Reconcile(o)
      PROVE  book' = book
  BY <1>6 DEF Reconcile, Continues, Keeps, broker
<1>7. CASE UNCHANGED vars
  BY <1>7 DEF vars, broker, Stays
<1>8. QED
  BY <1>1, <1>2, <1>3, <1>4, <1>5, <1>6, <1>7 DEF Next, Stays

Quiet(t) ==
    /\ t.at \notin {"placing", "listing"}
    /\ t.at = "removing" => t.reply = "none"

LEMMA SettlesQuiet ==
    ASSUME task \in [Tasks -> Task], NEW k \in Tasks, NEW out,
           Ends(k, out) \/ Settles(k, out)
    PROVE  Quiet(task'[k])
<1>1. ASSUME Ends(k, out)
      PROVE  Quiet(task'[k])
  BY <1>1 DEF Ends, Idle, Quiet
<1>2. CASE Settles(k, out) /\ task[k].op = "cancel"
  BY <1>1, <1>2 DEF Settles
<1>3. CASE Settles(k, out) /\ task[k].op # "cancel"
  BY <1>3 DEF Settles, Idle, Quiet
<1>4. QED
  BY <1>1, <1>2, <1>3

(* Only an answered cancel goes on to the listing. *)
LEMMA OtherwiseQuiet ==
    ASSUME Typed, AllSent, NEW k \in Tasks, Step(k), ~Removed(k)
    PROVE  Quiet(task'[k])
<1> task \in [Tasks -> Task] /\ task[k] \in TaskRecord /\ Sent(task[k])
  BY DEF Typed, Task, AllSent
<1> USE SettlesQuiet DEF TaskRecord, Quiet
<1>1. CASE SubmitRaises(k)
  BY <1>1 DEF SubmitRaises
<1>2. CASE SubmitRefused(k)
  BY <1>2 DEF SubmitRefused
<1>3. CASE SubmitAccepted(k)
  BY <1>3 DEF SubmitAccepted, Goes
<1>4. CASE Price(k)
  BY <1>4 DEF Price
<1>5. CASE RemoveRaises(k)
  BY <1>5 DEF RemoveRaises
<1>6. CASE List(k)
  BY <1>6 DEF List, Goes
<1>7. CASE Explain(k)
  BY <1>7 DEF Explain
<1>8. CASE Rows(k)
  BY <1>8 DEF Rows
<1>9. CASE Dropped(k)
  BY <1>9 DEF Dropped
<1>10. CASE SeeOrders(k)
  BY <1>10 DEF SeeOrders, Refuses
<1>11. CASE SeePositions(k)
  BY <1>11 DEF SeePositions, Refuses
<1>12. CASE SendModify(k)
  BY <1>12 DEF SendModify, Refuses, Sends
<1>13. CASE Modified(k)
  BY <1>13 DEF Modified, Refuses
<1>14. CASE Verify(k)
  BY <1>14 DEF Verify, Refuses
<1>15. CASE NextRow(k)
  <2>1. CASE Ends(k, "none")
    BY <2>1
  <2>2. ASSUME NEW o \in task[k].rest, NEW at \in {"removing", "dropping"},
               task' = [task EXCEPT ![k].rest = @ \ {o}, ![k].o = o, ![k].at = at,
                                    ![k].req = Ask("remove", o, 0, 0)]
        PROVE  Quiet(task'[k])
    <3>1. task'[k].at = at /\ task'[k].reply = task[k].reply
      BY <2>2
    <3>2. task[k].reply = "none"
      BY <1>15 DEF NextRow, Sent, Waiting
    <3>3. QED
      BY <3>1, <3>2
  <2>3. \A o : (IF Ticket(o) THEN "removing" ELSE "dropping") \in {"removing", "dropping"}
    OBVIOUS
  <2>4. QED
    BY <1>15, <2>1, <2>2, <2>3 DEF NextRow
<1>16. CASE SubmitUnticketed(k)
  BY <1>16 DEF SubmitUnticketed
<1>17. CASE Describe(k)
  BY <1>17 DEF Describe, Goes
<1>18. QED
  BY <1>1, <1>2, <1>3, <1>4, <1>5, <1>6, <1>7, <1>8, <1>9, <1>10, <1>11, <1>12, <1>13, <1>14, <1>15, <1>16, <1>17 DEF Step

LEMMA StepEvidence ==
    ASSUME BookInv, NEW k \in Tasks, Step(k)
    PROVE  Evidence(k)'
<1> task \in [Tasks -> Task] /\ task[k] \in TaskRecord /\ Sent(task[k]) /\ Evidence(k)
  BY DEF BookInv, Typed, Task, AllSent
<1>1. book' = book
  BY StepKeeps DEF Keeps, broker
<1>2. CASE Removed(k)
  <2>1. /\ task'[k].at = "listing" /\ task'[k].o = task[k].o
        /\ task'[k].sure = (task[k].reply = "done")
    BY <1>2 DEF Removed, TaskRecord
  <2>2. task[k].at = "removing"
    BY <1>2 DEF Removed
  <2>3. QED
    BY <1>1, <2>1, <2>2 DEF Evidence
<1>3. CASE ~Removed(k)
  BY <1>3, OtherwiseQuiet DEF BookInv, Quiet, Evidence
<1>4. QED
  BY <1>2, <1>3
LEMMA CommandEvidence ==
    ASSUME BookInv, NEW k \in Tasks, Command(k)
    PROVE  Evidence(k)'
<1> task \in [Tasks -> Task] /\ task[k] \in TaskRecord /\ Sent(task[k])
  BY DEF BookInv, Typed, Task, AllSent
<1>1. task[k].at = "idle" /\ task[k].reply = "none"
  BY DEF Command, CancelAll, RejectEarly, SubmitUndescribed, Submit, Cancel, Modify, Begins, BookInv, Typed,
         Task, Consistent, Sent, Waiting
<1>2. /\ task'[k].reply = "none"
      /\ task'[k].at # "listing"
  <2> USE DEF TaskRecord, Ends, Idle
  <2>1. CASE CancelAll(k)
    BY <1>1, <2>1 DEF CancelAll
  <2>2. ASSUME NEW o \in Orders, \/ RejectEarly(k, o) \/ SubmitUndescribed(k, o)
                               \/ Submit(k, o)
        PROVE  <1>2!1 /\ <1>2!2
    BY <1>1, <2>2 DEF RejectEarly, SubmitUndescribed, Submit
  <2>3. ASSUME NEW o \in Orders, Cancel(k, o)
        PROVE  <1>2!1 /\ <1>2!2
    BY <1>1, <2>3 DEF Cancel
  <2>4. ASSUME NEW o \in Orders, NEW ask \in Asks, Modify(k, o, ask)
        PROVE  <1>2!1 /\ <1>2!2
    BY <1>1, <2>4 DEF Modify
  <2>5. QED
    BY <2>1, <2>2, <2>3, <2>4 DEF Command
<1>3. QED
  BY <1>2 DEF Evidence

LEMMA AnswerEvidence ==
    ASSUME BookInv, NEW k \in Tasks, Answer(k)
    PROVE  Evidence(k)'
<1> task \in [Tasks -> Task] /\ task[k] \in TaskRecord /\ Sent(task[k])
  BY DEF BookInv, Typed, Task, AllSent
<1>1. PICK code \in {"done", "placed", "refused"} :
         /\ Perform(task[k].req, code)
         /\ \/ task' = [task EXCEPT ![k].reply = Answered(task[k].req, code)]
            \/ \E reply \in NoAnswer : task' = [task EXCEPT ![k].reply = reply]
  BY DEF Answer
<1>2. /\ task'[k].at = task[k].at /\ task'[k].o = task[k].o
      /\ task'[k].reply = "done" => code = "done"
  BY <1>1 DEF Answered, NoAnswer, TaskRecord
<1>3. task[k].at \in Waiting /\ task[k].req \in Request
  BY DEF Answer, BookInv, Typed, Task, Consistent
<1>4. code = "done" =>
        /\ task[k].req.verb = "remove" => book'[task[k].req.o] = "cancelled"
        /\ task[k].req.verb = "place" /\ task[k].req.o \in Markets
              => book'[task[k].req.o] = "held"
  BY <1>1, <1>3, PerformSettles DEF BookInv, Typed
<1>5. QED
  BY <1>2, <1>3, <1>4 DEF Evidence, Sent, Waiting

LEMMA EvidenceStep == BookInv /\ [Next]_vars => \A j \in Tasks : Evidence(j)'
<1> SUFFICES ASSUME BookInv, [Next]_vars, NEW j \in Tasks
             PROVE  Evidence(j)'
  OBVIOUS
<1> Typed /\ AllSent /\ Evidence(j)
  BY DEF BookInv
<1>1. ASSUME task'[j] = task[j]
      PROVE  Evidence(j)'
  <2>1. task[j].at \in {"removing", "placing", "listing"} => task[j].o \in Orders
    BY DEF Typed, Task, Consistent
  <2>2. Stays
    BY BookStays
  <2>3. QED
    BY <1>1, <2>1, <2>2 DEF Evidence, Stays
<1>2. ASSUME NEW k \in Tasks, Command(k) \/ Step(k) \/ Answer(k) \/ TimeOut(k)
      PROVE  Evidence(j)'
  <2>1. CASE j # k
    BY <1>1, <1>2, <2>1, OthersKeep
  <2>2. CASE j = k /\ TimeOut(k)
    <3>1. /\ task'[k].reply \in NoAnswer
          /\ task'[k].at = task[k].at /\ task[k].at \in Waiting
      BY <2>2 DEF TimeOut, Typed, Task, TaskRecord
    <3>2. QED
      BY <2>2, <3>1 DEF Evidence, Waiting, NoAnswer
  <2>3. CASE j = k /\ ~TimeOut(k)
    BY <1>2, <2>3, CommandEvidence, StepEvidence, AnswerEvidence
  <2>4. QED
    BY <2>1, <2>2, <2>3
<1>3. QED
  BY <1>1, <1>2 DEF Next, Market, Reconcile, LateArrives, vars

(* What the engine is told agrees with the book.                           *)
LEMMA ToldRight ==
    ASSUME BookInv, [Next]_vars, NEW o \in Orders
    PROVE  /\ engine'[o] = "canceled" => engine[o] = "canceled" \/ book[o] = "cancelled"
           /\ fills'[o] # {} => fills[o] # {} \/ book[o] = "held"
<1> DEFINE Goal == /\ engine'[o] = "canceled" => engine[o] = "canceled" \/ book[o] = "cancelled"
                   /\ fills'[o] # {} => fills[o] # {} \/ book[o] = "held"
<1> Typed /\ Told
  BY DEF BookInv, Typed
<1>1. ASSUME NEW p, NEW state \in {"submitted", "accepted", "rejected"}, Tells(p, state)
      PROVE  Goal
  BY <1>1 DEF Tells, Told
<1>2. ASSUME UNCHANGED told
      PROVE  Goal
  BY <1>2 DEF told
<1>3. ASSUME NEW p \in Orders, book[p] = "held", NEW id, TellsFill(p, id)
      PROVE  Goal
  BY <1>3 DEF TellsFill, Told
<1>4. ASSUME NEW p \in Orders, book[p] = "cancelled", Tells(p, "canceled")
      PROVE  Goal
  BY <1>4 DEF Tells, Told
<1>5. ASSUME NEW p, Doubts(p)
      PROVE  Goal
  BY <1>5 DEF Doubts, Told
<1>6. ASSUME NEW k \in Tasks, Command(k)
      PROVE  Goal
  BY <1>1, <1>2, <1>6 DEF Command, CancelAll, RejectEarly, SubmitUndescribed, Submit, Cancel, Modify
<1>7. ASSUME NEW k \in Tasks, Step(k)
      PROVE  Goal
  <2>1. Evidence(k) /\ (task[k].at \notin {"idle", "rows", "next"} => task[k].o \in Orders)
    BY DEF BookInv, Typed, Task, Consistent
  <2>2. CASE SubmitAccepted(k)
    BY <1>1, <1>3, <2>1, <2>2 DEF SubmitAccepted, IsFill, Evidence
  <2>3. CASE Price(k) \/ Explain(k)
    BY <1>2, <1>3, <2>1, <2>3 DEF Price, Explain
  <2>4. CASE List(k)
    BY <1>2, <1>4, <2>1, <2>4 DEF List, Evidence
  <2>5. CASE SubmitRefused(k) \/ SubmitUnticketed(k)
    BY <1>1, <1>5, <2>5 DEF SubmitRefused, SubmitUnticketed
  <2>6. CASE UNCHANGED told
    BY <1>2, <2>6
  <2>7. QED
    BY <1>7, <2>2, <2>3, <2>4, <2>5, <2>6
       DEF Step, SubmitRaises, RemoveRaises, Removed, Rows, NextRow, Dropped, Describe,
           SeeOrders, SeePositions, SendModify, Modified, Verify
<1>8. ASSUME NEW p \in Orders, Reconcile(p)
      PROVE  Goal
  BY <1>3, <1>8 DEF Reconcile
<1>9. QED
  BY <1>2, <1>6, <1>7, <1>8 DEF Next, Answer, TimeOut, LateArrives, Market, vars

LEMMA BookInvStep == BookInv /\ [Next]_vars => BookInv'
<1> SUFFICES ASSUME BookInv, [Next]_vars
             PROVE  BookInv'
  OBVIOUS
<1>1. Typed' /\ AllSent' /\ \A k \in Tasks : Evidence(k)'
  BY TypedStep, SentStep, EvidenceStep DEF BookInv
<1>2. ASSUME NEW o \in Orders
      PROVE  /\ engine'[o] = "canceled" => book'[o] = "cancelled"
             /\ fills'[o] # {} => book'[o] = "held"
  <2>1. /\ engine[o] = "canceled" => book[o] = "cancelled"
        /\ fills[o] # {} => book[o] = "held"
    BY DEF BookInv, CanceledIsGone, FillsAreDeals
  <2>2. book[o] \in {"cancelled", "held"} => book'[o] = book[o]
    BY BookStays DEF BookInv, Stays
  <2>3. QED
    BY <2>1, <2>2, ToldRight
<1>3. QED
  BY <1>1, <1>2 DEF BookInv, CanceledIsGone, FillsAreDeals

LEMMA InitBookInv == Init => BookInv
<1> SUFFICES ASSUME Init
             PROVE  BookInv
  OBVIOUS
<1>1. \A k \in Tasks : Evidence(k)
  BY DEF Init, Idle, Evidence
<1>2. CanceledIsGone /\ FillsAreDeals
  BY DEF Init, CanceledIsGone, FillsAreDeals
<1>3. QED
  BY <1>1, <1>2, InitTyped, InitSent DEF BookInv

(* An order the engine believes cancelled is at the broker no more, and    *)
(* did not fill (_withdraw).                                               *)
THEOREM CanceledAlwaysGone == Spec => []CanceledIsGone
<1>1. BookInv => CanceledIsGone
  BY DEF BookInv
<1>2. QED
  BY InitBookInv, BookInvStep, <1>1, PTL DEF Spec

(* A fill the engine was told of is a position (_submit_order, _withdraw). *)
THEOREM FillsAlwaysDeals == Spec => []FillsAreDeals
<1>1. BookInv => FillsAreDeals
  BY DEF BookInv
<1>2. QED
  BY InitBookInv, BookInvStep, <1>1, PTL DEF Spec
-----------------------------------------------------------------------------
(* A stop is taken away by a request without one; so every request that    *)
(* may, those still on their way included, carries one.                    *)

CarriesStop(r) == r.verb \in {"place", "protect"} /\ r.o \in Stopped => r.a # 0

Stops(t) ==
    /\ t.at \in Waiting => CarriesStop(t.req)
    /\ t.seen.held => t.at \in {"sending", "modifying", "verifying"}
    /\ t.seen.held /\ t.o \in Stopped => t.seen.sl # 0

StopInv ==
    /\ Typed /\ StopKept
    /\ \A k \in Tasks : Stops(task[k])
    /\ \A r \in late : CarriesStop(r)

LEMMA InitStopInv == Init => StopInv
<1> SUFFICES ASSUME Init
             PROVE  StopInv
  OBVIOUS
<1>1. \A k \in Tasks : Stops(task[k])
  BY DEF Init, Idle, NoSight, Stops, Waiting
<1>2. StopKept
  <2> SUFFICES ASSUME NEW o \in Stopped, book[o] # "none"
               PROVE  level[o].sl # 0
    BY DEF StopKept
  <2>1. o \in Orders /\ level[o] = Standing(o)
    BY ExecutionAssumption DEF Init
  <2>2. QED
    BY <2>1 DEF Standing, Stop
<1>3. QED
  BY <1>1, <1>2, InitTyped DEF StopInv, Init

LEMMA PerformKeepsStops ==
    ASSUME Books, StopKept, NEW r \in Request, NEW code, Perform(r, code), CarriesStop(r)
    PROVE  StopKept'
<1> SUFFICES ASSUME NEW o \in Stopped, book'[o] # "none"
             PROVE  level'[o].sl # 0
  BY DEF StopKept
<1> o \in Orders
  BY ExecutionAssumption
<1> USE DEF Books, Request, StopKept
<1>1. CASE Placing(r, code)
  BY <1>1 DEF Placing, CarriesStop
<1>2. CASE Removing(r, code)
  BY <1>2 DEF Removing
<1>3. CASE Moving(r, code)
  BY <1>3 DEF Moving
<1>4. CASE Protecting(r, code)
  BY <1>4 DEF Protecting, CarriesStop
<1>5. CASE Refusing(code)
  BY <1>5 DEF Refusing, broker
<1>6. QED
  BY <1>1, <1>2, <1>3, <1>4, <1>5 DEF Perform

LEMMA EndsStops ==
    ASSUME task \in [Tasks -> Task], NEW k \in Tasks, NEW out,
           Ends(k, out) \/ Settles(k, out)
    PROVE  Stops(task'[k])
<1>1. ASSUME Ends(k, out)
      PROVE  Stops(task'[k])
  BY <1>1 DEF Ends, Idle, NoSight, Stops, Waiting
<1>2. CASE Settles(k, out) /\ task[k].op = "cancel"
  BY <1>1, <1>2 DEF Settles
<1>3. CASE Settles(k, out) /\ task[k].op # "cancel"
  <2>1. task'[k].at = "next" /\ task'[k].seen = NoSight
    BY <1>3 DEF Settles, Idle
  <2>2. QED
    BY <2>1 DEF NoSight, Stops, Waiting
<1>4. QED
  BY <1>1, <1>2, <1>3

LEMMA StepStops ==
    ASSUME StopInv, NEW k \in Tasks, Step(k)
    PROVE  Stops(task'[k])
<1> task \in [Tasks -> Task] /\ task[k] \in TaskRecord /\ Stops(task[k])
  BY DEF StopInv, Typed, Task
<1> USE EndsStops DEF TaskRecord, Seen, Stops, Waiting
<1>1. CASE SubmitRaises(k)
  BY <1>1 DEF SubmitRaises
<1>2. CASE SubmitRefused(k)
  BY <1>2 DEF SubmitRefused
<1>3. CASE SubmitAccepted(k)
  BY <1>3 DEF SubmitAccepted, Goes
<1>4. CASE Price(k)
  BY <1>4 DEF Price
<1>5. CASE RemoveRaises(k)
  BY <1>5 DEF RemoveRaises
<1>6. CASE Removed(k)
  BY <1>6 DEF Removed
<1>7. CASE List(k)
  BY <1>7 DEF List, Goes
<1>8. CASE Explain(k)
  BY <1>8 DEF Explain
<1>9. CASE Rows(k)
  BY <1>9 DEF Rows
<1>10. CASE Dropped(k)
  BY <1>10 DEF Dropped
<1>11. CASE SeeOrders(k)
  BY <1>11 DEF SeeOrders, Refuses
<1>12. CASE Modified(k)
  BY <1>12 DEF Modified, Refuses
<1>13. CASE Verify(k)
  BY <1>13 DEF Verify, Refuses
<1>14. CASE NextRow(k)
  <2>1. CASE Ends(k, "none")
    BY <2>1
  <2>2. ASSUME NEW o \in task[k].rest, NEW at \in {"removing", "dropping"},
               task' = [task EXCEPT ![k].rest = @ \ {o}, ![k].o = o, ![k].at = at,
                                    ![k].req = Ask("remove", o, 0, 0)]
        PROVE  Stops(task'[k])
    <3>1. /\ task'[k].at = at /\ task'[k].seen = task[k].seen
          /\ task'[k].req = Ask("remove", o, 0, 0)
      BY <2>2
    <3>2. task[k].at = "next"
      BY <1>14 DEF NextRow
    <3>3. QED
      BY <3>1, <3>2 DEF Ask, CarriesStop
  <2>3. \A o : (IF Ticket(o) THEN "removing" ELSE "dropping") \in {"removing", "dropping"}
    OBVIOUS
  <2>4. QED
    BY <1>14, <2>1, <2>2, <2>3 DEF NextRow
<1>15. CASE SeePositions(k)
  BY <1>15 DEF SeePositions, Refuses, StopInv, StopKept
<1>16. CASE SendModify(k)
  BY <1>16 DEF SendModify, Refuses, Sends, Ask, CarriesStop, NewStop
<1>17. CASE SubmitUnticketed(k)
  BY <1>17 DEF SubmitUnticketed
<1>18. CASE Describe(k)
  BY <1>18 DEF Describe, Goes
<1>19. QED
  BY <1>1, <1>2, <1>3, <1>4, <1>5, <1>6, <1>7, <1>8, <1>9, <1>10, <1>11, <1>12, <1>13, <1>14, <1>15, <1>16, <1>17, <1>18 DEF Step

LEMMA CommandStops ==
    ASSUME StopInv, NEW k \in Tasks, Command(k)
    PROVE  Stops(task'[k])
<1> task \in [Tasks -> Task] /\ task[k] \in TaskRecord /\ Stops(task[k])
  BY DEF StopInv, Typed, Task
<1>1. task[k].at = "idle"
  BY DEF Command, CancelAll, RejectEarly, SubmitUndescribed, Submit, Cancel, Modify, Begins, StopInv, Typed,
         Task, Consistent
<1> USE EndsStops DEF TaskRecord, Seen, Stops, Waiting
<1>2. CASE CancelAll(k)
  BY <1>1, <1>2 DEF CancelAll
<1>3. ASSUME NEW o \in Orders, RejectEarly(k, o)
      PROVE  Stops(task'[k])
  BY <1>3 DEF RejectEarly
<1>4. ASSUME NEW o \in Orders, Submit(k, o)
      PROVE  Stops(task'[k])
  BY <1>1, <1>4 DEF Submit, Ask, CarriesStop, Stop
<1>5. ASSUME NEW o \in Orders, Cancel(k, o)
      PROVE  Stops(task'[k])
  BY <1>1, <1>5 DEF Cancel, Ask, CarriesStop
<1>6. ASSUME NEW o \in Orders, NEW ask \in Asks, Modify(k, o, ask)
      PROVE  Stops(task'[k])
  BY <1>1, <1>6 DEF Modify
<1>7. ASSUME NEW o \in Orders, SubmitUndescribed(k, o)
      PROVE  Stops(task'[k])
  BY <1>7 DEF SubmitUndescribed
<1>8. QED
  BY <1>2, <1>3, <1>4, <1>5, <1>6, <1>7 DEF Command

LEMMA StopInvStep == StopInv /\ [Next]_vars => StopInv'
<1> SUFFICES ASSUME StopInv, [Next]_vars
             PROVE  StopInv'
  OBVIOUS
<1> Typed /\ Books /\ task \in [Tasks -> Task] /\ \A k \in Tasks : Stops(task[k])
  BY DEF StopInv, Typed
<1> DEFINE Kept == StopKept' /\ \A r \in late' : CarriesStop(r)
           Held == \A j \in Tasks : Stops(task'[j])
<1>1. UNCHANGED <<broker, late>> => Kept
  BY DEF broker, StopInv, StopKept
<1>2. ASSUME NEW k \in Tasks, Command(k) \/ Step(k)
      PROVE  Kept /\ Held
  <2>1. UNCHANGED <<broker, late>>
    BY <1>2, StepKeeps DEF Command, CancelAll, RejectEarly, SubmitUndescribed, Submit,
         Cancel, Modify, Begins, Keeps
  <2>2. Stops(task'[k])
    BY <1>2, CommandStops, StepStops
  <2>3. QED
    BY <1>1, <1>2, <2>1, <2>2, OthersKeep
<1>3. ASSUME NEW k \in Tasks, Answer(k) \/ TimeOut(k)
      PROVE  Kept /\ Held
  <2>1. task[k].at \in Waiting /\ task[k].req \in Request /\ CarriesStop(task[k].req)
    BY <1>3 DEF Answer, TimeOut, Task, Consistent, Stops
  <2>2. Kept
    BY <1>3, <2>1, PerformKeepsStops DEF Answer, TimeOut, StopInv, broker, StopKept
  <2>3. /\ task'[k].at = task[k].at /\ task'[k].req = task[k].req
        /\ task'[k].seen = task[k].seen /\ task'[k].o = task[k].o
    BY <1>3 DEF Answer, TimeOut, Task, TaskRecord
  <2>4. Stops(task'[k])
    BY <2>3 DEF Stops
  <2>5. QED
    BY <1>3, <2>2, <2>4, OthersKeep
<1>4. ASSUME LateArrives
      PROVE  Kept /\ Held
  <2>1. Kept
    BY <1>4, PerformKeepsStops DEF LateArrives, StopInv, Books
  <2>2. QED
    <3>1. task' = task
      BY <1>4 DEF LateArrives
    <3>2. QED
      BY <2>1, <3>1
<1>5. ASSUME NEW o \in Orders, Market(o)
      PROVE  Kept /\ Held
  BY <1>5, ExecutionAssumption DEF Market, StopInv, StopKept, Books
<1>6. ASSUME NEW o \in Orders, Reconcile(o)
      PROVE  Kept /\ Held
  BY <1>1, <1>6 DEF Reconcile, Continues, Keeps
<1>7. ASSUME UNCHANGED vars
      PROVE  Kept /\ Held
  <2>1. task' = task /\ UNCHANGED <<broker, late>>
    BY <1>7 DEF vars
  <2>2. QED
    BY <1>1, <2>1
<1>8. QED
  BY <1>2, <1>3, <1>4, <1>5, <1>6, <1>7, TypedStep DEF Next, StopInv

(* A position opened with a stop has one, whatever modifies run at once,   *)
(* time out or arrive late (_send_modify).                                 *)
THEOREM StopAlwaysKept == Spec => []StopKept
<1>1. StopInv => StopKept
  BY DEF StopInv
<1>2. QED
  BY InitStopInv, StopInvStep, <1>1, PTL DEF Spec
-----------------------------------------------------------------------------
(* An order rejected because the terminal refused it is nowhere: it was    *)
(* sent once, and the one request sent is the one that was answered.       *)

Puts(k, o) == task[k].at = "placing" /\ task[k].o = o

NoneLate(o) == \A r \in late : ~(r.verb = "place" /\ r.o = o)

Unplaced(o) ==
    book[o] = "none" /\ NoneLate(o) /\ \A k \in Tasks : ~Puts(k, o)

(* Not answered yet, or refused where only the terminal can refuse. *)
Untaken(k) ==
    \/ task[k].reply = "none"
    \/ task[k].reply = "refused" /\ transport = "rpyc"

(* The engine takes the order for one the broker does not have. *)
Unborn(o) ==
    engine[o] = "initialized" \/ (engine[o] = "rejected" /\ o \notin doubted)

PutOnce(o) ==
    /\ Unborn(o) => Unplaced(o)
    /\ \A k \in Tasks : Puts(k, o) =>
         /\ \A j \in Tasks : Puts(j, o) => j = k
         /\ task[k].reply \notin NoAnswer => NoneLate(o)
         /\ Untaken(k) => book[o] = "none"

PlaceInv == Typed /\ AllSent /\ \A o \in Orders : PutOnce(o)

LEMMA InitPlaceInv == Init => PlaceInv
<1> SUFFICES ASSUME Init
             PROVE  PlaceInv
  OBVIOUS
<1>1. \A o \in Orders : PutOnce(o)
  BY DEF Init, Idle, PutOnce, Unborn, Unplaced, NoneLate, Puts
<1>2. QED
  BY <1>1, InitTyped, InitSent DEF PlaceInv

(* A step that puts nothing of an order on its way.                        *)
LEMMA PutsNothing ==
    ASSUME NEW o \in Orders, PutOnce(o), transport' = transport,
           book[o] = "none" => book'[o] = "none",
           NoneLate(o) => NoneLate(o)',
           \A k \in Tasks : Puts(k, o)' => Puts(k, o) /\ task'[k].reply = task[k].reply,
           Unborn(o)' => Unborn(o) \/ Unplaced(o)'
    PROVE  PutOnce(o)'
<1>1. Unplaced(o) => Unplaced(o)'
  BY DEF Unplaced
<1>2. Unborn(o)' => Unplaced(o)'
  BY <1>1 DEF PutOnce
<1>3. ASSUME NEW k \in Tasks, Puts(k, o)'
      PROVE  /\ \A j \in Tasks : Puts(j, o)' => j = k
             /\ task'[k].reply \notin NoAnswer => NoneLate(o)'
             /\ Untaken(k)' => book'[o] = "none"
  BY <1>3 DEF PutOnce, Untaken
<1>4. QED
  BY <1>2, <1>3 DEF PutOnce

LEMMA EndsPuts ==
    ASSUME task \in [Tasks -> Task], NEW k \in Tasks, NEW out,
           Ends(k, out) \/ Settles(k, out)
    PROVE  task'[k].at # "placing"
<1>1. ASSUME Ends(k, out)
      PROVE  task'[k].at # "placing"
  BY <1>1 DEF Ends, Idle
<1>2. CASE Settles(k, out) /\ task[k].op # "cancel"
  BY <1>2 DEF Settles, Idle
<1>3. CASE Settles(k, out) /\ task[k].op = "cancel"
  BY <1>1, <1>3 DEF Settles
<1>4. QED
  BY <1>1, <1>2, <1>3

LEMMA StepPuts ==
    ASSUME Typed, NEW k \in Tasks, Step(k)
    PROVE  task'[k].at # "placing"
<1> task \in [Tasks -> Task] /\ task[k] \in TaskRecord
  BY DEF Typed, Task
<1> USE EndsPuts DEF TaskRecord
<1>1. CASE SubmitRaises(k) \/ SubmitRefused(k) \/ SubmitUnticketed(k) \/ SubmitAccepted(k)
          \/ Price(k) \/ Describe(k)
  BY <1>1 DEF SubmitRaises, SubmitRefused, SubmitUnticketed, SubmitAccepted, Price, Describe,
              Goes
<1>2. CASE RemoveRaises(k) \/ Removed(k) \/ List(k) \/ Explain(k)
  BY <1>2 DEF RemoveRaises, Removed, List, Explain, Goes
<1>3. CASE Rows(k) \/ Dropped(k)
  BY <1>3 DEF Rows, Dropped
<1>4. CASE NextRow(k)
  <2>1. ASSUME NEW o \in task[k].rest, NEW at \in {"removing", "dropping"},
               task' = [task EXCEPT ![k].rest = @ \ {o}, ![k].o = o, ![k].at = at,
                                    ![k].req = Ask("remove", o, 0, 0)]
        PROVE  task'[k].at # "placing"
    BY <2>1
  <2>2. \A o : (IF Ticket(o) THEN "removing" ELSE "dropping") \in {"removing", "dropping"}
    OBVIOUS
  <2>3. CASE Ends(k, "none")
    BY <2>3
  <2>4. QED
    BY <1>4, <2>1, <2>2, <2>3 DEF NextRow
<1>5. CASE SeeOrders(k) \/ SeePositions(k) \/ SendModify(k) \/ Modified(k) \/ Verify(k)
  BY <1>5 DEF SeeOrders, SeePositions, SendModify, Modified, Verify, Refuses, Sends
<1>6. QED
  BY <1>1, <1>2, <1>3, <1>4, <1>5 DEF Step

LEMMA CommandPuts ==
    ASSUME Typed, NEW k \in Tasks, Command(k)
    PROVE  task'[k].at # "placing" \/ \E o \in Orders : Submit(k, o)
<1> task \in [Tasks -> Task] /\ task[k] \in TaskRecord
  BY DEF Typed, Task
<1> USE EndsPuts DEF TaskRecord
<1>1. CASE CancelAll(k)
  BY <1>1 DEF CancelAll
<1>2. ASSUME NEW o \in Orders, \/ RejectEarly(k, o) \/ SubmitUndescribed(k, o)
                               \/ Cancel(k, o)
      PROVE  task'[k].at # "placing"
  BY <1>2 DEF RejectEarly, SubmitUndescribed, Cancel
<1>3. ASSUME NEW o \in Orders, NEW ask \in Asks, Modify(k, o, ask)
      PROVE  task'[k].at # "placing"
  BY <1>3 DEF Modify, Begins, Typed, Task, Consistent
<1>4. QED
  BY <1>1, <1>2, <1>3 DEF Command

(* Only a request to place an order brings it to the book.                *)
LEMMA PerformPuts ==
    ASSUME Books, NEW r \in Request, NEW code, Perform(r, code),
           NEW o \in Orders, ~(r.verb = "place" /\ r.o = o), book[o] = "none"
    PROVE  book'[o] = "none"
BY DEF Books, Request, Perform, Placing, Removing, Moving, Protecting, Refusing, broker

LEMMA RefusedPuts ==
    ASSUME NEW r \in Request, Perform(r, "refused")
    PROVE  book' = book
BY DEF Perform, Placing, Removing, Moving, Protecting, Refusing, broker

LEMMA StepPlaces ==
    ASSUME PlaceInv, NEW k \in Tasks, Step(k), NEW o \in Orders
    PROVE  PutOnce(o)'
<1> /\ Typed /\ Told /\ task \in [Tasks -> Task] /\ task[k] \in TaskRecord
    /\ Sent(task[k]) /\ PutOnce(o)
  BY DEF PlaceInv, Typed, Task, AllSent
<1>1. UNCHANGED <<transport, broker, late>>
  BY StepKeeps DEF Keeps
<1>2. book' = book /\ (NoneLate(o) => NoneLate(o)')
  BY <1>1 DEF broker, NoneLate
<1>3. \A j \in Tasks : Puts(j, o)' => j # k /\ Puts(j, o) /\ task'[j] = task[j]
  BY StepPuts, OthersKeep DEF Puts
<1>4. CASE SubmitRefused(k) /\ task[k].o = o /\ task[k].reply # "unclear"
  <2>1. Puts(k, o) /\ task[k].reply \notin NoAnswer /\ Untaken(k)
    <3>1. /\ task[k].reply = "refused" /\ transport # "http" /\ task[k].at = "placing"
      BY <1>4 DEF SubmitRefused, Answers, Raised, Taken, TaskRecord
    <3>2. transport \in {"http", "rpyc"}
      BY ExecutionAssumption DEF Typed, Books
    <3>3. QED
      BY <1>4, <3>1, <3>2 DEF Puts, Untaken, NoAnswer
  <2>2. book[o] = "none" /\ NoneLate(o) /\ \A j \in Tasks : Puts(j, o) => j = k
    BY <2>1 DEF PutOnce
  <2>3. Unplaced(o)'
    BY <1>2, <1>3, <2>2 DEF Unplaced
  <2>4. QED
    BY <1>1, <1>2, <1>3, <2>3, PutsNothing
<1>5. CASE ~(SubmitRefused(k) /\ task[k].o = o /\ task[k].reply # "unclear")
  <2>1. Unborn(o)' => Unborn(o)
    <3>1. CASE UNCHANGED told
      BY <3>1 DEF told, Unborn
    <3>2. ASSUME NEW state \in {"accepted", "canceled"}, Tells(task[k].o, state)
          PROVE  Unborn(o)' => Unborn(o)
      BY <3>2 DEF Tells, Told, Unborn
    <3>3. ASSUME NEW id, TellsFill(task[k].o, id)
          PROVE  Unborn(o)' => Unborn(o)
      BY <3>3 DEF TellsFill, Told, Unborn
    <3>4. CASE Doubts(task[k].o)
      BY <3>4 DEF Doubts, Told, Unborn
    <3>5. CASE Tells(task[k].o, "rejected") /\ task[k].o # o
      BY <3>5 DEF Tells, Told, Unborn
    <3>6. CASE SubmitRefused(k)
      BY <1>5, <3>4, <3>5, <3>6 DEF SubmitRefused
    <3>7. CASE ~SubmitRefused(k)
      <4>1. \/ UNCHANGED told \/ Doubts(task[k].o)
            \/ \E state \in {"accepted", "canceled"} : Tells(task[k].o, state)
            \/ \E id \in TradeIds : TellsFill(task[k].o, id)
        BY <3>7, Zenon
           DEF Step, SubmitRaises, SubmitUnticketed, SubmitAccepted, Price, RemoveRaises,
               Removed, List, Explain, Rows, NextRow, Dropped, Describe, SeeOrders,
               SeePositions, SendModify, Modified, Verify
      <4>2. QED
        BY <3>1, <3>2, <3>3, <3>4, <4>1
    <3>8. QED
      BY <3>6, <3>7
  <2>2. QED
    BY <1>1, <1>2, <1>3, <2>1, PutsNothing
<1>6. QED
  BY <1>4, <1>5

LEMMA CommandPlaces ==
    ASSUME PlaceInv, NEW k \in Tasks, Command(k), NEW o \in Orders
    PROVE  PutOnce(o)'
<1> /\ Typed /\ Told /\ task \in [Tasks -> Task] /\ task[k] \in TaskRecord
    /\ Sent(task[k]) /\ PutOnce(o)
  BY DEF PlaceInv, Typed, Task, AllSent
<1>1. Begins(k)
  BY DEF Command, CancelAll, RejectEarly, SubmitUndescribed, Submit, Cancel, Modify
<1>2. /\ transport' = transport /\ book' = book /\ (NoneLate(o) <=> NoneLate(o)')
      /\ task[k].at = "idle" /\ task[k].reply = "none"
  BY <1>1 DEF Begins, broker, NoneLate, Typed, Task, Consistent, Sent, Waiting
<1>3. \A j \in Tasks : j # k => task'[j] = task[j]
  BY OthersKeep
<1>4. CASE Submit(k, o)
  <2>1. Unplaced(o) /\ engine'[o] = "submitted" /\ task'[k].reply = "none"
    BY <1>2, <1>4 DEF Submit, Tells, PutOnce, Unborn, Told, TaskRecord
  <2>2. \A j \in Tasks : Puts(j, o)' => j = k
    BY <1>3, <2>1 DEF Puts, Unplaced
  <2>3. book'[o] = "none" /\ NoneLate(o)'
    BY <1>2, <2>1 DEF Unplaced
  <2>4. QED
    BY <2>1, <2>2, <2>3 DEF PutOnce, Unborn
<1>5. CASE ~Submit(k, o)
  <2>1. \A j \in Tasks : Puts(j, o)' => Puts(j, o) /\ task'[j].reply = task[j].reply
    <3>1. ASSUME NEW p \in Orders, Submit(k, p), p # o
          PROVE  task'[k].o # o
      BY <3>1 DEF Submit, TaskRecord
    <3>2. ~Puts(k, o)'
      BY <1>5, <3>1, CommandPuts DEF Puts
    <3>3. QED
      BY <1>3, <3>2 DEF Puts
  <2>2. Unborn(o)' => Unborn(o) \/ Unplaced(o)'
    <3>1. ASSUME RejectEarly(k, o)
          PROVE  Unplaced(o)'
      <4>1. Unplaced(o)
        BY <3>1 DEF RejectEarly, PutOnce, Unborn
      <4>2. QED
        BY <1>2, <2>1, <4>1 DEF Unplaced
    <3>2. ASSUME ~RejectEarly(k, o)
          PROVE  Unborn(o)' => Unborn(o)
      <4>1. \/ UNCHANGED told
            \/ \E p \in Orders \ {o}, state \in {"rejected", "submitted"} : Tells(p, state)
        BY <1>5, <3>2
           DEF Command, CancelAll, RejectEarly, SubmitUndescribed, Submit, Cancel, Modify
      <4>2. QED
        BY <4>1 DEF Tells, told, Told, Unborn
    <3>3. QED
      BY <3>1, <3>2
  <2>3. QED
    BY <1>2, <2>1, <2>2, PutsNothing
<1>6. QED
  BY <1>4, <1>5

LEMMA AnswerPlaces ==
    ASSUME PlaceInv, NEW k \in Tasks, Answer(k), NEW o \in Orders
    PROVE  PutOnce(o)'
<1> /\ Typed /\ Books /\ task \in [Tasks -> Task] /\ task[k] \in TaskRecord
    /\ Sent(task[k]) /\ PutOnce(o)
  BY DEF PlaceInv, Typed, Task, AllSent
<1>1. /\ transport' = transport /\ UNCHANGED told /\ (NoneLate(o) => NoneLate(o)')
      /\ task[k].at \in Waiting /\ task[k].reply = "none"
      /\ Unborn(o)' <=> Unborn(o)
  BY DEF Answer, told, NoneLate, Unborn
<1>2. /\ \A j \in Tasks : j # k => task'[j] = task[j]
      /\ task'[k].at = task[k].at /\ task'[k].o = task[k].o
  BY OthersKeep DEF Answer, TaskRecord
<1>3. PICK code \in {"done", "placed", "refused"} :
         /\ Perform(task[k].req, code)
         /\ task'[k].reply \in {Answered(task[k].req, code)} \cup NoAnswer
  BY DEF Answer, TaskRecord
<1>4. task[k].req \in Request
  BY <1>1 DEF Typed, Task, Consistent
<1>5. CASE Puts(k, o)
  <2>1. /\ ~Unborn(o)' /\ NoneLate(o)'
        /\ \A j \in Tasks : Puts(j, o)' => j = k
    BY <1>1, <1>2, <1>5 DEF PutOnce, Unplaced, Puts, NoAnswer
  <2>2. ASSUME Untaken(k)'
        PROVE  book'[o] = "none"
    <3>1. code = "refused"
      BY <1>1, <1>3, <2>2 DEF Untaken, Answered, NoAnswer
    <3>2. book[o] = "none"
      BY <1>1, <1>5 DEF PutOnce, Untaken
    <3>3. QED
      BY <1>3, <1>4, <3>1, <3>2, RefusedPuts
  <2>3. QED
    BY <2>1, <2>2 DEF PutOnce
<1>6. CASE ~Puts(k, o)
  <2>1. ~(task[k].req.verb = "place" /\ task[k].req.o = o)
    BY <1>1, <1>6 DEF Puts, Sent, Waiting
  <2>2. book[o] = "none" => book'[o] = "none"
    BY <1>3, <1>4, <2>1, PerformPuts
  <2>3. \A j \in Tasks : Puts(j, o)' => Puts(j, o) /\ task'[j].reply = task[j].reply
    BY <1>2, <1>6 DEF Puts
  <2>4. QED
    BY <1>1, <2>2, <2>3, PutsNothing
<1>7. QED
  BY <1>5, <1>6

LEMMA TimeOutPlaces ==
    ASSUME PlaceInv, NEW k \in Tasks, TimeOut(k), NEW o \in Orders
    PROVE  PutOnce(o)'
<1> /\ Typed /\ task \in [Tasks -> Task] /\ task[k] \in TaskRecord
    /\ Sent(task[k]) /\ PutOnce(o)
  BY DEF PlaceInv, Typed, Task, AllSent
<1>1. /\ transport' = transport /\ (Unborn(o)' <=> Unborn(o)) /\ book' = book
      /\ task[k].at \in Waiting /\ late' = late \cup {task[k].req}
  BY DEF TimeOut, told, broker, Unborn
<1>2. /\ \A j \in Tasks : j # k => task'[j] = task[j]
      /\ task'[k].at = task[k].at /\ task'[k].o = task[k].o
      /\ task'[k].reply \in NoAnswer
  BY OthersKeep DEF TimeOut, TaskRecord
<1>3. CASE Puts(k, o)
  <2>1. /\ ~Unborn(o)' /\ ~Untaken(k)'
        /\ \A j \in Tasks : Puts(j, o)' => j = k
    BY <1>1, <1>2, <1>3 DEF PutOnce, Unplaced, Puts, Untaken, NoAnswer
  <2>2. QED
    BY <1>2, <2>1 DEF PutOnce
<1>4. CASE ~Puts(k, o)
  <2>1. ~(task[k].req.verb = "place" /\ task[k].req.o = o)
    BY <1>1, <1>4 DEF Puts, Sent, Waiting
  <2>2. NoneLate(o) => NoneLate(o)'
    BY <1>1, <2>1 DEF NoneLate
  <2>3. \A j \in Tasks : Puts(j, o)' => Puts(j, o) /\ task'[j].reply = task[j].reply
    BY <1>2, <1>4 DEF Puts
  <2>4. QED
    BY <1>1, <2>2, <2>3, PutsNothing
<1>5. QED
  BY <1>3, <1>4

LEMMA LatePlaces ==
    ASSUME PlaceInv, LateArrives, NEW o \in Orders
    PROVE  PutOnce(o)'
<1> Typed /\ Books /\ PutOnce(o)
  BY DEF PlaceInv, Typed
<1>1. PICK r \in late : /\ \E code \in {"done", "placed", "refused"} : Perform(r, code)
                        /\ late' = late \ {r}
  BY DEF LateArrives
<1>2. /\ transport' = transport /\ (Unborn(o)' <=> Unborn(o)) /\ task' = task
      /\ r \in Request /\ (NoneLate(o) => NoneLate(o)')
  BY <1>1 DEF LateArrives, told, Books, NoneLate, Unborn
<1>3. \A j \in Tasks : Puts(j, o)' <=> Puts(j, o)
  BY <1>2 DEF Puts
<1>4. CASE r.verb = "place" /\ r.o = o
  <2>1. ~NoneLate(o)
    BY <1>1, <1>4 DEF NoneLate
  <2>2. /\ ~Unborn(o)'
        /\ \A j \in Tasks : Puts(j, o) => task[j].reply \in NoAnswer
    BY <1>2, <2>1 DEF PutOnce, Unplaced
  <2>3. QED
    BY <1>2, <1>3, <2>2 DEF PutOnce, Untaken, NoAnswer
<1>5. CASE ~(r.verb = "place" /\ r.o = o)
  <2>1. book[o] = "none" => book'[o] = "none"
    BY <1>1, <1>2, <1>5, PerformPuts
  <2>2. QED
    BY <1>2, <1>3, <2>1, PutsNothing
<1>6. QED
  BY <1>4, <1>5

LEMMA PlaceInvStep == PlaceInv /\ [Next]_vars => PlaceInv'
<1> SUFFICES ASSUME PlaceInv, [Next]_vars
             PROVE  PlaceInv'
  OBVIOUS
<1>1. Typed' /\ AllSent'
  BY TypedStep, SentStep DEF PlaceInv
<1>2. ASSUME NEW o \in Orders
      PROVE  PutOnce(o)'
  <2>1. ASSUME NEW p \in Orders, Market(p)
        PROVE  PutOnce(o)'
    <3>1. PutOnce(o) /\ (book[o] = "none" => book'[o] = "none")
      BY <2>1 DEF Market, PlaceInv, Typed, Books
    <3>2. /\ transport' = transport /\ task' = task /\ late' = late
          /\ Unborn(o)' => Unborn(o)
      BY <2>1 DEF Market, told, Unborn
    <3>3. QED
      BY <3>1, <3>2, PutsNothing DEF NoneLate, Puts
  <2>2. ASSUME NEW p \in Orders, Reconcile(p)
        PROVE  PutOnce(o)'
    <3>1. PutOnce(o) /\ (Unborn(o)' => Unborn(o))
      BY <2>2 DEF Reconcile, TellsFill, PlaceInv, Typed, Told, Unborn
    <3>2. transport' = transport /\ book' = book /\ task' = task /\ late' = late
      BY <2>2 DEF Reconcile, Continues, Keeps, broker
    <3>3. QED
      BY <3>1, <3>2, PutsNothing DEF NoneLate, Puts
  <2>3. CASE UNCHANGED vars
    <3>1. /\ transport' = transport /\ book' = book /\ task' = task /\ late' = late
          /\ (Unborn(o)' => Unborn(o)) /\ PutOnce(o)
      BY <2>3 DEF vars, broker, told, PlaceInv, Unborn
    <3>2. QED
      BY <3>1, PutsNothing DEF NoneLate, Puts
  <2>4. QED
    BY <2>1, <2>2, <2>3, StepPlaces, CommandPlaces, AnswerPlaces, TimeOutPlaces, LatePlaces
       DEF Next
<1>3. QED
  BY <1>1, <1>2 DEF PlaceInv

(* An order the engine believes rejected is not at the broker, unless it   *)
(* was rejected on an answer that did not say, or without a ticket (the    *)
(* _reject of _submit_order).                                              *)
THEOREM RejectedNeverPlaced == Spec => []RejectedIsNotPlaced
<1>1. PlaceInv => RejectedIsNotPlaced
  BY DEF PlaceInv, PutOnce, Unborn, Unplaced, RejectedIsNotPlaced
<1>2. QED
  BY InitPlaceInv, PlaceInvStep, <1>1, PTL DEF Spec
=============================================================================
