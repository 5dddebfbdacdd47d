---------------------------- MODULE Desk_proofs ----------------------------
(***************************************************************************)
(* For any number of calls, tickets and steps: what a tool was told was    *)
(* done was done, rows name orders that stood, and where the trailing job  *)
(* may loosen a stop.  Three things are kept.  Of a call (CallShape, CallHeld): how *)
(* much it did by where it is, and that its row exists where it writes to  *)
(* one.  Of the book: an order that was open is open or gone for good.  Of *)
(* a scan (JobOK): what it has left is as it saw it, except for what is    *)
(* noted as moved unseen, so the steps it holds still tighten.             *)
(***************************************************************************)
EXTENDS Desk, TLAPS, FiniteSetTheorems, WellFoundedInduction

Orders == [is : {"unused", "resting", "open", "gone"}, side : {"BUY", "SELL"},
           sl : Nat, tp : Nat]
ToolNames == {"market", "pending", "modify", "modify_row", "modify_order", "close",
              "close_all", "cancel"}
Calls == [tool : ToolNames \cup {"none"}, ticket : {0} \cup Tickets,
          at : {"new", "read", "send", "list", "each", "row", "note", "done"},
          side : {"BUY", "SELL"}, sl : Nat, tp : Nat \cup {Keep}, seen : Nat,
          todo : SUBSET Tickets, did : SUBSET Tickets, count : Nat,
          told : {"nothing", "ok", "refused", "unreached"}]
Seen == SUBSET (1..TopStep)
Snaps == UNION {[S -> Seen] : S \in SUBSET Tickets}
Jobs == [at : {"idle", "scan", "send", "note"}, snap : Snaps, k : 1..TopStep + 1,
         tp : Nat, unseen : SUBSET Tickets]

Stood(b, t) == b[t].is \in {"open", "gone"}

BookOK ==
    /\ book \in [Tickets -> Orders]
    /\ rows \subseteq Tickets /\ notes \subseteq rows
    /\ \A t \in rows : Stood(book, t)

CountIsDone(q) == q.count = Cardinality(q.did)

(* What a call has done by the place it is at. *)
CallShape(q) ==
    /\ q \in Calls
    /\ q.at = "new" => q = NotCalled
    /\ q.at \in {"read", "send", "list"} => q.did = {} /\ q.count = 0
    /\ q.at \in {"read", "send"} =>
         /\ q.tool \in ToolNames \ {"close_all"}
         /\ q.tool \notin {"market", "pending"} => q.ticket \in Tickets
    /\ q.at = "read" => q.tool \in {"modify", "modify_row", "modify_order"}
    /\ q.at \in {"list", "each"} => q.tool = "close_all"
    /\ q.at = "each" => CountIsDone(q) /\ q.did \cap q.todo = {}
    /\ q.at = "row" => q.tool = "market"
    /\ q.at = "note" => q.tool \in {"market", "modify_row"}
    /\ q.at \in {"row", "note"} => q.ticket \in Tickets /\ q.did = {q.ticket}
    /\ q.told = "ok" => q.at = "done"
    /\ q.at = "done" => q.told # "nothing"
    /\ q.told = "ok" => IF q.tool = "close_all" THEN CountIsDone(q) ELSE q.did # {}

(* What it may rely on of the book b, the rows R and the records N.        *)
CallHeld(q, b, R, N) ==
    /\ q.at \in {"read", "send"} /\ q.tool = "modify_row" => q.ticket \in R
    /\ q.at \in {"row", "note"} => Stood(b, q.ticket)
    /\ q.at = "note" => q.ticket \in R
    /\ q.told = "ok" /\ q.tool = "market" => q.did \subseteq N

CallsOK ==
    /\ req \in [Requests -> Calls]
    /\ \A r \in Requests : CallShape(req[r]) /\ CallHeld(req[r], book, rows, notes)

(* The step would tighten the stop the ticket has now. *)
Tighter(b, t, k) ==
    Better(b[t].side, GetPriceAtPnl(b[t].side, TRAILING_STOP_STEPS[k]), b[t].sl)

At(j) == Least(DOMAIN j.snap)

JobOK(j, b, R) ==
    /\ j \in Jobs
    /\ j.unseen \subseteq DOMAIN j.snap
    /\ \A t \in DOMAIN j.snap : Stood(b, t)
    /\ \A t \in DOMAIN j.snap \ j.unseen :
         b[t].is = "open" /\ ~(j.at = "note" /\ t = At(j)) =>
            \A k \in j.snap[t] : Tighter(b, t, k)
    /\ j.at \in {"send", "note"} =>
         DOMAIN j.snap # {} /\ j.k \in 1..TopStep /\ At(j) \in R
    /\ j.at = "send" =>
         /\ j.k \in j.snap[At(j)]
         /\ b[At(j)].is = "open" /\ At(j) \notin j.unseen => j.tp = b[At(j)].tp

IInv == BookOK /\ CallsOK /\ JobOK(job, book, rows)
-----------------------------------------------------------------------------
LEMMA Numbers ==
    /\ Tickets \subseteq Nat \ {0} /\ IsFiniteSet(Tickets)
    /\ TopStep \in Nat \ {0} /\ 1 \in 1..TopStep + 1 /\ 1 \in Tickets
  BY DeskAssumption

LEMMA LeastIsIn ==
    ASSUME NEW S \in SUBSET Nat, S # {}
    PROVE  Least(S) \in S
<1>1. PICK x \in S : \A y \in S : <<y, x>> \notin OpToRel(<, Nat)
  BY WFMin, NatLessThanWellFounded
<1>2. \A y \in S : x <= y
  <2> SUFFICES ASSUME NEW y \in S, y < x
               PROVE  FALSE
    BY SMT
  <2>1. <<y, x>> \in OpToRel(<, Nat)
    BY DEF OpToRel
  <2>2. QED
    BY <2>1, <1>1
<1>3. QED
  BY <1>2 DEF Least

LEMMA LeastTicket ==
    ASSUME NEW S \in SUBSET Tickets, S # {}
    PROVE  Least(S) \in S
  BY LeastIsIn, Numbers

LEMMA SnapShape ==
    /\ \A s \in Snaps : DOMAIN s \in SUBSET Tickets /\ s \in [DOMAIN s -> Seen]
    /\ \A S \in SUBSET Tickets : [S -> Seen] \subseteq Snaps
  BY DEF Snaps

LEMMA FiniteDone == \A S \in SUBSET Tickets : IsFiniteSet(S)
  BY Numbers, FS_Subset

LEMMA IdleIsOK == ASSUME NEW b, NEW R PROVE JobOK(IdleJob, b, R)
<1>1. IdleJob.snap \in Snaps /\ DOMAIN IdleJob.snap = {}
  <2>1. <<>> \in [{} -> Seen]
    OBVIOUS
  <2>2. QED
    BY <2>1, SnapShape DEF IdleJob
<1>2. IdleJob \in Jobs
  BY <1>1, Numbers DEF IdleJob, Jobs, None
<1>3. QED
  BY <1>1, <1>2 DEF IdleJob, JobOK

LEMMA InitIInv == Init => IInv
<1> SUFFICES ASSUME Init
             PROVE  IInv
  OBVIOUS
<1>1. BookOK
  <2>1. PICK held \in Held :
           /\ book = [t \in Tickets |->
                        IF t = 1 THEN Position(held.side, held.sl, None) ELSE Unused]
           /\ rows = (IF held.recorded THEN {1} ELSE {}) /\ notes = rows
    BY DEF Init
  <2>2. held.side \in {"BUY", "SELL"} /\ held.sl \in Nat
    BY DeskAssumption
  <2>3. Position(held.side, held.sl, None) \in Orders /\ Unused \in Orders
    BY <2>2 DEF Orders, Position, Unused, None
  <2>4. book \in [Tickets -> Orders] /\ book[1] = Position(held.side, held.sl, None)
    BY <2>1, <2>3, Numbers
  <2>5. rows \subseteq {1} /\ notes = rows
    BY <2>1
  <2>6. QED
    BY <2>4, <2>5, Numbers DEF BookOK, Stood, Position
<1>2. CallsOK
  <2>1. NotCalled \in Calls
    BY DEF NotCalled, Calls, None, Keep
  <2>2. CallShape(NotCalled)
    BY <2>1 DEF CallShape, NotCalled
  <2>3. CallHeld(NotCalled, book, rows, notes)
    BY DEF CallHeld, NotCalled
  <2>4. QED
    BY <2>1, <2>2, <2>3 DEF Init, CallsOK
<1>3. JobOK(job, book, rows)
  BY IdleIsOK DEF Init
<1>4. QED
  BY <1>1, <1>2, <1>3 DEF IInv
-----------------------------------------------------------------------------
(* What an order that stood may become: gone, or, if it is in S, one with  *)
(* another stop or target.                                                 *)
BookMoves(S) ==
    \A t \in Tickets : Stood(book, t) =>
       /\ Stood(book', t)
       /\ book'[t].is = "open" =>
            /\ book[t].is = "open" /\ book'[t].side = book[t].side
            /\ t \notin S => book'[t] = book[t]

LEMMA NothingMoves ==
    ASSUME BookOK, UNCHANGED book
    PROVE  BookMoves({})
  BY DEF BookMoves, Stood

(* One order o is put at the ticket t. *)
LEMMA OneMoves ==
    ASSUME BookOK, NEW t \in Tickets, NEW o \in Orders,
           book' = [book EXCEPT ![t] = o],
           Stood(book, t) => \/ o.is = "gone"
                             \/ o.is = "open" /\ book[t].is = "open" /\ o.side = book[t].side
    PROVE  /\ book' \in [Tickets -> Orders]
           /\ BookMoves({t})
           /\ o.is = "gone" \/ ~Stood(book, t) => BookMoves({})
<1>1. book' \in [Tickets -> Orders] /\ \A u \in Tickets : u # t => book'[u] = book[u]
  BY DEF BookOK
<1>2. book'[t] = o
  BY DEF BookOK
<1>3. QED
  BY <1>1, <1>2 DEF BookMoves, Stood, Orders

LEMMA BookLater ==
    ASSUME BookOK, NEW S, BookMoves(S), book' \in [Tickets -> Orders],
           UNCHANGED <<rows, notes>>
    PROVE  BookOK'
  BY DEF BookOK, BookMoves, Stood

LEMMA GoneIsOrder == Gone \in Orders /\ Gone.is = "gone"
  BY DEF Gone, Unused, Orders, None

LEMMA HeldLater ==
    ASSUME NEW q, CallShape(q), CallHeld(q, book, rows, notes),
           NEW S, BookMoves(S), rows \subseteq rows', notes \subseteq notes'
    PROVE  CallHeld(q, book', rows', notes')
<1>1. q.at \in {"row", "note"} => q.ticket \in Tickets
  BY DEF CallShape
<1>2. QED
  BY <1>1 DEF CallHeld, BookMoves

(* One call changes, the others only see the book change. *)
LEMMA CallsLater ==
    ASSUME CallsOK, NEW S, BookMoves(S), rows \subseteq rows', notes \subseteq notes',
           NEW r \in Requests, NEW x, req' = [req EXCEPT ![r] = x],
           CallShape(x), CallHeld(x, book', rows', notes')
    PROVE  CallsOK'
<1>1. x \in Calls
  BY DEF CallShape
<1>2. req' \in [Requests -> Calls]
  BY <1>1 DEF CallsOK
<1>3. \A u \in Requests : CallShape(req'[u]) /\ CallHeld(req'[u], book', rows', notes')
  <2> SUFFICES ASSUME NEW u \in Requests
               PROVE  CallShape(req'[u]) /\ CallHeld(req'[u], book', rows', notes')
    OBVIOUS
  <2>1. CASE u = r
    BY <2>1, <1>1 DEF CallsOK
  <2>2. CASE u # r
    <3>1. req'[u] = req[u]
      BY <2>2 DEF CallsOK
    <3>2. CallShape(req[u]) /\ CallHeld(req[u], book, rows, notes)
      BY DEF CallsOK
    <3>3. CallHeld(req[u], book', rows', notes')
      BY <3>2, HeldLater
    <3>4. QED
      BY <3>1, <3>2, <3>3
  <2>3. QED
    BY <2>1, <2>2
<1>4. QED
  BY <1>2, <1>3 DEF CallsOK

LEMMA CallsStill ==
    ASSUME CallsOK, NEW S, BookMoves(S), rows \subseteq rows', notes \subseteq notes',
           UNCHANGED req
    PROVE  CallsOK'
<1>1. \A u \in Requests : CallHeld(req[u], book', rows', notes')
  BY HeldLater DEF CallsOK
<1>2. QED
  BY <1>1 DEF CallsOK

(* A scan goes on while others change the orders it has noted as theirs.   *)
LEMMA JobLater ==
    ASSUME BookOK, JobOK(job, book, rows), NEW S, BookMoves(S), rows \subseteq rows',
           job' \in Jobs, job'.unseen \subseteq DOMAIN job.snap,
           job'.at = job.at, job'.snap = job.snap, job'.k = job.k, job'.tp = job.tp,
           job.unseen \cup (S \cap DOMAIN job.snap) \subseteq job'.unseen
    PROVE  JobOK(job, book, rows)'
<1>1. \A t \in DOMAIN job.snap : t \in Tickets
  BY SnapShape DEF JobOK, Jobs
<1>2. \A t \in DOMAIN job.snap : Stood(book', t)
  BY <1>1 DEF JobOK, BookMoves
<1>3. \A t \in DOMAIN job.snap \ job'.unseen : book'[t].is = "open" =>
         book[t].is = "open" /\ book'[t] = book[t]
  BY <1>1 DEF JobOK, BookMoves
<1>4. \A t \in DOMAIN job.snap \ job'.unseen :
         book'[t].is = "open" /\ ~(job'.at = "note" /\ t = At(job')) =>
            \A k \in job'.snap[t] : Tighter(book', t, k)
  BY <1>3 DEF JobOK, At, Tighter
<1>5. job'.at \in {"send", "note"} =>
         DOMAIN job'.snap # {} /\ job'.k \in 1..TopStep /\ At(job') \in rows'
  BY DEF JobOK, At
<1>6. job'.at = "send" =>
         /\ job'.k \in job'.snap[At(job')]
         /\ book'[At(job')].is = "open" /\ At(job') \notin job'.unseen =>
              job'.tp = book'[At(job')].tp
  <2> SUFFICES ASSUME job'.at = "send"
               PROVE  /\ job'.k \in job'.snap[At(job')]
                      /\ book'[At(job')].is = "open" /\ At(job') \notin job'.unseen =>
                           job'.tp = book'[At(job')].tp
    OBVIOUS
  <2>1. At(job') = At(job) /\ At(job) \in DOMAIN job.snap
    BY LeastTicket, SnapShape DEF At, JobOK, Jobs
  <2>2. book'[At(job)].is = "open" /\ At(job) \notin job'.unseen =>
           book[At(job)].is = "open" /\ book'[At(job)] = book[At(job)] /\ At(job) \notin job.unseen
    BY <1>3, <2>1
  <2>3. QED
    BY <2>1, <2>2 DEF JobOK
<1>7. QED
  BY <1>2, <1>4, <1>5, <1>6 DEF JobOK

LEMMA JobStill ==
    ASSUME BookOK, JobOK(job, book, rows), BookMoves({}), rows \subseteq rows', UNCHANGED job
    PROVE  JobOK(job, book, rows)'
<1>1. job' \in Jobs /\ job'.unseen \subseteq DOMAIN job.snap
  BY DEF JobOK
<1>2. QED
  BY <1>1, JobLater
-----------------------------------------------------------------------------
(* One call moves to x; book, rows and job are as they were.               *)
LEMMA OnlyCalls ==
    ASSUME IInv, UNCHANGED <<book, rows, notes, job>>,
           NEW r \in Requests, NEW x, req' = [req EXCEPT ![r] = x],
           CallShape(x), CallHeld(x, book, rows, notes)
    PROVE  IInv'
<1>1. BookMoves({})
  BY NothingMoves DEF IInv
<1>2. CallsOK'
  BY <1>1, CallsLater DEF IInv
<1>3. JobOK(job, book, rows)'
  BY <1>1, JobStill DEF IInv
<1>4. BookOK'
  BY DEF IInv, BookOK
<1>5. QED
  BY <1>2, <1>3, <1>4 DEF IInv

LEMMA NotCalledFields ==
    /\ NotCalled \in Calls /\ NotCalled.did = {} /\ NotCalled.count = 0
    /\ NotCalled.told = "nothing" /\ NotCalled.at = "new" /\ NotCalled.tool = "none"
  BY DEF NotCalled, Calls, None, Keep

(* A call at its first place, with the arguments of its tool. *)
LEMMA FirstIsOK ==
    ASSUME NEW x \in Calls, NEW tool \in ToolNames, NEW b, NEW R, NEW N,
           x.tool = tool, x.did = {}, x.count = 0, x.told = "nothing",
           \/ x.at = "list" /\ tool = "close_all"
           \/ /\ x.at = "read" /\ tool \in {"modify", "modify_row", "modify_order"}
              /\ x.ticket \in Tickets
           \/ /\ x.at = "send" /\ tool \in {"market", "pending", "close", "cancel"}
              /\ tool \in {"close", "cancel"} => x.ticket \in Tickets,
           tool = "modify_row" => x.ticket \in R
    PROVE  CallShape(x) /\ CallHeld(x, b, R, N)
<1>1. CallShape(x)
  BY DEF CallShape, ToolNames
<1>2. CallHeld(x, b, R, N)
  BY DEF CallHeld
<1>3. QED
  BY <1>1, <1>2

LEMMA AgentCalls ==
    ASSUME IInv, NEW r \in Requests,
           \/ PlaceMarketOrder(r) \/ PlacePendingOrder(r) \/ ModifyPosition(r)
           \/ ModifyPendingOrder(r) \/ ModifySlTp(r) \/ ClosePosition(r)
           \/ CloseAllPositions(r) \/ CancelPendingOrder(r)
    PROVE  IInv'
<1> USE NotCalledFields, DeskAssumption DEF Call
<1>1. CASE PlaceMarketOrder(r)
  <2>1. PICK side \in Sides, sl \in AskedStops :
           Call(r, "market", [NotCalled EXCEPT !.tool = "market", !.at = "send",
                                               !.side = side, !.sl = sl])
    BY <1>1 DEF PlaceMarketOrder
  <2> DEFINE x == [NotCalled EXCEPT !.tool = "market", !.at = "send", !.side = side, !.sl = sl]
  <2>2. x \in Calls /\ x.tool = "market" /\ x.did = {} /\ x.count = 0
           /\ x.told = "nothing" /\ x.at = "send"
    BY DEF Calls, ToolNames
  <2>3. CallShape(x) /\ CallHeld(x, book, rows, notes)
    BY <2>2, FirstIsOK DEF ToolNames
  <2>4. QED
    BY <2>1, <2>3, OnlyCalls
<1>2. CASE PlacePendingOrder(r)
  <2>1. PICK side \in Sides, sl \in AskedStops :
           Call(r, "pending", [NotCalled EXCEPT !.tool = "pending", !.at = "send",
                                                !.side = side, !.sl = sl])
    BY <1>2 DEF PlacePendingOrder
  <2> DEFINE x == [NotCalled EXCEPT !.tool = "pending", !.at = "send", !.side = side, !.sl = sl]
  <2>2. x \in Calls /\ x.tool = "pending" /\ x.did = {} /\ x.count = 0
           /\ x.told = "nothing" /\ x.at = "send"
    BY DEF Calls, ToolNames
  <2>3. CallShape(x) /\ CallHeld(x, book, rows, notes)
    BY <2>2, FirstIsOK DEF ToolNames
  <2>4. QED
    BY <2>1, <2>3, OnlyCalls
<1>3. CASE ModifyPosition(r)
  <2>1. PICK t \in Tickets \ Free, sl \in AskedStops, tp \in AskedTargets \cup {Keep} :
           Call(r, "modify", [NotCalled EXCEPT !.tool = "modify", !.at = "read",
                                               !.ticket = t, !.sl = sl, !.tp = tp])
    BY <1>3 DEF ModifyPosition
  <2> DEFINE x == [NotCalled EXCEPT !.tool = "modify", !.at = "read",
                                    !.ticket = t, !.sl = sl, !.tp = tp]
  <2>2. x \in Calls /\ x.tool = "modify" /\ x.did = {} /\ x.count = 0
           /\ x.told = "nothing" /\ x.at = "read" /\ x.ticket = t
    BY DEF Calls, ToolNames
  <2>3. CallShape(x) /\ CallHeld(x, book, rows, notes)
    BY <2>2, FirstIsOK DEF ToolNames
  <2>4. QED
    BY <2>1, <2>3, OnlyCalls
<1>4. CASE ModifyPendingOrder(r)
  <2>1. PICK t \in Tickets \ Free, sl \in AskedStops :
           Call(r, "modify_order", [NotCalled EXCEPT !.tool = "modify_order", !.at = "read",
                                                     !.ticket = t, !.sl = sl])
    BY <1>4 DEF ModifyPendingOrder
  <2> DEFINE x == [NotCalled EXCEPT !.tool = "modify_order", !.at = "read",
                                    !.ticket = t, !.sl = sl]
  <2>2. x \in Calls /\ x.tool = "modify_order" /\ x.did = {} /\ x.count = 0
           /\ x.told = "nothing" /\ x.at = "read" /\ x.ticket = t
    BY DEF Calls, ToolNames
  <2>3. CallShape(x) /\ CallHeld(x, book, rows, notes)
    BY <2>2, FirstIsOK DEF ToolNames
  <2>4. QED
    BY <2>1, <2>3, OnlyCalls
<1>5. CASE ModifySlTp(r)
  <2>1. PICK t \in rows, sl \in AskedStops :
           Call(r, "modify_row", [NotCalled EXCEPT !.tool = "modify_row", !.at = "read",
                                                   !.ticket = t, !.sl = sl])
    BY <1>5 DEF ModifySlTp
  <2> DEFINE x == [NotCalled EXCEPT !.tool = "modify_row", !.at = "read",
                                    !.ticket = t, !.sl = sl]
  <2>2. t \in Tickets
    BY DEF IInv, BookOK
  <2>3. x \in Calls /\ x.tool = "modify_row" /\ x.did = {} /\ x.count = 0
           /\ x.told = "nothing" /\ x.at = "read" /\ x.ticket = t
    BY <2>2 DEF Calls, ToolNames
  <2>4. CallShape(x) /\ CallHeld(x, book, rows, notes)
    BY <2>2, <2>3, FirstIsOK DEF ToolNames
  <2>5. QED
    BY <2>1, <2>4, OnlyCalls
<1>6. CASE ClosePosition(r)
  <2>1. PICK t \in Tickets \ Free :
           Call(r, "close", [NotCalled EXCEPT !.tool = "close", !.at = "send", !.ticket = t])
    BY <1>6 DEF ClosePosition
  <2> DEFINE x == [NotCalled EXCEPT !.tool = "close", !.at = "send", !.ticket = t]
  <2>2. x \in Calls /\ x.tool = "close" /\ x.did = {} /\ x.count = 0
           /\ x.told = "nothing" /\ x.at = "send" /\ x.ticket = t
    BY DEF Calls, ToolNames
  <2>3. CallShape(x) /\ CallHeld(x, book, rows, notes)
    BY <2>2, FirstIsOK DEF ToolNames
  <2>4. QED
    BY <2>1, <2>3, OnlyCalls
<1>7. CASE CloseAllPositions(r)
  <2> DEFINE x == [NotCalled EXCEPT !.tool = "close_all", !.at = "list"]
  <2>1. x \in Calls /\ x.tool = "close_all" /\ x.did = {} /\ x.count = 0
           /\ x.told = "nothing" /\ x.at = "list"
    BY DEF Calls, ToolNames
  <2>2. CallShape(x) /\ CallHeld(x, book, rows, notes)
    BY <2>1, FirstIsOK DEF ToolNames
  <2>3. QED
    BY <1>7, <2>2, OnlyCalls DEF CloseAllPositions
<1>8. CASE CancelPendingOrder(r)
  <2>1. PICK t \in Tickets \ Free :
           Call(r, "cancel", [NotCalled EXCEPT !.tool = "cancel", !.at = "send", !.ticket = t])
    BY <1>8 DEF CancelPendingOrder
  <2> DEFINE x == [NotCalled EXCEPT !.tool = "cancel", !.at = "send", !.ticket = t]
  <2>2. x \in Calls /\ x.tool = "cancel" /\ x.did = {} /\ x.count = 0
           /\ x.told = "nothing" /\ x.at = "send" /\ x.ticket = t
    BY DEF Calls, ToolNames
  <2>3. CallShape(x) /\ CallHeld(x, book, rows, notes)
    BY <2>2, FirstIsOK DEF ToolNames
  <2>4. QED
    BY <2>1, <2>3, OnlyCalls
<1>9. QED
  BY <1>1, <1>2, <1>3, <1>4, <1>5, <1>6, <1>7, <1>8
-----------------------------------------------------------------------------
(* A call that ends keeps what it did; what it was told first stays.       *)
LEMMA AnsweredFields ==
    ASSUME NEW q, CallShape(q), NEW a \in {"ok", "refused", "unreached"}
    PROVE  LET x == Answered(q, a) IN
           /\ x \in Calls /\ x.tool = q.tool /\ x.at = "done"
           /\ x.did = q.did /\ x.count = q.count
           /\ x.told = IF q.told = "nothing" THEN a ELSE q.told
<1> DEFINE v == Told(q, a)
<1>1. q \in Calls
  BY DEF CallShape
<1>2. /\ q.tool \in ToolNames \cup {"none"} /\ q.did \in SUBSET Tickets
      /\ q.count \in Nat /\ q.told \in {"nothing", "ok", "refused", "unreached"}
  BY <1>1 DEF Calls
<1>3. v = (IF q.told = "nothing" THEN a ELSE q.told) /\ v \in {"ok", "refused", "unreached"} \cup {q.told}
  BY DEF Told
<1> HIDE DEF v
<1>4. LET x == [NotCalled EXCEPT !.tool = q.tool, !.at = "done", !.did = q.did,
                                 !.count = q.count, !.told = v]
      IN  /\ x \in Calls /\ x.tool = q.tool /\ x.at = "done"
          /\ x.did = q.did /\ x.count = q.count /\ x.told = v
  BY <1>2, <1>3, NotCalledFields DEF Calls
<1>5. QED
  BY <1>3, <1>4 DEF Answered, v

LEMMA FailIsOK ==
    ASSUME NEW q, CallShape(q), q.at # "done", NEW a \in {"refused", "unreached"},
           NEW b, NEW R, NEW N
    PROVE  CallShape(Answered(q, a)) /\ CallHeld(Answered(q, a), b, R, N)
<1> DEFINE x == Answered(q, a)
<1>1. /\ x \in Calls /\ x.tool = q.tool /\ x.at = "done"
      /\ x.told = IF q.told = "nothing" THEN a ELSE q.told
  BY AnsweredFields
<1>2. q.told # "ok" /\ q.told \in {"nothing", "ok", "refused", "unreached"}
  BY DEF CallShape, Calls
<1> HIDE DEF x
<1>3. CallShape(x) /\ CallHeld(x, b, R, N)
  BY <1>1, <1>2 DEF CallShape, CallHeld
<1>4. QED
  BY <1>3 DEF x

LEMMA AcceptIsOK ==
    ASSUME NEW q, CallShape(q), q.at # "done", NEW b, NEW R, NEW N,
           IF q.tool = "close_all" THEN CountIsDone(q) ELSE q.did # {},
           q.tool = "market" => q.did \subseteq N
    PROVE  CallShape(Answered(q, "ok")) /\ CallHeld(Answered(q, "ok"), b, R, N)
<1> DEFINE x == Answered(q, "ok")
<1>1. /\ x \in Calls /\ x.tool = q.tool /\ x.at = "done" /\ x.did = q.did /\ x.count = q.count
      /\ x.told = IF q.told = "nothing" THEN "ok" ELSE q.told
  BY AnsweredFields
<1>2. q.told # "ok" /\ q.told \in {"nothing", "ok", "refused", "unreached"}
  BY DEF CallShape, Calls
<1> HIDE DEF x
<1>3. CallShape(x) /\ CallHeld(x, b, R, N)
  BY <1>1, <1>2 DEF CallShape, CallHeld, CountIsDone
<1>4. QED
  BY <1>3 DEF x

LEMMA Refusals == \A code : Refusal(code) \in {"refused", "unreached"}
  BY DEF Refusal

LEMMA OfCall ==
    ASSUME IInv, NEW r \in Requests
    PROVE  CallShape(req[r]) /\ CallHeld(req[r], book, rows, notes) /\ req[r] \in Calls
  BY DEF IInv, CallsOK

LEMMA FailStep ==
    ASSUME IInv, NEW r \in Requests, req[r].at # "done", NEW code, Fail(r, code),
           UNCHANGED <<book, rows, notes, job>>
    PROVE  IInv'
<1>1. Refusal(code) \in {"refused", "unreached"}
  BY Refusals
<1>2. LET x == Answered(req[r], Refusal(code))
      IN  CallShape(x) /\ CallHeld(x, book, rows, notes)
  BY <1>1, OfCall, FailIsOK
<1>3. QED
  BY <1>2, OnlyCalls DEF Fail

LEMMA GiveUpStep ==
    ASSUME IInv, NEW r \in Requests, GiveUp(r)
    PROVE  IInv'
<1> DEFINE q == req[r]
           x == [q EXCEPT !.told = "unreached"]
<1>1. CallShape(q) /\ CallHeld(q, book, rows, notes) /\ q \in Calls /\ q.at \notin {"new", "done"}
  BY OfCall DEF GiveUp, UnderWay
<1>2. /\ x \in Calls /\ x.told = "unreached" /\ x.tool = q.tool /\ x.at = q.at
      /\ x.did = q.did /\ x.count = q.count /\ x.ticket = q.ticket /\ x.todo = q.todo
  BY <1>1 DEF Calls
<1>3. req' = [req EXCEPT ![r] = x]
  <2>1. Refusal(NoCode) = "unreached"
    BY DEF Refusal
  <2>2. req[r] = q
    OBVIOUS
  <2>3. QED
    BY <2>1 DEF GiveUp
<1> HIDE DEF x
<1>4. CallShape(x) /\ CallHeld(x, book, rows, notes)
  <2> HIDE DEF q
  <2>1. QED
    BY <1>1, <1>2 DEF CallShape, CallHeld, CountIsDone
<1>5. QED
  BY <1>3, <1>4, OnlyCalls DEF GiveUp
-----------------------------------------------------------------------------
(* The routes. *)

LEMMA ReadTicketStep ==
    ASSUME IInv, NEW r \in Requests, ReadTicket(r)
    PROVE  IInv'
<1> DEFINE q == req[r]
<1>1. CallShape(q) /\ CallHeld(q, book, rows, notes) /\ q \in Calls /\ q.at = "read"
  BY OfCall DEF ReadTicket
<1>2. CASE book[q.ticket].is = Is(q)
  <2> DEFINE x == [q EXCEPT !.at = "send", !.seen = book[q.ticket].tp]
  <2>1. q.ticket \in Tickets
    BY <1>1 DEF CallShape
  <2>2. book[q.ticket].tp \in Nat
    BY <2>1 DEF IInv, BookOK, Orders
  <2>3. req' = [req EXCEPT ![r] = x]
    BY <1>2 DEF ReadTicket
  <2>4. /\ x \in Calls /\ x.at = "send" /\ x.told = q.told /\ x.tool = q.tool
        /\ x.did = q.did /\ x.count = q.count /\ x.ticket = q.ticket /\ x.todo = q.todo
    BY <1>1, <2>2 DEF Calls
  <2>5. CallShape(x) /\ CallHeld(x, book, rows, notes)
    <3> HIDE DEF x, q
    <3>1. QED
      BY <1>1, <2>4 DEF CallShape, CallHeld, ToolNames
  <2>6. QED
    BY <2>3, <2>5, OnlyCalls DEF ReadTicket
<1>3. CASE book[q.ticket].is # Is(q)
  <2>1. Fail(r, NoCode)
    BY <1>3 DEF ReadTicket
  <2>2. QED
    BY <1>1, <2>1, FailStep DEF ReadTicket
<1>4. QED
  BY <1>2, <1>3

LEMMA FailsStep ==
    ASSUME IInv, NEW r \in Requests, SendFails(r) \/ RowFails(r)
    PROVE  IInv'
  BY FailStep DEF SendFails, RowFails

(* A row or a record is written; the book is as it was.                    *)
LEMMA RowStep ==
    ASSUME IInv, UNCHANGED <<book, job>>, rows \subseteq rows', notes \subseteq notes',
           rows' \subseteq Tickets, notes' \subseteq rows', \A t \in rows' : Stood(book, t)
    PROVE  /\ BookOK' /\ JobOK(job, book, rows)' /\ BookMoves({})
           /\ \A r \in Requests : \A x : req' = [req EXCEPT ![r] = x] /\ CallShape(x)
                 /\ CallHeld(x, book', rows', notes') => CallsOK'
           /\ UNCHANGED req => CallsOK'
<1>1. BookMoves({})
  BY NothingMoves DEF IInv
<1>2. BookOK'
  BY DEF IInv, BookOK, Stood
<1>3. JobOK(job, book, rows)'
  BY <1>1, JobStill DEF IInv
<1>4. \A r \in Requests : \A x : req' = [req EXCEPT ![r] = x] /\ CallShape(x)
         /\ CallHeld(x, book', rows', notes') => CallsOK'
  BY <1>1, CallsLater DEF IInv
<1>5. UNCHANGED req => CallsOK'
  BY <1>1, CallsStill DEF IInv
<1>6. QED
  BY <1>1, <1>2, <1>3, <1>4, <1>5

LEMMA CreateTradeStep ==
    ASSUME IInv, NEW r \in Requests, CreateTrade(r)
    PROVE  IInv'
<1> DEFINE q == req[r]
           x == [q EXCEPT !.at = "note"]
<1>1. CallShape(q) /\ CallHeld(q, book, rows, notes) /\ q \in Calls /\ q.at = "row"
  BY OfCall DEF CreateTrade
<1>2. /\ x \in Calls /\ x.at = "note" /\ x.told = q.told /\ x.tool = q.tool
      /\ x.did = q.did /\ x.count = q.count /\ x.ticket = q.ticket /\ x.todo = q.todo
  BY <1>1 DEF Calls
<1>3. req' = [req EXCEPT ![r] = x] /\ rows' = rows \cup {q.ticket}
  BY DEF CreateTrade
<1> HIDE DEF x, q
<1>4. q.ticket \in Tickets /\ Stood(book, q.ticket)
  BY <1>1 DEF CallShape, CallHeld
<1>5. CallShape(x) /\ CallHeld(x, book', rows', notes')
  BY <1>1, <1>2, <1>3 DEF CallShape, CallHeld, CreateTrade
<1>6. /\ rows' \subseteq Tickets /\ notes' \subseteq rows'
      /\ \A t \in rows' : Stood(book, t)
  BY <1>3, <1>4 DEF IInv, BookOK, CreateTrade
<1>7. BookOK' /\ CallsOK' /\ JobOK(job, book, rows)'
  BY <1>3, <1>5, <1>6, RowStep DEF CreateTrade
<1>8. QED
  BY <1>7 DEF IInv

LEMMA MutateTradeStep ==
    ASSUME IInv, NEW r \in Requests, MutateTrade(r)
    PROVE  IInv'
<1> DEFINE q == req[r]
           x == Answered(q, "ok")
<1>1. CallShape(q) /\ CallHeld(q, book, rows, notes) /\ q.at = "note"
  BY OfCall DEF MutateTrade
<1>2. req' = [req EXCEPT ![r] = x] /\ notes' = notes \cup {q.ticket}
  BY DEF MutateTrade, Accept
<1>3. q.tool # "close_all" /\ q.did = {q.ticket} /\ q.ticket \in rows
  BY <1>1 DEF CallShape, CallHeld
<1>4. CallShape(x) /\ CallHeld(x, book', rows', notes')
  BY <1>1, <1>2, <1>3, AcceptIsOK
<1>5. /\ rows' \subseteq Tickets /\ notes' \subseteq rows'
      /\ \A t \in rows' : Stood(book, t)
  BY <1>2, <1>3 DEF IInv, BookOK, MutateTrade
<1>6. BookOK' /\ CallsOK' /\ JobOK(job, book, rows)'
  BY <1>2, <1>4, <1>5, RowStep DEF MutateTrade
<1>7. QED
  BY <1>6 DEF IInv

LEMMA ListPositionsStep ==
    ASSUME IInv, NEW r \in Requests, ListPositions(r)
    PROVE  IInv'
<1> DEFINE q == req[r]
           x == [q EXCEPT !.at = "each", !.todo = Open]
<1>1. CallShape(q) /\ CallHeld(q, book, rows, notes) /\ q \in Calls /\ q.at = "list"
  BY OfCall DEF ListPositions
<1>2. Open \in SUBSET Tickets
  BY DEF Open
<1>3. /\ x \in Calls /\ x.at = "each" /\ x.told = q.told /\ x.tool = q.tool
      /\ x.did = q.did /\ x.count = q.count /\ x.ticket = q.ticket
  BY <1>1, <1>2 DEF Calls
<1>4. req' = [req EXCEPT ![r] = x]
  BY DEF ListPositions
<1> HIDE DEF x, q
<1>5. CallShape(x)
  BY <1>1, <1>3, FS_EmptySet DEF CallShape, CountIsDone
<1>6. CallHeld(x, book, rows, notes)
  BY <1>1, <1>3 DEF CallShape, CallHeld
<1>7. QED
  BY <1>4, <1>5, <1>6, OnlyCalls DEF ListPositions

LEMMA CloseAllAnswersStep ==
    ASSUME IInv, NEW r \in Requests, CloseAllAnswers(r)
    PROVE  IInv'
<1> DEFINE q == req[r]
<1>1. CallShape(q) /\ CallHeld(q, book, rows, notes) /\ q.at = "each"
  BY OfCall DEF CloseAllAnswers
<1>2. q.tool = "close_all" /\ CountIsDone(q)
  BY <1>1 DEF CallShape
<1>3. CallShape(Answered(q, "ok")) /\ CallHeld(Answered(q, "ok"), book, rows, notes)
  BY <1>1, <1>2, AcceptIsOK
<1>4. QED
  BY <1>3, OnlyCalls DEF CloseAllAnswers, Accept

LEMMA CloseEachStep ==
    ASSUME IInv, NEW r \in Requests, CloseEach(r)
    PROVE  IInv'
<1> DEFINE q == req[r]
           t == Least(q.todo)
<1>1. CallShape(q) /\ CallHeld(q, book, rows, notes) /\ q \in Calls /\ q.at = "each"
         /\ q.todo # {}
  BY OfCall DEF CloseEach
<1>2. t \in q.todo /\ t \in Tickets /\ q.todo \in SUBSET Tickets /\ q.did \in SUBSET Tickets
  BY <1>1, LeastTicket DEF Calls
<1>3. CASE Fail(r, NoCode) /\ UNCHANGED book
  BY <1>1, <1>3, FailStep DEF CloseEach
<1>4. ASSUME NEW closed \in BOOLEAN,
             closed => t \in Open,
             book' = IF closed THEN [book EXCEPT ![t] = Gone] ELSE book,
             req' = [req EXCEPT ![r].todo = @ \ {t},
                                ![r].count = @ + CountClosed(closed),
                                ![r].did = IF closed THEN @ \cup {t} ELSE @]
      PROVE  IInv'
  <2> DEFINE did == IF closed THEN q.did \cup {t} ELSE q.did
             left == q.todo \ {t}
             n == q.count + CountClosed(closed)
             x == [q EXCEPT !.todo = left, !.count = n, !.did = did]
  <2>1. req' = [req EXCEPT ![r] = x]
    BY <1>4
  <2>2. CountClosed(closed) \in Nat /\ CountClosed(closed) = IF closed THEN 1 ELSE 0
    BY DEF CountClosed
  <2>3. did \in SUBSET Tickets
    BY <1>2
  <2>4. n \in Nat /\ left \in SUBSET Tickets /\ q.count \in Nat
    BY <1>1, <1>2, <2>2 DEF Calls
  <2>5. /\ x \in Calls /\ x.at = "each" /\ x.told = q.told /\ x.tool = q.tool
        /\ x.did = did /\ x.count = q.count + CountClosed(closed)
        /\ x.todo = q.todo \ {t} /\ x.ticket = q.ticket
    <3> HIDE DEF did, t, left, n, q
    <3>1. /\ x \in Calls /\ x.at = "each" /\ x.told = q.told /\ x.tool = q.tool
          /\ x.did = did /\ x.count = n /\ x.todo = left /\ x.ticket = q.ticket
      BY <1>1, <2>3, <2>4 DEF Calls
    <3>2. QED
      BY <3>1 DEF left, n
  <2> HIDE DEF x
  <2>6. Cardinality(did) = Cardinality(q.did) + CountClosed(closed)
    <3>1. t \notin q.did
      BY <1>1, <1>2 DEF CallShape
    <3>2. IsFiniteSet(q.did) /\ Cardinality(q.did) \in Nat
      BY <1>2, FiniteDone, FS_CardinalityType
    <3>3. Cardinality(q.did \cup {t}) = Cardinality(q.did) + 1
      BY <3>1, <3>2, FS_AddElement
    <3>4. QED
      BY <2>2, <3>2, <3>3
  <2>7. CallShape(x)
    <3>1. CountIsDone(q) /\ q.did \cap q.todo = {} /\ q.tool = "close_all" /\ q.told # "ok"
      BY <1>1 DEF CallShape
    <3>2. CountIsDone(x) /\ x.did \cap x.todo = {}
      <4> HIDE DEF t
      <4>1. QED
        BY <3>1, <2>5, <2>6 DEF CountIsDone
    <3>3. QED
      BY <3>1, <3>2, <2>5 DEF CallShape
  <2>8. CallHeld(x, book', rows', notes')
    BY <1>1, <2>5 DEF CallShape, CallHeld
  <2>9. book' \in [Tickets -> Orders] /\ BookMoves({})
    <3>1. CASE closed
      <4>1. book' = [book EXCEPT ![t] = Gone] /\ t \in Tickets /\ Gone \in Orders /\ Gone.is = "gone"
        BY <3>1, <1>2, <1>4, GoneIsOrder
      <4> HIDE DEF t
      <4>2. QED
        BY <4>1, OneMoves DEF IInv
    <3>2. CASE ~closed
      BY <3>2, <1>4, NothingMoves DEF IInv, BookOK
    <3>3. QED
      BY <3>1, <3>2
  <2>11. BookOK'
    BY <2>9, BookLater DEF IInv, CloseEach
  <2>12. CallsOK'
    BY <2>1, <2>7, <2>8, <2>9, CallsLater DEF IInv, CloseEach
  <2>13. JobOK(job, book, rows)'
    BY <2>9, JobStill DEF IInv, CloseEach
  <2>14. QED
    BY <2>11, <2>12, <2>13 DEF IInv
<1>5. QED
  BY <1>3, <1>4 DEF CloseEach
-----------------------------------------------------------------------------
(* What the server makes of a request it executes: one order at one ticket,*)
(* which a call that writes a row leaves open.                             *)
LEMMA EffectIsOne ==
    ASSUME IInv, NEW q \in Calls, q.tool \in ToolNames \ {"close_all"},
           q.tool \notin {"market", "pending"} => q.ticket \in Tickets,
           CanExecute(q), NEW code
    PROVE  /\ Ticket(q) \in Tickets
           /\ \E o \in Orders :
                /\ Effect(q, Ticket(q), code) = [book EXCEPT ![Ticket(q)] = o]
                /\ Stood(book, Ticket(q)) =>
                     \/ o.is = "gone"
                     \/ /\ o.is = "open" /\ book[Ticket(q)].is = "open"
                        /\ o.side = book[Ticket(q)].side
                /\ q.tool \in {"market", "modify_row"} => o.is = "open"
<1> DEFINE t == Ticket(q)
<1>1. t \in Tickets /\ (q.tool \in {"market", "pending"} => book[t].is = "unused")
  <2>1. CASE q.tool \in {"market", "pending"}
    <3>1. Free \in SUBSET Tickets /\ Free # {} /\ t = Least(Free)
      BY <2>1 DEF CanExecute, Ticket, Free
    <3>2. t \in Free
      BY <3>1, LeastTicket
    <3>3. QED
      BY <3>2 DEF Free
  <2>2. CASE q.tool \notin {"market", "pending"}
    BY <2>2 DEF Ticket
  <2>3. QED
    BY <2>1, <2>2
<1>2. q.tool \notin {"market", "pending"} =>
         book[t].is = IF q.tool \in {"modify_order", "cancel"} THEN "resting" ELSE "open"
  BY DEF CanExecute, Ticket, Is
<1>3. book[t] \in Orders /\ q.side \in {"BUY", "SELL"} /\ q.sl \in Nat /\ Target(q) \in Nat
  <2>1. q.side \in {"BUY", "SELL"} /\ q.sl \in Nat /\ q.tp \in Nat \cup {Keep} /\ q.seen \in Nat
    BY DEF Calls
  <2>2. QED
    BY <1>1, <2>1 DEF IInv, BookOK, Target
<1> HIDE DEF t
<1>4. CASE q.tool = "market"
  <2>1. Position(q.side, q.sl, None) \in Orders /\ Position(q.side, q.sl, None).is = "open"
    BY <1>3 DEF Position, Orders, None
  <2>2. Effect(q, t, code) = [book EXCEPT ![t] = Position(q.side, q.sl, None)]
    BY <1>4 DEF Effect
  <2>3. ~Stood(book, t)
    BY <1>1, <1>4 DEF Stood
  <2>4. QED
    BY <1>1, <2>1, <2>2, <2>3 DEF t
<1>5. CASE q.tool = "pending"
  <2>1. Resting(q.side, q.sl, None) \in Orders
    BY <1>3 DEF Resting, Orders, None
  <2>2. Effect(q, t, code) = [book EXCEPT ![t] = Resting(q.side, q.sl, None)]
    BY <1>5 DEF Effect
  <2>3. ~Stood(book, t)
    BY <1>1, <1>5 DEF Stood
  <2>4. QED
    BY <1>1, <1>5, <2>1, <2>2, <2>3 DEF t
<1>6. CASE q.tool \in {"modify", "modify_row", "modify_order"}
  <2> DEFINE o == [book[t] EXCEPT !.sl = q.sl, !.tp = Target(q)]
  <2>1. o \in Orders /\ o.is = book[t].is /\ o.side = book[t].side
    BY <1>3 DEF Orders
  <2>2. Effect(q, t, code) = [book EXCEPT ![t].sl = q.sl, ![t].tp = Target(q)]
    BY <1>6 DEF Effect
  <2>3. Effect(q, t, code) = [book EXCEPT ![t] = o]
    BY <2>2, <1>1 DEF IInv, BookOK
  <2> HIDE DEF o
  <2>4. q.tool \in {"market", "modify_row"} => o.is = "open"
    BY <2>1, <1>2, <1>6
  <2>5. Stood(book, t) => (o.is = "open" /\ book[t].is = "open") \/ o.is = "gone"
    BY <2>1, <1>2, <1>6 DEF Stood
  <2>6. QED
    BY <1>1, <2>1, <2>3, <2>4, <2>5 DEF t
<1>7. CASE q.tool \in {"close", "cancel"}
  <2>1. Effect(q, t, code) = [book EXCEPT ![t] = Gone]
    BY <1>7 DEF Effect
  <2>2. QED
    BY <1>1, <1>7, <2>1, GoneIsOrder DEF t
<1>8. QED
  BY <1>4, <1>5, <1>6, <1>7 DEF ToolNames

(* What becomes of the call. *)
LEMMA SendOutcome ==
    ASSUME NEW q, CallShape(q), q.at = "send", NEW b, NEW R, NEW N,
           q.tool = "modify_row" => q.ticket \in R,
           NEW code \in Codes(q), NEW t, NEW done,
           Executes(code) => /\ t \in Tickets /\ done = {t}
                             /\ q.tool \in {"market", "modify_row"} => Stood(b, t)
                             /\ q.tool \notin {"market", "pending"} => t = q.ticket,
           ~Executes(code) => done = {}
    PROVE  LET q2 == [q EXCEPT !.ticket = IF Executes(code) THEN t ELSE @, !.did = done]
               x == IF ~Checked(code) THEN Answered(q2, Refusal(code))
                    ELSE IF q.tool = "market" THEN [q2 EXCEPT !.at = "row"]
                    ELSE IF q.tool = "modify_row" THEN [q2 EXCEPT !.at = "note"]
                    ELSE Answered(q2, "ok")
           IN  CallShape(x) /\ CallHeld(x, b, R, N)
<1> DEFINE q2 == [q EXCEPT !.ticket = IF Executes(code) THEN t ELSE @, !.did = done]
<1>1. q \in Calls /\ q.tool \in ToolNames \ {"close_all"} /\ q.told # "ok" /\ q.count = 0
  BY DEF CallShape
<1>2. done \in SUBSET Tickets
  OBVIOUS
<1>3. /\ q2 \in Calls /\ q2.at = "send" /\ q2.told = q.told /\ q2.tool = q.tool
      /\ q2.did = done /\ q2.count = 0
      /\ q2.ticket = IF Executes(code) THEN t ELSE q.ticket
  BY <1>1, <1>2 DEF Calls
<1> HIDE DEF q2
<1>4. Checked(code) => Executes(code)
  BY DEF Checked, Success, Executes, Done, Refused
<1>5. CASE ~Checked(code)
  <2>1. /\ Answered(q2, Refusal(code)) \in Calls
        /\ CallShape(Answered(q2, Refusal(code)))
        /\ CallHeld(Answered(q2, Refusal(code)), b, R, N)
    <3> DEFINE a == Refusal(code)
               v == Told(q2, a)
               x == Answered(q2, a)
    <3>1. a \in {"refused", "unreached"} /\ v \in {"refused", "unreached"}
      BY <1>1, <1>3, Refusals DEF Told, Calls
    <3>2. x \in Calls /\ x.tool = q.tool /\ x.at = "done" /\ x.told = v
      <4> HIDE DEF a, v
      <4>1. q2.tool \in ToolNames /\ q2.did \in SUBSET Tickets /\ q2.count \in Nat
        BY <1>1, <1>2, <1>3
      <4>2. QED
        BY <3>1, <4>1, <1>3, NotCalledFields DEF Answered, Calls, v
    <3> HIDE DEF x, v
    <3>3. QED
      BY <3>1, <3>2 DEF CallShape, CallHeld, x
  <2>2. QED
    BY <1>5, <2>1 DEF q2
<1>6. CASE Checked(code) /\ q.tool = "market"
  <2> DEFINE x == [q2 EXCEPT !.at = "row"]
  <2>1. /\ x \in Calls /\ x.at = "row" /\ x.told = q.told /\ x.tool = "market"
        /\ x.did = {t} /\ x.ticket = t
    BY <1>3, <1>4, <1>6 DEF Calls
  <2> HIDE DEF x
  <2>2. CallShape(x) /\ CallHeld(x, b, R, N)
    BY <2>1, <1>1, <1>4, <1>6 DEF CallShape, CallHeld
  <2>3. QED
    BY <1>6, <2>2 DEF x, q2
<1>7. CASE Checked(code) /\ q.tool = "modify_row"
  <2> DEFINE x == [q2 EXCEPT !.at = "note"]
  <2>1. /\ x \in Calls /\ x.at = "note" /\ x.told = q.told /\ x.tool = "modify_row"
        /\ x.did = {t} /\ x.ticket = t
    BY <1>3, <1>4, <1>7 DEF Calls
  <2> HIDE DEF x
  <2>2. CallShape(x) /\ CallHeld(x, b, R, N)
    BY <2>1, <1>1, <1>4, <1>7 DEF CallShape, CallHeld
  <2>3. QED
    BY <1>7, <2>2 DEF x, q2
<1>8. CASE Checked(code) /\ q.tool \notin {"market", "modify_row"}
  <2> DEFINE x == Answered(q2, "ok")
             v == Told(q2, "ok")
  <2>1. v \in {"ok", "refused", "unreached"}
    BY <1>1, <1>3 DEF Told, Calls
  <2>2. x \in Calls /\ x.tool = q.tool /\ x.at = "done" /\ x.told = v /\ x.did = {t}
    <3> HIDE DEF v
    <3>1. q2.tool \in ToolNames /\ q2.did = {t} /\ t \in Tickets /\ q2.count \in Nat
      BY <1>1, <1>3, <1>4, <1>8
    <3>2. QED
      BY <2>1, <3>1, <1>3, NotCalledFields DEF Answered, Calls, v
  <2> HIDE DEF x, v
  <2>3. CallShape(x) /\ CallHeld(x, b, R, N)
    BY <2>1, <2>2, <1>1, <1>8 DEF CallShape, CallHeld
  <2>4. QED
    BY <1>8, <2>3 DEF x, q2
<1>9. QED
  BY <1>5, <1>6, <1>7, <1>8

(* The scan's note of what a request has moved. *)
LEMMA OthersNoted ==
    ASSUME JobOK(job, book, rows), NEW S \in SUBSET Tickets,
           job' = [job EXCEPT !.unseen = @ \cup (S \cap Left)]
    PROVE  /\ job' \in Jobs /\ job'.unseen = job.unseen \cup (S \cap DOMAIN job.snap)
           /\ job'.unseen \subseteq DOMAIN job.snap
           /\ job'.at = job.at /\ job'.snap = job.snap /\ job'.k = job.k /\ job'.tp = job.tp
<1>1. job \in Jobs /\ job.unseen \subseteq DOMAIN job.snap
  BY DEF JobOK
<1> DEFINE unseen == job.unseen \cup (S \cap DOMAIN job.snap)
<1>2. job' = [job EXCEPT !.unseen = unseen]
  BY DEF Left
<1>3. unseen \in SUBSET Tickets /\ unseen \subseteq DOMAIN job.snap
  BY <1>1 DEF Jobs
<1> HIDE DEF unseen
<1>4. /\ job' \in Jobs /\ job'.unseen = unseen
      /\ job'.at = job.at /\ job'.snap = job.snap /\ job'.k = job.k /\ job'.tp = job.tp
  BY <1>1, <1>2, <1>3 DEF Jobs
<1>5. QED
  BY <1>3, <1>4 DEF unseen

LEMMA SendStep ==
    ASSUME IInv, NEW r \in Requests, Send(r)
    PROVE  IInv'
<1> DEFINE q == req[r]
<1>1. CallShape(q) /\ CallHeld(q, book, rows, notes) /\ q \in Calls /\ q.at = "send"
  BY OfCall DEF Send
<1>2. q.tool \in ToolNames \ {"close_all"}
         /\ (q.tool \notin {"market", "pending"} => q.ticket \in Tickets)
  BY <1>1 DEF CallShape
<1>3. PICK code \in Codes(q) :
         /\ Executes(code) => CanExecute(q)
         /\ LET t == IF Executes(code) THEN Ticket(q) ELSE 0
                done == IF Executes(code) THEN {t} ELSE {}
                q2 == [q EXCEPT !.ticket = IF Executes(code) THEN t ELSE @, !.did = done]
            IN /\ book' = IF Executes(code) THEN Effect(q, t, code) ELSE book
               /\ req' = [req EXCEPT ![r] =
                     IF ~Checked(code) THEN Answered(q2, Refusal(code))
                     ELSE IF q.tool = "market" THEN [q2 EXCEPT !.at = "row"]
                     ELSE IF q.tool = "modify_row" THEN [q2 EXCEPT !.at = "note"]
                     ELSE Answered(q2, "ok")]
               /\ job' = [job EXCEPT !.unseen = @ \cup (done \cap Left)]
  BY DEF Send
<1>4. UNCHANGED <<rows, notes>>
  BY DEF Send
<1> DEFINE t == IF Executes(code) THEN Ticket(q) ELSE 0
           done == IF Executes(code) THEN {t} ELSE {}
           q2 == [q EXCEPT !.ticket = IF Executes(code) THEN t ELSE @, !.did = done]
           x == IF ~Checked(code) THEN Answered(q2, Refusal(code))
                ELSE IF q.tool = "market" THEN [q2 EXCEPT !.at = "row"]
                ELSE IF q.tool = "modify_row" THEN [q2 EXCEPT !.at = "note"]
                ELSE Answered(q2, "ok")
<1>5. /\ book' = IF Executes(code) THEN Effect(q, t, code) ELSE book
      /\ req' = [req EXCEPT ![r] = x]
      /\ job' = [job EXCEPT !.unseen = @ \cup (done \cap Left)]
  BY <1>3
<1>6. /\ book' \in [Tickets -> Orders] /\ BookMoves(done) /\ done \in SUBSET Tickets
      /\ Executes(code) => t \in Tickets
      /\ Executes(code) /\ q.tool \in {"market", "modify_row"} => Stood(book', t)
  <2>1. CASE Executes(code)
    <3>1. t = Ticket(q) /\ done = {t} /\ CanExecute(q)
      BY <2>1, <1>3
    <3> HIDE DEF t, done, q
    <3>2. /\ Ticket(q) \in Tickets
          /\ \E o \in Orders :
               /\ Effect(q, Ticket(q), code) = [book EXCEPT ![Ticket(q)] = o]
               /\ Stood(book, Ticket(q)) =>
                    \/ o.is = "gone"
                    \/ /\ o.is = "open" /\ book[Ticket(q)].is = "open"
                       /\ o.side = book[Ticket(q)].side
               /\ q.tool \in {"market", "modify_row"} => o.is = "open"
      BY <1>1, <1>2, <3>1, EffectIsOne
    <3>3. PICK o \in Orders :
             /\ Effect(q, t, code) = [book EXCEPT ![t] = o]
             /\ Stood(book, t) =>
                  \/ o.is = "gone"
                  \/ o.is = "open" /\ book[t].is = "open" /\ o.side = book[t].side
             /\ q.tool \in {"market", "modify_row"} => o.is = "open"
      BY <3>1, <3>2
    <3>4. book' = [book EXCEPT ![t] = o]
      BY <2>1, <1>5, <3>3
    <3>5. t \in Tickets
      BY <3>1, <3>2
    <3>6. book' \in [Tickets -> Orders] /\ BookMoves({t})
      BY <3>3, <3>4, <3>5, OneMoves DEF IInv
    <3>7. book'[t] = o
      BY <3>4, <3>5 DEF IInv, BookOK
    <3>8. QED
      BY <3>1, <3>3, <3>5, <3>6, <3>7 DEF Stood
  <2>2. CASE ~Executes(code)
    BY <2>2, <1>5, NothingMoves DEF IInv, BookOK
  <2>3. QED
    BY <2>1, <2>2
<1>7. CallShape(x) /\ CallHeld(x, book', rows', notes')
  <2>1. q.tool = "modify_row" => q.ticket \in rows'
    BY <1>1, <1>4 DEF CallHeld
  <2>2. Executes(code) => done = {t} /\ (q.tool \notin {"market", "pending"} => t = q.ticket)
    BY DEF Ticket
  <2>3. ~Executes(code) => done = {}
    OBVIOUS
  <2> HIDE DEF t, done, q
  <2>4. QED
    BY <1>1, <1>6, <2>1, <2>2, <2>3, SendOutcome
<1> HIDE DEF x, q, t
<1>9. BookOK'
  BY <1>4, <1>6, BookLater DEF IInv
<1>10. CallsOK'
  BY <1>4, <1>5, <1>6, <1>7, CallsLater DEF IInv
<1>11. JobOK(job, book, rows)'
  <2> HIDE DEF done
  <2>1. /\ job' \in Jobs /\ job'.unseen = job.unseen \cup (done \cap DOMAIN job.snap)
        /\ job'.unseen \subseteq DOMAIN job.snap
        /\ job'.at = job.at /\ job'.snap = job.snap /\ job'.k = job.k /\ job'.tp = job.tp
    BY <1>5, <1>6, OthersNoted DEF IInv
  <2>2. QED
    BY <1>4, <1>6, <2>1, JobLater DEF IInv
<1>12. QED
  BY <1>9, <1>10, <1>11 DEF IInv
-----------------------------------------------------------------------------
(* The market moves only orders, and lets no one that stood stand anew.    *)
LEMMA BookAlone ==
    ASSUME IInv, UNCHANGED <<req, rows, notes, job>>,
           book' \in [Tickets -> Orders], BookMoves({})
    PROVE  IInv'
<1>1. BookOK'
  BY BookLater DEF IInv
<1>2. CallsOK'
  BY CallsStill DEF IInv
<1>3. JobOK(job, book, rows)'
  BY JobStill DEF IInv
<1>4. QED
  BY <1>1, <1>2, <1>3 DEF IInv

LEMMA MarketStep == ASSUME IInv, NEW t \in Tickets,
                           StopsOut(t) \/ Triggers(t)
                    PROVE  IInv'
<1>2. CASE StopsOut(t)
  <2>1. UNCHANGED <<req, rows, notes, job>> /\ book' = [book EXCEPT ![t] = Gone]
    BY <1>2 DEF StopsOut
  <2>3. book' \in [Tickets -> Orders] /\ BookMoves({})
    BY <2>1, GoneIsOrder, OneMoves DEF IInv
  <2>4. QED
    BY <2>1, <2>3, BookAlone
<1>3. CASE Triggers(t)
  <2> DEFINE o == [book[t] EXCEPT !.is = "open"]
  <2>1. UNCHANGED <<req, rows, notes, job>> /\ book' = [book EXCEPT ![t] = o]
    BY <1>3 DEF Triggers, IInv, BookOK
  <2>2. o \in Orders
    BY DEF IInv, BookOK, Orders
  <2>3. ~Stood(book, t)
    BY <1>3 DEF Triggers, Stood
  <2> HIDE DEF o
  <2>4. book' \in [Tickets -> Orders] /\ BookMoves({})
    BY <2>1, <2>2, <2>3, OneMoves DEF IInv
  <2>5. QED
    BY <2>1, <2>4, BookAlone DEF IInv, BookOK
<1>4. QED
  BY <1>2, <1>3
-----------------------------------------------------------------------------
(* The trailing job. *)

LEMMA JobAlone ==
    ASSUME IInv, UNCHANGED <<book, req, rows>>,
           notes \subseteq notes', notes' \subseteq rows, JobOK(job', book, rows)
    PROVE  IInv'
<1>1. BookMoves({})
  BY NothingMoves DEF IInv
<1>2. BookOK'
  BY DEF IInv, BookOK, Stood
<1>3. CallsOK'
  BY <1>1, CallsStill DEF IInv
<1>4. QED
  BY <1>2, <1>3 DEF IInv

LEMMA Scanning ==
    ASSUME IInv
    PROVE  /\ job \in Jobs /\ Left \in SUBSET Tickets /\ job.snap \in [Left -> Seen]
           /\ Current = At(job)
           /\ Left # {} => Current \in Left /\ Current \in Tickets
  BY SnapShape, LeastTicket DEF IInv, JobOK, Jobs, Left, Current, At

LEMMA PassedIsOK ==
    ASSUME IInv, Left # {}
    PROVE  JobOK(Passed, book, rows)
<1> DEFINE rest == Left \ {Current}
           snap == [u \in rest |-> job.snap[u]]
           unseen == job.unseen \ {Current}
           j == [job EXCEPT !.at = "scan", !.k = 1, !.unseen = unseen, !.snap = snap]
<1>1. /\ job \in Jobs /\ Left \in SUBSET Tickets /\ job.snap \in [Left -> Seen]
      /\ Current = At(job) /\ Current \in Left
  BY Scanning
<1>2. Passed = j
  BY DEF Passed
<1>3. snap \in Snaps /\ DOMAIN snap = rest /\ \A u \in rest : snap[u] = job.snap[u]
  <2>1. snap \in [rest -> Seen] /\ rest \in SUBSET Tickets
    BY <1>1
  <2>2. QED
    BY <2>1, SnapShape
<1>4. unseen \in SUBSET Tickets /\ unseen \subseteq rest
  BY <1>1 DEF IInv, JobOK, Jobs, Left
<1> HIDE DEF snap, unseen
<1>5. /\ j \in Jobs /\ j.at = "scan" /\ j.snap = snap /\ j.unseen = unseen
  BY <1>1, <1>3, <1>4, Numbers DEF Jobs
<1> HIDE DEF j
<1>6. \A t \in rest : Stood(book, t)
  BY DEF IInv, JobOK, Left
<1>7. \A t \in rest \ unseen : book[t].is = "open" => \A k \in snap[t] : Tighter(book, t, k)
  BY <1>1, <1>3 DEF IInv, JobOK, Left, unseen
<1>8. JobOK(j, book, rows)
  BY <1>3, <1>4, <1>5, <1>6, <1>7 DEF JobOK
<1>9. QED
  BY <1>2, <1>8

LEMMA ScanStep == ASSUME IInv, Scan PROVE IInv'
<1>1. PICK profit \in [Open -> 0..TopStep] :
         job' = [IdleJob EXCEPT !.at = "scan",
                                !.snap = [t \in Open |-> Applies(t, profit[t])]]
  BY DEF Scan
<1> DEFINE snap == [t \in Open |-> Applies(t, profit[t])]
           j == [IdleJob EXCEPT !.at = "scan", !.snap = snap]
<1>2. job' = j /\ UNCHANGED <<book, req, rows, notes>>
  BY <1>1 DEF Scan
<1>3. /\ snap \in Snaps /\ DOMAIN snap = Open
      /\ \A t \in Open : \A k \in snap[t] : Tighter(book, t, k)
  <2>1. Open \in SUBSET Tickets
    BY DEF Open
  <2>2. \A t \in Open : Applies(t, profit[t]) \in Seen
    BY DEF Applies, Seen
  <2>3. snap \in [Open -> Seen]
    BY <2>2
  <2>4. \A t \in Open : \A k \in snap[t] : Tighter(book, t, k)
    BY DEF Applies, StopAt, Tighter
  <2>5. QED
    BY <2>1, <2>3, <2>4, SnapShape
<1> HIDE DEF snap
<1>4. IdleJob \in Jobs /\ IdleJob.unseen = {}
  BY IdleIsOK DEF JobOK, IdleJob
<1>5. j \in Jobs /\ j.at = "scan" /\ j.snap = snap /\ j.unseen = {}
  BY <1>3, <1>4 DEF Jobs
<1> HIDE DEF j
<1>6. JobOK(j, book, rows)
  BY <1>3, <1>5 DEF JobOK, Open, Stood
<1>7. QED
  BY <1>2, <1>6, JobAlone DEF IInv, BookOK

LEMMA SkipStep == ASSUME IInv, Skip PROVE IInv'
<1>1. job' = Passed /\ Left # {} /\ UNCHANGED <<book, req, rows, notes>>
  BY DEF Skip
<1>2. QED
  BY <1>1, PassedIsOK, JobAlone DEF IInv, BookOK

LEMMA JobReadsStep == ASSUME IInv, JobReads PROVE IInv'
<1>1. /\ job.at = "scan" /\ Left # {} /\ Current \in rows /\ Untried # {}
      /\ UNCHANGED <<book, req, rows, notes>>
  BY DEF JobReads
<1>2. /\ job \in Jobs /\ Left \in SUBSET Tickets /\ Current = At(job)
      /\ Current \in Left /\ Current \in Tickets
  BY <1>1, Scanning
<1>3. CASE Current \in Open
  <2> DEFINE k == Least(Untried)
             tp == book[Current].tp
             j == [job EXCEPT !.at = "send", !.k = k, !.tp = tp]
  <2>1. job' = j
    BY <1>3 DEF JobReads
  <2>2. k \in Untried /\ k \in 1..TopStep /\ k \in 1..TopStep + 1
    <3>1. job.k \in 1..TopStep + 1
      BY <1>2 DEF Jobs
    <3>2. Untried \subseteq 1..TopStep
      BY <3>1, <1>2, Scanning DEF Untried, Seen
    <3>3. k \in Untried
      BY <3>2, <1>1, LeastIsIn
    <3> HIDE DEF k
    <3>4. QED
      BY <3>2, <3>3, Numbers
  <2>3. tp \in Nat
    BY <1>2 DEF IInv, BookOK, Orders
  <2>4. k \in job.snap[Current]
    BY <2>2 DEF Untried
  <2> HIDE DEF k, tp
  <2>5. /\ j \in Jobs /\ j.at = "send" /\ j.k = k /\ j.tp = tp /\ j.snap = job.snap
        /\ j.unseen = job.unseen
    BY <1>2, <2>2, <2>3, Numbers DEF Jobs
  <2> HIDE DEF j
  <2>6. At(j) = Current
    BY <2>5, <1>2 DEF At
  <2>7. j.k \in j.snap[At(j)] /\ j.tp = book[At(j)].tp
    BY <2>4, <2>5, <2>6 DEF tp
  <2>8. JobOK(j, book, rows)
    BY <1>1, <1>2, <2>2, <2>5, <2>6, <2>7 DEF IInv, JobOK, Left
  <2>9. QED
    BY <1>1, <2>1, <2>8, JobAlone DEF IInv, BookOK
<1>4. CASE Current \notin Open
  <2>1. job' = IdleJob
    BY <1>4 DEF JobReads
  <2>2. QED
    BY <1>1, <2>1, IdleIsOK, JobAlone DEF IInv, BookOK
<1>5. QED
  BY <1>3, <1>4

(* The stop it sends is a price. *)
LEMMA PriceIsNat ==
    ASSUME NEW k \in 1..TopStep, NEW side \in {"BUY", "SELL"}
    PROVE  GetPriceAtPnl(side, TRAILING_STOP_STEPS[k]) \in Nat
<1>1. TRAILING_STOP_STEPS[k] \in 1..TopStep
  BY Numbers DEF TRAILING_STOP_STEPS
<1>2. QED
  BY <1>1, Numbers DEF GetPriceAtPnl, Entry

(* One stop and one target move, and the scan goes on as j: past the ticket*)
(* when it was taken, or at it, with the ticket noted as unseen.           *)
LEMMA SentIsOK ==
    ASSUME IInv, NEW t \in Tickets, JobSends(t), NEW j \in Jobs, job' = j,
           j.snap = job.snap, job.unseen \subseteq j.unseen, j.unseen \subseteq job.unseen \cup {t},
           \/ j.at = "note" /\ j.k = job.k
           \/ j.at = "scan" /\ t \in j.unseen
    PROVE  IInv'
<1> DEFINE price == StopAt(t, job.k)
           o == [book[t] EXCEPT !.sl = price, !.tp = job.tp]
<1>1. /\ job.at = "send" /\ t = Current /\ book[t].is = "open"
      /\ UNCHANGED <<req, rows, notes>>
  BY DEF JobSends, Open
<1>2. job \in Jobs /\ Current = At(job) /\ Left # {} /\ job.k \in 1..TopStep /\ job.tp \in Nat
         /\ At(job) \in rows /\ t \in Left
  BY <1>1, Scanning DEF IInv, JobOK, Jobs, Left
<1>3. book[t] \in Orders
  BY DEF IInv, BookOK
<1>4. price \in Nat
  BY <1>2, <1>3, PriceIsNat DEF Orders, StopAt
<1>5. book' = [book EXCEPT ![t].sl = price, ![t].tp = job.tp]
  BY DEF JobSends
<1> HIDE DEF price
<1>6. o \in Orders /\ o.is = "open" /\ o.side = book[t].side /\ book' = [book EXCEPT ![t] = o]
  BY <1>1, <1>2, <1>3, <1>4, <1>5 DEF Orders, IInv, BookOK
<1> HIDE DEF o
<1>7. book' \in [Tickets -> Orders] /\ BookMoves({t})
  BY <1>1, <1>6, OneMoves DEF IInv
<1>8. BookOK'
  BY <1>1, <1>7, BookLater DEF IInv, BookOK
<1>9. CallsOK'
  BY <1>1, <1>7, CallsStill DEF IInv
<1>10. JobOK(job, book, rows)'
  <2>1. At(j) = t
    BY <1>1, <1>2 DEF At
  <2>2. \A u \in DOMAIN job.snap : u \in Tickets
    BY <1>2, SnapShape DEF Jobs
  <2>3. \A u \in DOMAIN job.snap : Stood(book', u)
    BY <1>7, <2>2 DEF BookMoves, IInv, JobOK
  <2>4. \A u \in DOMAIN job.snap \ job.unseen :
           book'[u].is = "open" /\ u # t => \A k \in job.snap[u] : Tighter(book', u, k)
    <3> SUFFICES ASSUME NEW u \in DOMAIN job.snap \ job.unseen, book'[u].is = "open", u # t,
                        NEW k \in job.snap[u]
                 PROVE  Tighter(book', u, k)
      OBVIOUS
    <3>1. u \in Tickets /\ book'[u] = book[u]
      BY <1>6, <2>2 DEF IInv, BookOK
    <3>2. Tighter(book, u, k)
      BY <1>1, <3>1 DEF IInv, JobOK
    <3>3. QED
      BY <3>1, <3>2 DEF Tighter
  <2>5. \A u \in DOMAIN j.snap \ j.unseen :
           book'[u].is = "open" /\ ~(j.at = "note" /\ u = At(j)) =>
              \A k \in j.snap[u] : Tighter(book', u, k)
    BY <2>1, <2>4
  <2>6. j.unseen \subseteq DOMAIN j.snap
    BY <1>2 DEF IInv, JobOK, Left
  <2>7. j.at = "note" => DOMAIN j.snap # {} /\ j.k \in 1..TopStep /\ At(j) \in rows'
    BY <1>1, <1>2, <2>1 DEF Left
  <2>8. JobOK(j, book', rows')
    BY <2>3, <2>5, <2>6, <2>7 DEF JobOK
  <2>9. QED
    BY <2>8
<1>11. QED
  BY <1>8, <1>9, <1>10 DEF IInv

LEMMA JobMovesStep == ASSUME IInv, NEW t \in Tickets, JobMoves(t) PROVE IInv'
<1> DEFINE j == [job EXCEPT !.at = "note"]
<1>1. JobSends(t) /\ job' = j
  BY DEF JobMoves
<1>2. j \in Jobs /\ j.at = "note" /\ j.snap = job.snap /\ j.unseen = job.unseen /\ j.k = job.k
  BY Scanning DEF Jobs
<1> HIDE DEF j
<1>3. QED
  BY <1>1, <1>2, SentIsOK

LEMMA JobUnclearStep == ASSUME IInv, NEW t \in Tickets, JobUnclear(t) PROVE IInv'
<1> DEFINE k == job.k + 1
           unseen == job.unseen \cup {t}
           j == [job EXCEPT !.at = "scan", !.k = k, !.unseen = unseen]
<1>1. JobSends(t) /\ job' = j
  BY DEF JobUnclear
<1>2. k \in 1..TopStep + 1 /\ job \in Jobs
  <2>1. job.k \in 1..TopStep /\ job \in Jobs
    BY <1>1 DEF IInv, JobOK, JobSends
  <2>2. QED
    BY <2>1, Numbers
<1>3. unseen \in SUBSET Tickets
  BY <1>2 DEF Jobs
<1> HIDE DEF k, unseen
<1>4. j \in Jobs /\ j.at = "scan" /\ j.snap = job.snap /\ j.unseen = unseen
  BY <1>2, <1>3 DEF Jobs
<1> HIDE DEF j
<1>5. job.unseen \subseteq j.unseen /\ j.unseen \subseteq job.unseen \cup {t} /\ t \in j.unseen
  BY <1>4 DEF unseen
<1>6. QED
  BY <1>1, <1>4, <1>5, SentIsOK

LEMMA JobRefusedStep == ASSUME IInv, JobRefused PROVE IInv'
<1> DEFINE k == job.k + 1
           j == [job EXCEPT !.at = "scan", !.k = k]
<1>1. job.at = "send" /\ job' = j /\ UNCHANGED <<book, req, rows, notes>>
  BY DEF JobRefused
<1>2. job \in Jobs /\ k \in 1..TopStep + 1
  <2>1. job \in Jobs /\ job.k \in 1..TopStep
    BY <1>1 DEF IInv, JobOK
  <2>2. QED
    BY <2>1, Numbers
<1> HIDE DEF k
<1>3. j \in Jobs /\ j.at = "scan" /\ j.snap = job.snap /\ j.unseen = job.unseen
  BY <1>2 DEF Jobs
<1> HIDE DEF j
<1>4. JobOK(j, book, rows)
  BY <1>1, <1>3 DEF IInv, JobOK
<1>5. QED
  BY <1>1, <1>4, JobAlone DEF IInv, BookOK

LEMMA JobNotesStep == ASSUME IInv, JobNotes PROVE IInv'
<1>1. /\ job.at = "note" /\ job' = Passed /\ notes' = notes \cup {Current}
      /\ UNCHANGED <<book, req, rows>>
  BY DEF JobNotes
<1>2. Left # {} /\ Current \in rows
  BY <1>1, Scanning DEF IInv, JobOK, Left
<1>3. QED
  BY <1>1, <1>2, PassedIsOK, JobAlone DEF IInv, BookOK

LEMMA JobStopsStep == ASSUME IInv, JobRaises \/ ScanEnds PROVE IInv'
<1>1. job' = IdleJob /\ UNCHANGED <<book, req, rows, notes>>
  BY DEF JobRaises, ScanEnds
<1>2. QED
  BY <1>1, IdleIsOK, JobAlone DEF IInv, BookOK

LEMMA CrashStep == ASSUME IInv, Crash PROVE IInv'
<1>1. /\ job' = IdleJob /\ UNCHANGED <<book, rows, notes>>
      /\ req' = [r \in Requests |-> IF UnderWay(r) THEN Answered(req[r], Refusal(NoCode))
                                                   ELSE req[r]]
  BY DEF Crash
<1>2. \A r \in Requests : CallShape(req'[r]) /\ CallHeld(req'[r], book, rows, notes)
  <2> SUFFICES ASSUME NEW r \in Requests
               PROVE  CallShape(req'[r]) /\ CallHeld(req'[r], book, rows, notes)
    OBVIOUS
  <2> DEFINE a == Refusal(NoCode)
             q == req[r]
  <2>1. CallShape(q) /\ CallHeld(q, book, rows, notes)
    BY OfCall
  <2>2. a \in {"refused", "unreached"}
    BY Refusals
  <2>3. req'[r] = IF UnderWay(r) THEN Answered(q, a) ELSE q
    BY <1>1
  <2>4. CASE UnderWay(r)
    <3>1. q.at # "done"
      BY <2>4 DEF UnderWay
    <3> HIDE DEF a, q
    <3>2. CallShape(Answered(q, a)) /\ CallHeld(Answered(q, a), book, rows, notes)
      BY <2>1, <2>2, <3>1, FailIsOK
    <3>3. QED
      BY <2>3, <2>4, <3>2
  <2>5. CASE ~UnderWay(r)
    BY <2>1, <2>3, <2>5
  <2>6. QED
    BY <2>4, <2>5
<1>3. req' \in [Requests -> Calls]
  <2>1. \A r \in Requests : req'[r] \in Calls
    BY <1>2 DEF CallShape
  <2>2. QED
    BY <1>1, <2>1
<1>4. CallsOK'
  BY <1>1, <1>2, <1>3 DEF CallsOK
<1>5. BookOK'
  BY <1>1 DEF IInv, BookOK, Stood
<1>6. JobOK(job, book, rows)'
  BY <1>1, IdleIsOK
<1>7. QED
  BY <1>4, <1>5, <1>6 DEF IInv
-----------------------------------------------------------------------------
LEMMA NextIInv == IInv /\ [Next]_vars => IInv'
<1> SUFFICES ASSUME IInv, [Next]_vars
             PROVE  IInv'
  OBVIOUS
<1>1. CASE Market
  BY <1>1, MarketStep DEF Market
<1>2. CASE Agent
  BY <1>2, AgentCalls, GiveUpStep DEF Agent
<1>3. CASE Route
  BY <1>3, ReadTicketStep, SendStep, FailsStep, CreateTradeStep,
     MutateTradeStep, ListPositionsStep, CloseEachStep, CloseAllAnswersStep DEF Route
<1>4. CASE Trailing
  BY <1>4, ScanStep, SkipStep, JobReadsStep, JobMovesStep, JobUnclearStep, JobRefusedStep, JobNotesStep,
     JobStopsStep DEF Trailing
<1>5. CASE Crash
  BY <1>5, CrashStep
<1>6. CASE UNCHANGED vars
  <2>1. BookMoves({})
    BY <1>6, NothingMoves DEF vars, IInv
  <2>2. UNCHANGED <<book, rows, notes, req, job>>
    BY <1>6 DEF vars
  <2>3. QED
    BY <2>1, <2>2, BookAlone DEF IInv, BookOK
<1>7. QED
  BY <1>1, <1>2, <1>3, <1>4, <1>5, <1>6 DEF Next

LEMMA AlwaysIInv == Spec => []IInv
  BY InitIInv, NextIInv, PTL DEF Spec

LEMMA IInvSafe == IInv => Safe /\ RowsAgree
<1> SUFFICES ASSUME IInv
             PROVE  Safe /\ RowsAgree
  OBVIOUS
<1>1. \A r \in Requests : CallShape(req[r]) /\ CallHeld(req[r], book, rows, notes)
                          /\ req[r] \in Calls
  BY OfCall
<1>2. book \in [Tickets -> [is : {"unused", "resting", "open", "gone"},
                            side : {"BUY", "SELL"}, sl : Nat, tp : Nat]]
  BY DEF IInv, BookOK, Orders
<1>3. \A r \in Requests :
         /\ req[r].at \in {"new", "read", "send", "list", "each", "row",
                           "note", "done"}
         /\ req[r].told \in {"nothing", "ok", "refused", "unreached"}
         /\ req[r].at = "done" => req[r].told # "nothing"
         /\ req[r].did \subseteq Tickets /\ req[r].todo \subseteq Tickets
  BY <1>1 DEF CallShape, Calls
<1>4. /\ job.at \in {"idle", "scan", "send", "note"} /\ Left \subseteq Tickets
      /\ job.at \in {"send", "note"} => Left # {} /\ job.k \in 1..TopStep
  BY Scanning DEF IInv, JobOK, Jobs, Left
<1>5. TypeOK
  BY <1>2, <1>3, <1>4, Numbers DEF TypeOK, IInv, BookOK
<1>6. OkIsDone
  BY <1>1 DEF OkIsDone, CallShape, CountIsDone
<1>7. RowsAgree
  BY <1>1 DEF RowsAgree, IInv, BookOK, Stood, CallHeld
<1>8. QED
  BY <1>5, <1>6, <1>7 DEF Safe

(* What a tool was told was done was done by its own call, and close_all   *)
(* counts what it closed (tools.py, services/trade.py), however many calls *)
(* are under way, give up or are cut off by the end of the process.        *)
THEOREM AlwaysSafe == Spec => []Safe
  BY AlwaysIInv, IInvSafe, PTL

(* A row names an order that stood, and an order answered as placed has its*)
(* row with the record of its stops (routers/trading.py, db/crud.py).      *)
THEOREM RowsAlwaysAgree == Spec => []RowsAgree
  BY AlwaysIInv, IInvSafe, PTL

(* The job (utils/trailing.py) moves a stop away from its price, or the    *)
(* target, only of a position that another call, or an answer of unknown   *)
(* outcome to a higher step, moved since its scan began.                   *)
THEOREM JobLoosensOnlyUnseen == Spec => LoosensOnlyUnseen
<1>1. ASSUME IInv
      PROVE  [\A t \in Tickets :
                JobMoves(t) \/ JobUnclear(t) =>
                   \/ t \in job.unseen
                   \/ /\ Better(book[t].side, book'[t].sl, book[t].sl)
                      /\ book'[t].tp = book[t].tp]_vars
  <2> SUFFICES ASSUME NEW t \in Tickets, JobSends(t), t \notin job.unseen
               PROVE  /\ Better(book[t].side, book'[t].sl, book[t].sl)
                      /\ book'[t].tp = book[t].tp
    BY DEF JobMoves, JobUnclear
  <2>1. job.at = "send" /\ t = Current /\ book[t].is = "open"
    BY DEF JobSends, Open
  <2>2. t = At(job) /\ t \in DOMAIN job.snap
    BY <1>1, <2>1, Scanning DEF IInv, JobOK, Left
  <2>3. Tighter(book, t, job.k) /\ job.tp = book[t].tp
    BY <1>1, <2>1, <2>2 DEF IInv, JobOK
  <2>4. book' = [book EXCEPT ![t].sl = StopAt(t, job.k), ![t].tp = job.tp]
    BY DEF JobSends
  <2>5. /\ book'[t].sl = StopAt(t, job.k)
        /\ book'[t].tp = job.tp
    BY <1>1, <2>4 DEF IInv, BookOK, Orders
  <2>6. QED
    BY <2>3, <2>5 DEF Tighter, StopAt
<1>2. QED
  BY <1>1, AlwaysIInv, PTL DEF LoosensOnlyUnseen
=============================================================================
