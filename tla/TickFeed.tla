------------------------------ MODULE TickFeed ------------------------------
(***************************************************************************)
(* The push half of the tick stream: one EA per chart (TillTickFeed.mq5)   *)
(* stamps every tick with a sequence number and writes it to a socket; the *)
(* bridge's listener (services/feed.py) names the gaps and fans each frame *)
(* out to bounded queues, one per subscriber.                              *)
(*                                                                         *)
(* EA and listener only meet on the socket.  A closed connection may still *)
(* hold unread lines, so two connections of one EA can be read at once.    *)
(* The listener is one asyncio task per connection and never awaits inside *)
(* _accept, so accepting a line is one step.                               *)
(***************************************************************************)
EXTENDS Integers, Sequences, FiniteSets, FiniteSetsExt

CONSTANTS Symbols,       \* one chart, hence one EA, per symbol
          Conns,         \* connection slots an EA may leave unread at once
          Subscribers,   \* sockets of /stream that may subscribe
          Backlog,       \* BACKLOG: frames a queue holds
          MaxTicks,      \* bound: ticks of one symbol
          MaxRuns,       \* bound: times one EA is started
          MaxJunk,       \* bound: malformed lines
          MaxRestarts    \* bound: times the bridge process dies

ASSUME FeedAssumption ==
    /\ Backlog \in Nat \ {0}
    /\ {MaxTicks, MaxRuns, MaxJunk, MaxRestarts} \subseteq Nat
    /\ IsFiniteSet(Subscribers)

NoConn == "INVALID_HANDLE"
ASSUME ConnsAssumption == NoConn \notin Conns

NoSeq == -1              \* _sequence.get(symbol) is None

VARIABLES
  \* the EA of each symbol
    run,        \* [Symbols -> Nat]  which start of the EA this is, 0 when not attached
    runs,       \* [Symbols -> Nat]  times the EA was started
    sequence,   \* [Symbols -> Nat]  the EA's `sequence`
    socket,     \* [Symbols -> Conns \cup {NoConn}]  the EA's `socket`
    tick,       \* [Symbols -> Nat]  ticks the terminal gave, or would have (history)
    unread,     \* [Symbols -> Nat]  ticks SymbolInfoTick did not give (history)
  \* the connections
    conn,       \* [Symbols -> [Conns -> ConnStates]]
    lines,      \* [Symbols -> [Conns -> Seq(Line)]]  sent, not yet read
  \* the bridge process
    listening,  \* Feed._server is set
    lastSeq,    \* Feed._sequence
    lastIn,     \* last accepted frame of each symbol, run 0 before one (history)
    fed,        \* Feed.sources()
    received, gaps, dropped,
    subscribers,\* Feed._subscribers
    queue,      \* [Subscribers -> Seq(Frame)]
    taken,      \* [Subscribers -> Nat]  number of the frame read last (history)
    reads,      \* [Subscribers -> Nat]  frames read (history)
    joined,     \* [Subscribers -> Nat]  `received` when it subscribed (history)
    settled,    \* drops of junk and of subscribers that have left (history)
    junk, restarts

eaVars     == <<run, runs, sequence, socket, tick, unread>>
connVars   == <<conn, lines>>
countVars  == <<received, gaps, dropped, junk, settled>>
symbolVars == <<lastSeq, lastIn, fed>>
queueVars  == <<subscribers, queue, taken, reads, joined>>
feedVars   == <<listening, symbolVars, countVars, queueVars, restarts>>
vars       == <<eaVars, connVars, feedVars>>

(* open: both ends up; eof: the EA closed, lines may remain; dead: the     *)
(* listener is gone but the EA still holds the handle.                     *)
ConnStates == {"free", "open", "eof", "dead"}

Line  == [seq : Nat, run : Nat, tick : Nat]
Frame == [seq : Nat, run : Nat, tick : Nat, nth : Nat,
          missed : Nat, reset : BOOLEAN]
NoFrame == [seq |-> 0, run |-> 0, tick |-> 0, nth |-> 0,
            missed |-> 0, reset |-> FALSE]

Init ==
    /\ run = [s \in Symbols |-> 0]
    /\ runs = [s \in Symbols |-> 0]
    /\ sequence = [s \in Symbols |-> 0]
    /\ socket = [s \in Symbols |-> NoConn]
    /\ tick = [s \in Symbols |-> 0] /\ unread = [s \in Symbols |-> 0]
    /\ conn = [s \in Symbols |-> [c \in Conns |-> "free"]]
    /\ lines = [s \in Symbols |-> [c \in Conns |-> <<>>]]
    /\ listening = FALSE
    /\ lastSeq = [s \in Symbols |-> NoSeq]
    /\ lastIn = [s \in Symbols |-> NoFrame]
    /\ fed = {}
    /\ received = 0 /\ gaps = 0 /\ dropped = 0 /\ junk = 0 /\ settled = 0
    /\ subscribers = {}
    /\ queue = [q \in Subscribers |-> <<>>]
    /\ taken = [q \in Subscribers |-> 0]
    /\ reads = [q \in Subscribers |-> 0]
    /\ joined = [q \in Subscribers |-> 0]
    /\ restarts = 0
-----------------------------------------------------------------------------
(* The EA.                                                                 *)

(* SocketClose: unread lines stay readable unless the listener is gone. *)
AfterClose(state) == IF state = "open" THEN "eof" ELSE "free"

Disconnected(s) ==
    IF socket[s] = NoConn THEN conn[s]
    ELSE [conn[s] EXCEPT ![socket[s]] = AfterClose(@)]

Disconnect(s) ==
    /\ conn' = [conn EXCEPT ![s] = Disconnected(s)]
    /\ socket' = [socket EXCEPT ![s] = NoConn]
    /\ UNCHANGED lines

(* Connect closes what is there, then connects or is left without a socket. *)
Connect(s) ==
    \/ Disconnect(s)
    \/ \E c \in Conns :
         /\ listening
         /\ Disconnected(s)[c] = "free"
         /\ conn' = [conn EXCEPT ![s] = [Disconnected(s) EXCEPT ![c] = "open"]]
         /\ socket' = [socket EXCEPT ![s] = c]
         /\ UNCHANGED lines

OnInit(s) ==
    /\ run[s] = 0
    /\ runs[s] < MaxRuns
    /\ runs' = [runs EXCEPT ![s] = @ + 1]
    /\ run' = [run EXCEPT ![s] = runs[s] + 1]
    /\ sequence' = [sequence EXCEPT ![s] = 0]
    /\ Connect(s)
    /\ UNCHANGED <<tick, unread, feedVars>>

OnDeinit(s) ==
    /\ run[s] # 0
    /\ run' = [run EXCEPT ![s] = 0]
    /\ Disconnect(s)
    /\ UNCHANGED <<runs, sequence, tick, unread, feedVars>>

(* SocketIsConnected may still answer TRUE for a dead connection. *)
SocketIsConnected(s) ==
    IF socket[s] = NoConn THEN {FALSE}
    ELSE IF conn[s][socket[s]] = "open" THEN {TRUE} ELSE BOOLEAN

(* Fault: the timer looks at the handle alone. *)
OnTimerHandleOnly(s) ==
    /\ run[s] # 0
    /\ socket[s] = NoConn
    /\ Connect(s)
    /\ UNCHANGED <<run, runs, sequence, tick, unread, feedVars>>

OnTimer(s) ==
    /\ run[s] # 0
    /\ FALSE \in SocketIsConnected(s)
    /\ Connect(s)
    /\ UNCHANGED <<run, runs, sequence, tick, unread, feedVars>>

(* The counter advances before anything can fail. *)
Stamp(s) == sequence' = [sequence EXCEPT ![s] = @ + 1]

(* SocketSend took the whole line; a dead connection swallows it. *)
Sent(s) ==
    /\ TRUE \in SocketIsConnected(s)
    /\ lines' = IF conn[s][socket[s]] = "open"
                THEN [lines EXCEPT ![s][socket[s]] =
                        Append(@, [seq |-> sequence'[s], run |-> run[s],
                                   tick |-> tick[s] + 1])]
                ELSE lines
    /\ UNCHANGED <<conn, socket>>

NotConnected(s) ==
    /\ FALSE \in SocketIsConnected(s)
    /\ UNCHANGED <<connVars, socket>>

ShortWrite(s) ==
    /\ TRUE \in SocketIsConnected(s)
    /\ Disconnect(s)

Ticked(s) == tick[s] + unread[s] < MaxTicks

(* SymbolInfoTick answers nothing: OnTick returns before it counts. *)
NotGiven(s) ==
    /\ unread' = [unread EXCEPT ![s] = @ + 1]
    /\ UNCHANGED <<tick, sequence, connVars, socket>>

(* Fault: the counter advances on success only. *)
GivenCountingSent(s) ==
    /\ tick' = [tick EXCEPT ![s] = @ + 1]
    /\ \/ Stamp(s) /\ Sent(s)
       \/ UNCHANGED sequence /\ (NotConnected(s) \/ ShortWrite(s))
    /\ UNCHANGED unread

Given(s) ==
    /\ tick' = [tick EXCEPT ![s] = @ + 1]
    /\ Stamp(s)
    /\ Sent(s) \/ NotConnected(s) \/ ShortWrite(s)
    /\ UNCHANGED unread

OnTick(s) ==
    /\ run[s] # 0 /\ Ticked(s)
    /\ NotGiven(s) \/ Given(s)
    /\ UNCHANGED <<run, runs, feedVars>>

(* A tick while no EA is on the chart. *)
UnseenTick(s) ==
    /\ run[s] = 0
    /\ Ticked(s)
    /\ tick' = [tick EXCEPT ![s] = @ + 1]
    /\ UNCHANGED <<run, runs, sequence, socket, unread, connVars, feedVars>>
-----------------------------------------------------------------------------
(* The listener.                                                           *)

Start ==
    /\ ~listening
    /\ listening' = TRUE
    /\ UNCHANGED <<eaVars, connVars, symbolVars, countVars, queueVars, restarts>>

(* The process exits, by Feed.stop or by dying: connections break and a new *)
(* Feed starts empty.                                                       *)
Stop ==
    /\ listening
    /\ restarts < MaxRestarts
    /\ restarts' = restarts + 1
    /\ listening' = FALSE
    /\ conn' = [s \in Symbols |-> [c \in Conns |->
                  IF socket[s] = c THEN "dead" ELSE "free"]]
    /\ lines' = [s \in Symbols |-> [c \in Conns |-> <<>>]]
    /\ lastSeq' = [s \in Symbols |-> NoSeq]
    /\ lastIn' = [s \in Symbols |-> NoFrame]
    /\ fed' = {}
    /\ received' = 0 /\ gaps' = 0 /\ dropped' = 0 /\ settled' = 0
    /\ subscribers' = {}
    /\ queue' = [q \in Subscribers |-> <<>>]
    /\ taken' = [q \in Subscribers |-> 0]
    /\ reads' = [q \in Subscribers |-> 0]
    /\ joined' = [q \in Subscribers |-> 0]
    /\ UNCHANGED <<eaVars, junk>>

(* _note_gap: what is said about a frame, given the previous number. *)
IsReset(previous, current) == previous # NoSeq /\ current <= previous
Missed(previous, current) ==
    IF previous # NoSeq /\ current > previous + 1 THEN current - previous - 1 ELSE 0

(* Faults: one frame too many; the newest is dropped; drops go uncounted. *)
FullOneLate(q) == Len(queue[q]) > Backlog
PutUnlessFull(q, frame) ==
    IF Len(queue[q]) >= Backlog THEN queue[q] ELSE Append(queue[q], frame)
OverflowingUnseen == {}

(* _publish: oldest out, newest in. *)
Full(q) == Len(queue[q]) >= Backlog
Put(q, frame) == Append(IF Full(q) THEN Tail(queue[q]) ELSE queue[q], frame)
Overflowing == {q \in subscribers : Full(q)}

(* A line as it leaves _note_gap. *)
Noted(s, line) ==
    [seq |-> line.seq, run |-> line.run, tick |-> line.tick,
     nth |-> received + 1,
     missed |-> Missed(lastSeq[s], line.seq),
     reset |-> IsReset(lastSeq[s], line.seq)]

Accept(s, line) ==
    LET frame == Noted(s, line)
    IN  /\ received' = received + 1
        /\ fed' = fed \cup {s}
        /\ lastSeq' = [lastSeq EXCEPT ![s] = line.seq]
        /\ lastIn' = [lastIn EXCEPT ![s] = frame]
        /\ gaps' = gaps + frame.missed
        /\ dropped' = dropped + Cardinality(Overflowing)
        /\ queue' = [q \in Subscribers |->
                        IF q \in subscribers THEN Put(q, frame) ELSE queue[q]]

(* _serve reads one line of one connection. *)
Serve(s, c) ==
    /\ lines[s][c] # <<>>
    /\ Accept(s, Head(lines[s][c]))
    /\ lines' = [lines EXCEPT ![s][c] = Tail(@)]
    /\ UNCHANGED <<eaVars, conn, listening, junk, settled, subscribers, taken,
                   reads, joined, restarts>>

(* _serve meets the end of a connection the EA closed. *)
ServeEnd(s, c) ==
    /\ conn[s][c] = "eof"
    /\ lines[s][c] = <<>>
    /\ conn' = [conn EXCEPT ![s][c] = "free"]
    /\ UNCHANGED <<eaVars, lines, feedVars>>

(* _accept on a line that is no JSON, no object or names no symbol. *)
AcceptJunk ==
    /\ listening
    /\ junk < MaxJunk
    /\ junk' = junk + 1
    /\ dropped' = dropped + 1
    /\ settled' = settled + 1
    /\ UNCHANGED <<eaVars, connVars, listening, symbolVars, received, gaps,
                   queueVars, restarts>>

(* STALE_AFTER passes without a frame of s. *)
GoStale(s) ==
    /\ s \in fed
    /\ fed' = fed \ {s}
    /\ UNCHANGED <<eaVars, connVars, listening, lastSeq, lastIn, countVars,
                   queueVars, restarts>>
-----------------------------------------------------------------------------
(* The consumers.                                                          *)

(* Accepted frames q neither read nor still holds. *)
Lost(q) == received - joined[q] - reads[q] - Len(queue[q])

Subscribe(q) ==
    /\ listening
    /\ q \notin subscribers
    /\ subscribers' = subscribers \cup {q}
    /\ joined' = [joined EXCEPT ![q] = received]
    /\ taken' = [taken EXCEPT ![q] = received]
    /\ UNCHANGED <<eaVars, connVars, listening, symbolVars, countVars, queue,
                   reads, restarts>>

Unsubscribe(q) ==
    /\ q \in subscribers
    /\ subscribers' = subscribers \ {q}
    /\ settled' = settled + Lost(q)
    /\ queue' = [queue EXCEPT ![q] = <<>>]
    /\ taken' = [taken EXCEPT ![q] = 0]
    /\ reads' = [reads EXCEPT ![q] = 0]
    /\ joined' = [joined EXCEPT ![q] = 0]
    /\ UNCHANGED <<eaVars, connVars, listening, symbolVars, received, gaps,
                   dropped, junk, restarts>>

(* await queue.get() in _pump_pushed. *)
Take(q) ==
    /\ q \in subscribers
    /\ queue[q] # <<>>
    /\ taken' = [taken EXCEPT ![q] = Head(queue[q]).nth]
    /\ reads' = [reads EXCEPT ![q] = @ + 1]
    /\ queue' = [queue EXCEPT ![q] = Tail(@)]
    /\ UNCHANGED <<eaVars, connVars, listening, symbolVars, countVars,
                   subscribers, joined, restarts>>
-----------------------------------------------------------------------------
EANext(s) ==
    OnInit(s) \/ OnDeinit(s) \/ OnTimer(s) \/ OnTick(s) \/ UnseenTick(s)

ServeNext(s) ==
    GoStale(s) \/ \E c \in Conns : Serve(s, c) \/ ServeEnd(s, c)

ConsumerNext(q) == Subscribe(q) \/ Unsubscribe(q) \/ Take(q)

Next ==
    \/ \E s \in Symbols : EANext(s) \/ ServeNext(s)
    \/ \E q \in Subscribers : ConsumerNext(q)
    \/ Start \/ Stop \/ AcceptJunk

Spec == Init /\ [][Next]_vars

(* The event loop keeps serving ready sockets and waiting consumers, and a *)
(* timer that fires every RetryMs meets a loopback listener that is up.    *)
FairSpec ==
    /\ Spec
    /\ \A s \in Symbols : SF_vars(OnTimer(s) /\ socket'[s] # NoConn)
    /\ \A s \in Symbols, c \in Conns : WF_vars(Serve(s, c)) /\ WF_vars(ServeEnd(s, c))
    /\ \A q \in Subscribers : WF_vars(Take(q))
-----------------------------------------------------------------------------
(* Properties.                                                             *)

TypeOK ==
    /\ run \in [Symbols -> Nat] /\ runs \in [Symbols -> Nat]
    /\ sequence \in [Symbols -> Nat]
    /\ tick \in [Symbols -> Nat] /\ unread \in [Symbols -> Nat]
    /\ socket \in [Symbols -> Conns \cup {NoConn}]
    /\ conn \in [Symbols -> [Conns -> ConnStates]]
    /\ lines \in [Symbols -> [Conns -> Seq(Line)]]
    /\ listening \in BOOLEAN
    /\ lastSeq \in [Symbols -> Nat \cup {NoSeq}]
    /\ lastIn \in [Symbols -> Frame]
    /\ fed \subseteq Symbols
    /\ received \in Nat /\ gaps \in Nat /\ dropped \in Nat
    /\ junk \in Nat /\ settled \in Int /\ restarts \in Nat
    /\ subscribers \subseteq Subscribers
    /\ queue \in [Subscribers -> Seq(Frame)]
    /\ taken \in [Subscribers -> Nat]
    /\ reads \in [Subscribers -> Nat]
    /\ joined \in [Subscribers -> Nat]

(* A subscriber's queue is exactly the newest frames it has not read, in   *)
(* the order they were accepted: what overflowed was the oldest, and only  *)
(* of a subscriber more than Backlog frames behind ("It drops the oldest   *)
(* frame, never the newest", feed.py).                                     *)
QueueIsNewestUnread ==
    \A q \in Subscribers :
        /\ Len(queue[q]) <= Backlog
        /\ taken[q] + Len(queue[q]) <= received
        /\ \A i \in 1..Len(queue[q]) :
               queue[q][i].nth = received - Len(queue[q]) + i
        /\ q \in subscribers =>
              \/ joined[q] + reads[q] + Len(queue[q]) = received
              \/ /\ joined[q] + reads[q] + Len(queue[q]) < received
                 /\ joined[q] + Backlog < received

(* `dropped` is the lines refused plus every frame some subscriber neither *)
(* read nor still holds, those of departed subscribers included.           *)
DropsAreCounted ==
    dropped = settled + MapThenSumSet(Lost, subscribers)

(* Within one run of the EA, a frame says exactly how many ticks the       *)
(* terminal gave between the one accepted last and it, or that it comes    *)
(* out of order: broken connections, short writes and two connections read *)
(* at once included (_note_gap with OnTick's counter).  A tick the         *)
(* terminal did not give is no loss to the counter, nor to a frame.        *)
Between(frame, last) == frame.tick - last.tick - 1
TrueTo(frame, last) ==
    IF frame.tick > last.tick THEN frame.missed = Between(frame, last) /\ ~frame.reset
    ELSE frame.reset /\ frame.missed = 0
NamedWithinRun ==
    [][\A s \in Symbols :
         lastIn'[s] # lastIn[s] /\ lastIn[s].run # 0 /\ lastIn'[s].run = lastIn[s].run
           => TrueTo(lastIn'[s], lastIn[s])]_vars

Connected(s) == socket[s] # NoConn /\ conn[s][socket[s]] = "open"

(* An EA that lost the listener is connected again while the listener is   *)
(* up: neither a handle that only looks alive nor unread old connections   *)
(* keep it out (OnTimer, Connect, _serve).                                 *)
Reconnects ==
    \A s \in Symbols :
        (run[s] # 0 /\ listening) ~> (Connected(s) \/ run[s] = 0 \/ ~listening)

(* A subscriber that stays catches up with every line sent: the last frame *)
(* it reads is the newest accepted, and no connection holds more.          *)
CatchesUp ==
    \A q \in Subscribers :
        (q \in subscribers) ~>
            \/ q \notin subscribers
            \/ /\ taken[q] = received
               /\ \A s \in Symbols, c \in Conns : lines[s][c] = <<>>

(* The fan-out keeps its promise to every subscriber: frames are read in   *)
(* the order accepted, and only a subscriber Backlog behind loses any.     *)
Upcoming == [q \in Subscribers |->
                IF q \in subscribers THEN received - Len(queue[q]) + 1 ELSE 1]
Promise == INSTANCE FanOut WITH
    accepted <- received, live <- subscribers, got <- taken, upcoming <- Upcoming
KeepsPromise == Promise!Spec
=============================================================================
