--------------------------- MODULE TickFeed_proofs ---------------------------
(***************************************************************************)
(* Theorems about TickFeed for every set of symbols, connections and       *)
(* subscribers, every queue size and every bound.                          *)
(***************************************************************************)
EXTENDS TickFeed, TLAPS, FiniteSetTheorems

(* Closing and opening connections keeps the connection table well typed.  *)
LEMMA ConnectTypeOK ==
    ASSUME TypeOK, NEW s \in Symbols, Connect(s)
    PROVE  /\ conn' \in [Symbols -> [Conns -> ConnStates]]
           /\ socket' \in [Symbols -> Conns \cup {NoConn}]
           /\ lines' = lines
<1>1. Disconnected(s) \in [Conns -> ConnStates]
  <2>1. conn[s] \in [Conns -> ConnStates]
    BY DEF TypeOK
  <2>2. AfterClose(conn[s][socket[s]]) \in ConnStates
    BY DEF AfterClose, ConnStates
  <2>3. QED
    BY <2>1, <2>2 DEF Disconnected
<1>2. CASE Disconnect(s)
  BY <1>1, <1>2 DEF TypeOK, Disconnect
<1>3. ASSUME NEW c \in Conns,
             conn' = [conn EXCEPT ![s] = [Disconnected(s) EXCEPT ![c] = "open"]],
             socket' = [socket EXCEPT ![s] = c],
             lines' = lines
      PROVE  /\ conn' \in [Symbols -> [Conns -> ConnStates]]
             /\ socket' \in [Symbols -> Conns \cup {NoConn}]
             /\ lines' = lines
  <2>1. [Disconnected(s) EXCEPT ![c] = "open"] \in [Conns -> ConnStates]
    BY <1>1 DEF ConnStates
  <2>2. QED
    BY <1>3, <2>1 DEF TypeOK
<1>4. QED
  BY <1>2, <1>3 DEF Connect

LEMMA DisconnectTypeOK ==
    ASSUME TypeOK, NEW s \in Symbols, Disconnect(s)
    PROVE  /\ conn' \in [Symbols -> [Conns -> ConnStates]]
           /\ socket' \in [Symbols -> Conns \cup {NoConn}]
           /\ lines' = lines
  BY ConnectTypeOK DEF Connect

LEMMA BacklogPositive == Backlog \in Nat /\ Backlog >= 1
  BY FeedAssumption

(* The frame that Accept builds and the queues it leaves are well typed.   *)
LEMMA NotedType ==
    ASSUME TypeOK, NEW s \in Symbols, NEW line \in Line
    PROVE  Noted(s, line) \in Frame /\ Noted(s, line).nth = received + 1
<1>1. lastSeq[s] \in Nat \cup {-1} /\ line.seq \in Nat
  BY DEF TypeOK, Line, NoSeq
<1>2. Missed(lastSeq[s], line.seq) \in Nat
  BY <1>1 DEF Missed, NoSeq
<1>3. IsReset(lastSeq[s], line.seq) \in BOOLEAN
  BY DEF IsReset
<1>4. QED
  BY <1>2, <1>3 DEF Noted, Frame, Line, TypeOK

LEMMA AcceptTypeOK ==
    ASSUME TypeOK, NEW s \in Symbols, NEW line \in Line, Accept(s, line)
    PROVE  /\ received' \in Nat /\ gaps' \in Nat /\ dropped' \in Nat
           /\ fed' \subseteq Symbols
           /\ lastSeq' \in [Symbols -> Nat \cup {NoSeq}]
           /\ lastIn' \in [Symbols -> Frame]
           /\ queue' \in [Subscribers -> Seq(Frame)]
<1> DEFINE frame == Noted(s, line)
<1>1. frame \in Frame
  BY NotedType
<1> HIDE DEF frame
<1>2. Cardinality(Overflowing) \in Nat
  <2>1. IsFiniteSet(Overflowing)
    <3>1. Overflowing \subseteq Subscribers
      BY DEF Overflowing, TypeOK
    <3>2. QED
      BY <3>1, FS_Subset, FeedAssumption
  <2>2. QED
    BY <2>1, FS_CardinalityType
<1>3. ASSUME NEW q \in Subscribers
      PROVE  Put(q, frame) \in Seq(Frame)
  <2>1. queue[q] \in Seq(Frame)
    BY DEF TypeOK
  <2>2. CASE Full(q)
    <3>1. queue[q] # <<>>
      BY <2>1, <2>2, BacklogPositive DEF Full
    <3>2. QED
      BY <1>1, <2>1, <2>2, <3>1 DEF Put
  <2>3. CASE ~Full(q)
    BY <1>1, <2>1, <2>3 DEF Put
  <2>4. QED
    BY <2>2, <2>3
<1>4. queue' \in [Subscribers -> Seq(Frame)]
  BY <1>3 DEF Accept, TypeOK, frame
<1>5. gaps' \in Nat
  <2>1. gaps' = gaps + frame.missed /\ frame.missed \in Nat
    BY <1>1 DEF Accept, Frame, frame
  <2>2. QED
    BY <2>1 DEF TypeOK
<1>6. lastIn' \in [Symbols -> Frame]
  BY <1>1 DEF Accept, TypeOK, frame
<1>7. lastSeq' \in [Symbols -> Nat \cup {NoSeq}] /\ fed' \subseteq Symbols
  BY DEF Accept, TypeOK, Line
<1>8. received' \in Nat /\ dropped' \in Nat
  BY <1>2 DEF Accept, TypeOK
<1>9. QED
  BY <1>4, <1>5, <1>6, <1>7, <1>8

LEMMA TypeOKStep == TypeOK /\ [Next]_vars => TypeOK'
<1> SUFFICES ASSUME TypeOK, [Next]_vars
             PROVE  TypeOK'
  OBVIOUS
<1> USE DEF eaVars, connVars, countVars, symbolVars, queueVars, feedVars
<1>1. ASSUME NEW s \in Symbols, OnInit(s)
      PROVE  TypeOK'
  <2>1. run' \in [Symbols -> Nat] /\ runs' \in [Symbols -> Nat]
        /\ sequence' \in [Symbols -> Nat]
    BY <1>1 DEF TypeOK, OnInit
  <2>2. Connect(s)
    BY <1>1 DEF OnInit
  <2>3. QED
    BY <1>1, <2>1, <2>2, ConnectTypeOK DEF TypeOK, OnInit
<1>2. ASSUME NEW s \in Symbols, OnDeinit(s)
      PROVE  TypeOK'
  BY <1>2, DisconnectTypeOK DEF TypeOK, OnDeinit
<1>3. ASSUME NEW s \in Symbols, OnTimer(s)
      PROVE  TypeOK'
  BY <1>3, ConnectTypeOK DEF TypeOK, OnTimer
<1>4. ASSUME NEW s \in Symbols, OnTick(s)
      PROVE  TypeOK'
  <2>1. /\ sequence' \in [Symbols -> Nat] /\ tick' \in [Symbols -> Nat]
        /\ unread' \in [Symbols -> Nat]
    <3>1. CASE Given(s)
      <4>1. /\ sequence' = [sequence EXCEPT ![s] = @ + 1]
            /\ tick' = [tick EXCEPT ![s] = @ + 1] /\ unread' = unread
        BY <3>1 DEF Given, Stamp
      <4>2. QED
        BY <4>1 DEF TypeOK
    <3>2. CASE NotGiven(s)
      <4>1. /\ sequence' = sequence /\ tick' = tick
            /\ unread' = [unread EXCEPT ![s] = @ + 1]
        BY <3>2 DEF NotGiven
      <4>2. QED
        BY <4>1 DEF TypeOK
    <3>3. QED
      BY <1>4, <3>1, <3>2 DEF OnTick
  <2>2. CASE Given(s) /\ Sent(s)
    <3>1. [seq |-> sequence'[s], run |-> run[s], tick |-> tick[s] + 1] \in Line
      BY <2>1 DEF TypeOK, Line
    <3>2. CASE conn[s][socket[s]] = "open" /\ socket[s] # NoConn
      <4>1. socket[s] \in Conns /\ lines[s][socket[s]] \in Seq(Line)
        BY <3>2 DEF TypeOK
      <4>2. lines' \in [Symbols -> [Conns -> Seq(Line)]]
        BY <2>2, <3>1, <3>2, <4>1 DEF Sent, TypeOK
      <4>3. QED
        BY <1>4, <2>1, <2>2, <4>2 DEF OnTick, Given, NotGiven, Sent, TypeOK
    <3>3. CASE ~(conn[s][socket[s]] = "open")
      BY <1>4, <2>1, <2>2, <3>3 DEF OnTick, Given, NotGiven, Sent, TypeOK
    <3>4. socket[s] # NoConn
      BY <2>2 DEF Sent, SocketIsConnected
    <3>5. QED
      BY <3>2, <3>3, <3>4
  <2>3. CASE Given(s) /\ NotConnected(s)
    BY <1>4, <2>1, <2>3 DEF OnTick, Given, NotConnected, TypeOK
  <2>4. CASE Given(s) /\ ShortWrite(s)
    BY <1>4, <2>1, <2>4, DisconnectTypeOK DEF OnTick, Given, NotGiven, ShortWrite, TypeOK
  <2>5. CASE NotGiven(s)
    BY <1>4, <2>1, <2>5 DEF OnTick, NotGiven, TypeOK
  <2>6. QED
    BY <1>4, <2>2, <2>3, <2>4, <2>5 DEF OnTick, Given
<1>5. ASSUME NEW s \in Symbols, UnseenTick(s)
      PROVE  TypeOK'
  BY <1>5 DEF TypeOK, UnseenTick
<1>6. ASSUME NEW s \in Symbols, GoStale(s)
      PROVE  TypeOK'
  BY <1>6 DEF TypeOK, GoStale
<1>7. ASSUME NEW s \in Symbols, NEW c \in Conns, Serve(s, c)
      PROVE  TypeOK'
  <2>1. lines[s][c] \in Seq(Line) /\ lines[s][c] # <<>>
    BY <1>7 DEF TypeOK, Serve
  <2>2. Head(lines[s][c]) \in Line /\ Tail(lines[s][c]) \in Seq(Line)
    BY <2>1
  <2>3. lines' \in [Symbols -> [Conns -> Seq(Line)]]
    BY <1>7, <2>2 DEF TypeOK, Serve
  <2>4. QED
    BY <1>7, <2>2, <2>3, AcceptTypeOK DEF TypeOK, Serve
<1>8. ASSUME NEW s \in Symbols, NEW c \in Conns, ServeEnd(s, c)
      PROVE  TypeOK'
  BY <1>8 DEF TypeOK, ServeEnd, ConnStates
<1>9. ASSUME NEW q \in Subscribers, Subscribe(q)
      PROVE  TypeOK'
  BY <1>9 DEF TypeOK, Subscribe
<1>10. ASSUME NEW q \in Subscribers, Take(q)
       PROVE  TypeOK'
  <2>1. queue[q] \in Seq(Frame) /\ queue[q] # <<>>
    <3>1. queue[q] \in Seq(Frame)
      BY DEF TypeOK
    <3>2. QED
      BY <1>10, <3>1 DEF Take
  <2>2. Head(queue[q]).nth \in Nat /\ Tail(queue[q]) \in Seq(Frame)
    <3>1. Head(queue[q]) \in Frame /\ Tail(queue[q]) \in Seq(Frame)
      BY <2>1
    <3>2. QED
      BY <3>1 DEF Frame
  <2>3. QED
    BY <1>10, <2>2 DEF TypeOK, Take
<1>11. CASE Start
  BY <1>11 DEF TypeOK, Start
<1>12. CASE Stop
  <2>1. NoFrame \in Frame
    BY DEF NoFrame, Frame
  <2>2. lines' \in [Symbols -> [Conns -> Seq(Line)]]
    BY <1>12 DEF Stop
  <2>3. queue' \in [Subscribers -> Seq(Frame)]
    BY <1>12 DEF Stop
  <2>4. conn' \in [Symbols -> [Conns -> ConnStates]]
    BY <1>12 DEF Stop, ConnStates
  <2>5. lastIn' \in [Symbols -> Frame] /\ lastSeq' \in [Symbols -> Nat \cup {NoSeq}]
    BY <1>12, <2>1 DEF Stop
  <2>6. taken' \in [Subscribers -> Nat] /\ reads' \in [Subscribers -> Nat]
        /\ joined' \in [Subscribers -> Nat]
    BY <1>12 DEF Stop
  <2>7. /\ listening' \in BOOLEAN /\ fed' \subseteq Symbols
        /\ subscribers' \subseteq Subscribers
        /\ received' \in Nat /\ gaps' \in Nat /\ dropped' \in Nat
        /\ junk' \in Nat /\ settled' \in Int /\ restarts' \in Nat
    <3>1. /\ listening' = FALSE /\ fed' = {} /\ subscribers' = {}
          /\ received' = 0 /\ gaps' = 0 /\ dropped' = 0
          /\ junk' = junk /\ settled' = 0 /\ restarts' = restarts + 1
      BY <1>12 DEF Stop
    <3>2. junk \in Nat /\ restarts \in Nat
      BY DEF TypeOK
    <3>3. fed' \subseteq Symbols /\ subscribers' \subseteq Subscribers
      BY <3>1
    <3>4. received' \in Nat /\ gaps' \in Nat /\ dropped' \in Nat
          /\ junk' \in Nat /\ settled' \in Int /\ restarts' \in Nat
      BY <3>1, <3>2
    <3>5. QED
      BY <3>1, <3>3, <3>4
  <2>8. /\ run' \in [Symbols -> Nat] /\ runs' \in [Symbols -> Nat]
        /\ sequence' \in [Symbols -> Nat]
        /\ tick' \in [Symbols -> Nat] /\ unread' \in [Symbols -> Nat]
        /\ socket' \in [Symbols -> Conns \cup {NoConn}]
    BY <1>12 DEF TypeOK, Stop
  <2>9. QED
    BY <2>2, <2>3, <2>4, <2>5, <2>6, <2>7, <2>8 DEF TypeOK
<1>13. CASE AcceptJunk
  BY <1>13 DEF TypeOK, AcceptJunk
<1>14. CASE UNCHANGED vars
  BY <1>14 DEF TypeOK, vars
<1>15. ASSUME NEW q \in Subscribers, Unsubscribe(q)
       PROVE  TypeOK'
  <2>1. queue' \in [Subscribers -> Seq(Frame)]
    BY <1>15 DEF TypeOK, Unsubscribe
  <2>2. settled' \in Int
    <3>1. queue[q] \in Seq(Frame)
      BY DEF TypeOK
    <3>2. Lost(q) \in Int
      BY <3>1 DEF TypeOK, Lost
    <3>3. QED
      BY <1>15, <3>2 DEF TypeOK, Unsubscribe
  <2>3. QED
    BY <1>15, <2>1, <2>2 DEF TypeOK, Unsubscribe
<1>16. QED
  BY <1>1, <1>2, <1>3, <1>4, <1>5, <1>6, <1>7, <1>8, <1>9, <1>10, <1>11,
     <1>12, <1>13, <1>14, <1>15 DEF Next, EANext, ServeNext, ConsumerNext

LEMMA TypeOKInit == Init => TypeOK
<1> SUFFICES ASSUME Init
             PROVE  TypeOK
  OBVIOUS
<1>1. NoFrame \in Frame
  BY DEF NoFrame, Frame
<1>2. conn \in [Symbols -> [Conns -> ConnStates]]
  BY DEF Init, ConnStates
<1>3. lines \in [Symbols -> [Conns -> Seq(Line)]]
  BY DEF Init
<1>4. queue \in [Subscribers -> Seq(Frame)]
  BY DEF Init
<1>5. /\ run \in [Symbols -> Nat] /\ runs \in [Symbols -> Nat]
      /\ sequence \in [Symbols -> Nat]
      /\ tick \in [Symbols -> Nat] /\ unread \in [Symbols -> Nat]
      /\ socket \in [Symbols -> Conns \cup {NoConn}]
  BY DEF Init
<1>6. /\ lastSeq \in [Symbols -> Nat \cup {NoSeq}]
      /\ lastIn \in [Symbols -> Frame]
  BY <1>1 DEF Init
<1>7. /\ taken \in [Subscribers -> Nat] /\ reads \in [Subscribers -> Nat]
      /\ joined \in [Subscribers -> Nat]
  BY DEF Init
<1>8. /\ listening \in BOOLEAN /\ fed \subseteq Symbols
      /\ subscribers \subseteq Subscribers
      /\ received \in Nat /\ gaps \in Nat /\ dropped \in Nat
      /\ junk \in Nat /\ settled \in Int /\ restarts \in Nat
  <2>1. /\ listening = FALSE /\ fed = {} /\ subscribers = {}
        /\ received = 0 /\ gaps = 0 /\ dropped = 0
        /\ junk = 0 /\ settled = 0 /\ restarts = 0
    BY DEF Init
  <2>2. fed \subseteq Symbols /\ subscribers \subseteq Subscribers
    BY <2>1
  <2>3. received \in Nat /\ gaps \in Nat /\ dropped \in Nat
        /\ junk \in Nat /\ settled \in Int /\ restarts \in Nat
    BY <2>1
  <2>4. QED
    BY <2>1, <2>2, <2>3
<1>9. QED
  BY <1>2, <1>3, <1>4, <1>5, <1>6, <1>7, <1>8 DEF TypeOK

(* Every variable keeps its type, in every reachable state.                *)
THEOREM TypeCorrect == Spec => []TypeOK
  BY TypeOKInit, TypeOKStep, PTL DEF Spec
-----------------------------------------------------------------------------
(* The fan-out.                                                            *)

(* Queue buffer holds the newest Len(buffer) of n accepted frames, in      *)
(* order.                                                                  *)
Newest(buffer, n) ==
    /\ Len(buffer) <= Backlog
    /\ \A i \in 1..Len(buffer) : buffer[i].nth = n - Len(buffer) + i

(* Putting the next frame, the oldest out when full, keeps that.           *)
LEMMA PutNewest ==
    ASSUME NEW q \in Subscribers, queue[q] \in Seq(Frame),
           NEW n \in Nat, Newest(queue[q], n),
           NEW frame \in Frame, frame.nth = n + 1
    PROVE  /\ Newest(Put(q, frame), n + 1)
           /\ Full(q) => Len(Put(q, frame)) = Len(queue[q])
           /\ ~Full(q) => Len(Put(q, frame)) = Len(queue[q]) + 1
           /\ Full(q) <=> Len(queue[q]) = Backlog
<1> DEFINE b == queue[q]
<1>1. Backlog \in Nat /\ Backlog >= 1 /\ Len(b) \in Nat /\ Len(b) <= Backlog
  BY FeedAssumption DEF Newest
<1>2. Full(q) <=> Len(b) = Backlog
  BY <1>1 DEF Full
<1>3. CASE Full(q)
  <2>1. b # <<>> /\ Tail(b) \in Seq(Frame) /\ Len(Tail(b)) = Len(b) - 1
    BY <1>1, <1>2, <1>3
  <2>2. \A i \in 1..Len(Tail(b)) : Tail(b)[i] = b[i + 1]
    BY <2>1
  <2>3. Put(q, frame) = Append(Tail(b), frame)
    BY <1>3 DEF Put
  <2>4. Len(Append(Tail(b), frame)) = Len(b)
    BY <2>1
  <2>5. \A i \in 1..Len(b) : Append(Tail(b), frame)[i].nth = n + 1 - Len(b) + i
    <3> SUFFICES ASSUME NEW i \in 1..Len(b)
                 PROVE  Append(Tail(b), frame)[i].nth = n + 1 - Len(b) + i
      OBVIOUS
    <3>1. CASE i = Len(b)
      <4>1. Append(Tail(b), frame)[i] = frame
        BY <2>1, <3>1
      <4>2. QED
        BY <3>1, <4>1, <1>1
    <3>2. CASE i # Len(b)
      <4>1. i \in 1..Len(Tail(b)) /\ i + 1 \in 1..Len(b)
        BY <1>1, <2>1, <3>2
      <4>2. Append(Tail(b), frame)[i] = b[i + 1]
        BY <2>1, <2>2, <4>1
      <4>3. b[i + 1].nth = n - Len(b) + (i + 1)
        BY <4>1 DEF Newest
      <4>4. n - Len(b) + (i + 1) = n + 1 - Len(b) + i
        BY <1>1
      <4>5. QED
        BY <4>2, <4>3, <4>4
    <3>3. QED
      BY <3>1, <3>2
  <2>6. Newest(Append(Tail(b), frame), n + 1)
    <3> DEFINE a == Append(Tail(b), frame)
    <3>1. \A i \in 1..Len(a) : a[i].nth = n + 1 - Len(a) + i
      BY <2>4, <2>5
    <3> HIDE DEF a
    <3>2. Len(a) <= Backlog
      BY <1>1, <2>4 DEF a
    <3>3. Newest(a, n + 1)
      BY <3>1, <3>2 DEF Newest
    <3>4. QED
      BY <3>3 DEF a
  <2>7. QED
    BY <1>2, <1>3, <2>3, <2>4, <2>6
<1>4. CASE ~Full(q)
  <2>1. Put(q, frame) = Append(b, frame) /\ Len(Append(b, frame)) = Len(b) + 1
    BY <1>4 DEF Put
  <2>2. \A i \in 1..Len(b) + 1 :
            Append(b, frame)[i].nth = n + 1 - (Len(b) + 1) + i
    <3> SUFFICES ASSUME NEW i \in 1..Len(b) + 1
                 PROVE  Append(b, frame)[i].nth = n + 1 - (Len(b) + 1) + i
      OBVIOUS
    <3>1. CASE i = Len(b) + 1
      <4>1. Append(b, frame)[i] = frame
        BY <3>1
      <4>2. QED
        BY <1>1, <3>1, <4>1
    <3>2. CASE i # Len(b) + 1
      <4>1. i \in 1..Len(b) /\ Append(b, frame)[i] = b[i]
        BY <1>1, <3>2
      <4>2. b[i].nth = n - Len(b) + i
        BY <4>1 DEF Newest
      <4>3. QED
        BY <1>1, <4>1, <4>2
    <3>3. QED
      BY <3>1, <3>2
  <2>3. Len(b) + 1 <= Backlog
    BY <1>1, <1>2, <1>4
  <2>4. Newest(Append(b, frame), n + 1)
    <3> DEFINE a == Append(b, frame)
    <3>1. Len(a) = Len(b) + 1
      BY <2>1
    <3>2. \A i \in 1..Len(a) : a[i].nth = n + 1 - Len(a) + i
      BY <2>2, <3>1
    <3>3. Len(a) <= Backlog
      BY <2>3, <3>1
    <3> HIDE DEF a
    <3>4. Newest(a, n + 1)
      BY <3>2, <3>3 DEF Newest
    <3>5. QED
      BY <3>4 DEF a
  <2>5. QED
    BY <1>2, <1>4, <2>1, <2>4
<1>5. QED
  BY <1>3, <1>4

(* The part of the inductive invariant that speaks of one subscriber:      *)
(* QueueIsNewestUnread for it, and nothing left behind once it has gone.   *)
QueueOK(q) ==
    /\ Newest(queue[q], received)
    /\ taken[q] + Len(queue[q]) <= received
    /\ q \in subscribers =>
          \/ joined[q] + reads[q] + Len(queue[q]) = received
          \/ /\ joined[q] + reads[q] + Len(queue[q]) < received
             /\ joined[q] + Backlog < received
    /\ q \notin subscribers =>
          queue[q] = <<>> /\ taken[q] = 0 /\ reads[q] = 0 /\ joined[q] = 0

QueueInv == TypeOK /\ \A q \in Subscribers : QueueOK(q)

LEMMA QueueInvInit == Init => \A q \in Subscribers : QueueOK(q)
<1> SUFFICES ASSUME Init, NEW q \in Subscribers
             PROVE  QueueOK(q)
  OBVIOUS
<1>1. /\ queue[q] = <<>> /\ taken[q] = 0 /\ reads[q] = 0 /\ joined[q] = 0
      /\ received = 0 /\ subscribers = {}
  BY DEF Init
<1>2. QED
  BY <1>1, BacklogPositive DEF QueueOK, Newest

LEMMA ServeQueue ==
    ASSUME QueueInv, NEW s \in Symbols, NEW c \in Conns, Serve(s, c),
           NEW q \in Subscribers
    PROVE  QueueOK(q)'
<1> DEFINE frame == Noted(s, Head(lines[s][c]))
<1>1. Head(lines[s][c]) \in Line
  <2>1. lines[s][c] \in Seq(Line) /\ lines[s][c] # <<>>
    BY DEF QueueInv, TypeOK, Serve
  <2>2. QED
    BY <2>1
<1>2. frame \in Frame /\ frame.nth = received + 1
  BY <1>1, NotedType DEF QueueInv
<1>3. /\ received' = received + 1
      /\ queue'[q] = IF q \in subscribers THEN Put(q, frame) ELSE queue[q]
      /\ UNCHANGED <<subscribers, taken, reads, joined>>
  BY DEF Serve, Accept
<1> HIDE DEF frame
<1>4. /\ queue[q] \in Seq(Frame) /\ received \in Nat /\ taken[q] \in Nat
      /\ reads[q] \in Nat /\ joined[q] \in Nat /\ QueueOK(q)
  BY DEF QueueInv, TypeOK
<1>5. Len(queue[q]) \in Nat
  BY <1>4
<1>6. CASE q \in subscribers
  <2>1. /\ Newest(Put(q, frame), received + 1)
        /\ Full(q) => Len(Put(q, frame)) = Len(queue[q])
        /\ ~Full(q) => Len(Put(q, frame)) = Len(queue[q]) + 1
        /\ Full(q) <=> Len(queue[q]) = Backlog
    BY <1>2, <1>4, PutNewest DEF QueueOK
  <2>2. PICK m \in Nat : m = Len(Put(q, frame))
    BY <1>5, <2>1
  <2>3. PICK l \in Nat : l = Len(queue[q])
    BY <1>5
  <2>4. (m = l /\ l = Backlog) \/ (m = l + 1 /\ l < Backlog)
    <3>1. Len(queue[q]) <= Backlog
      BY <1>4 DEF QueueOK, Newest
    <3>2. CASE Full(q)
      BY <2>1, <2>2, <2>3, <3>2
    <3>3. CASE ~Full(q)
      <4>1. m = l + 1
        BY <2>1, <2>2, <2>3, <3>3
      <4>2. l # Backlog /\ l <= Backlog
        BY <2>1, <2>3, <3>1, <3>3
      <4>3. QED
        BY <4>1, <4>2, BacklogPositive
    <3>4. QED
      BY <3>2, <3>3
  <2>5. /\ taken[q] + l <= received
        /\ \/ joined[q] + reads[q] + l = received
           \/ /\ joined[q] + reads[q] + l < received
              /\ joined[q] + Backlog < received
    BY <1>4, <1>6, <2>3 DEF QueueOK
  <2>6. /\ taken[q] + m <= received + 1
        /\ \/ joined[q] + reads[q] + m = received + 1
           \/ /\ joined[q] + reads[q] + m < received + 1
              /\ joined[q] + Backlog < received + 1
    <3>1. taken[q] \in Nat /\ joined[q] \in Nat /\ reads[q] \in Nat /\ received \in Nat
      BY <1>4
    <3>2. CASE m = l /\ l = Backlog
      BY <2>5, <3>1, <3>2, BacklogPositive
    <3>3. CASE m = l + 1 /\ l < Backlog
      BY <2>5, <3>1, <3>3, BacklogPositive
    <3>4. QED
      BY <2>4, <3>2, <3>3
  <2>7. /\ queue'[q] = Put(q, frame) /\ received' = received + 1
        /\ q \in subscribers' /\ taken'[q] = taken[q]
        /\ reads'[q] = reads[q] /\ joined'[q] = joined[q]
    BY <1>3, <1>6
  <2>8. Newest(queue[q], received)'
    BY <2>1, <2>7 DEF Newest
  <2>9. QED
    BY <2>2, <2>6, <2>7, <2>8 DEF QueueOK
<1>7. CASE q \notin subscribers
  <2>1. /\ queue'[q] = <<>> /\ taken'[q] = 0 /\ reads'[q] = 0 /\ joined'[q] = 0
        /\ received' = received + 1 /\ subscribers' = subscribers
    BY <1>3, <1>4, <1>7 DEF QueueOK
  <2>2. QED
    BY <1>4, <1>7, <2>1, BacklogPositive DEF QueueOK, Newest
<1>8. QED
  BY <1>6, <1>7

LEMMA TakeQueue ==
    ASSUME QueueInv, NEW p \in Subscribers, Take(p), NEW q \in Subscribers
    PROVE  QueueOK(q)'
<1>1. /\ queue[q] \in Seq(Frame) /\ received \in Nat /\ taken[q] \in Nat
      /\ reads[q] \in Nat /\ joined[q] \in Nat
  BY DEF QueueInv, TypeOK
<1>2. QueueOK(q)
  BY DEF QueueInv
<1>3. received' = received /\ subscribers' = subscribers /\ joined' = joined
  BY DEF Take, countVars
<1>4. CASE p = q
  <2>1. /\ q \in subscribers /\ queue[q] # <<>>
        /\ queue'[q] = Tail(queue[q])
        /\ taken'[q] = Head(queue[q]).nth
        /\ reads'[q] = reads[q] + 1
    BY <1>4 DEF Take, QueueInv, TypeOK
  <2>2. PICK l \in Nat : l = Len(queue[q]) /\ l >= 1
    BY <1>1, <2>1
  <2>3. Len(Tail(queue[q])) = l - 1
    BY <1>1, <2>1, <2>2
  <2>4. \A i \in 1..(l - 1) : Tail(queue[q])[i] = queue[q][i + 1]
    BY <1>1, <2>1, <2>2
  <2>5. l <= Backlog /\ \A i \in 1..l : queue[q][i].nth = received - l + i
    BY <1>2, <2>2 DEF QueueOK, Newest
  <2>6. Head(queue[q]).nth = received - l + 1
    <3>1. Head(queue[q]) = queue[q][1] /\ 1 \in 1..l
      BY <1>1, <2>1, <2>2
    <3>2. QED
      BY <2>5, <3>1
  <2>7. \A i \in 1..(l - 1) : Tail(queue[q])[i].nth = received - (l - 1) + i
    <3> SUFFICES ASSUME NEW i \in 1..(l - 1)
                 PROVE  Tail(queue[q])[i].nth = received - (l - 1) + i
      OBVIOUS
    <3>1. i + 1 \in 1..l
      BY <2>2
    <3>2. queue[q][i + 1].nth = received - l + (i + 1)
      BY <2>5, <3>1
    <3>3. received - l + (i + 1) = received - (l - 1) + i
      BY <1>1, <2>2
    <3>4. QED
      BY <2>4, <3>2, <3>3
  <2>8. Newest(queue[q], received)'
    <3>1. l - 1 <= Backlog
      BY <2>2, <2>5, BacklogPositive
    <3>2. QED
      BY <1>3, <2>1, <2>3, <2>7, <3>1 DEF Newest
  <2>9. /\ taken'[q] + Len(queue'[q]) = received
        /\ reads'[q] + Len(queue'[q]) = reads[q] + l
    <3>1. Len(queue'[q]) = l - 1 /\ taken'[q] = received - l + 1
      BY <2>1, <2>3, <2>6
    <3>2. (received - l + 1) + (l - 1) = received
      BY <1>1
    <3>3. (reads[q] + 1) + (l - 1) = reads[q] + l
      BY <1>1
    <3>4. QED
      BY <2>1, <3>1, <3>2, <3>3
  <2>10. \/ joined[q] + (reads'[q] + Len(queue'[q])) = received
         \/ /\ joined[q] + (reads'[q] + Len(queue'[q])) < received
            /\ joined[q] + Backlog < received
    <3>1. \/ joined[q] + reads[q] + l = received
          \/ /\ joined[q] + reads[q] + l < received
             /\ joined[q] + Backlog < received
      BY <1>2, <2>1, <2>2 DEF QueueOK
    <3>2. joined[q] + reads[q] + l = joined[q] + (reads[q] + l)
      BY <1>1, <2>2
    <3>3. QED
      BY <2>9, <3>1, <3>2
  <2>11. PICK k \in Nat : k = Len(queue'[q])
    BY <2>1, <2>2, <2>3
  <2>12. PICK r \in Nat : r = reads'[q]
    BY <1>1, <2>1
  <2>13. joined[q] + (r + k) = joined[q] + r + k
    BY <1>1
  <2>14. QED
    BY <1>1, <1>3, <2>1, <2>8, <2>9, <2>10, <2>11, <2>12, <2>13 DEF QueueOK
<1>5. CASE p # q
  <2>1. queue'[q] = queue[q] /\ taken'[q] = taken[q] /\ reads'[q] = reads[q]
    BY <1>5 DEF Take, QueueInv, TypeOK
  <2>2. QED
    BY <1>2, <1>3, <2>1 DEF QueueOK, Newest
<1>6. QED
  BY <1>4, <1>5

LEMMA SubscribeQueue ==
    ASSUME QueueInv, NEW p \in Subscribers, Subscribe(p) \/ Unsubscribe(p),
           NEW q \in Subscribers
    PROVE  QueueOK(q)'
<1>1. /\ received \in Nat /\ QueueOK(q) /\ received' = received
      /\ DOMAIN queue = Subscribers /\ DOMAIN taken = Subscribers
      /\ DOMAIN reads = Subscribers /\ DOMAIN joined = Subscribers
  BY DEF QueueInv, TypeOK, Subscribe, Unsubscribe, countVars
<1>2. CASE p # q
  <2>1. /\ queue'[q] = queue[q] /\ taken'[q] = taken[q]
        /\ reads'[q] = reads[q] /\ joined'[q] = joined[q]
        /\ (q \in subscribers') <=> (q \in subscribers)
    BY <1>1, <1>2 DEF Subscribe, Unsubscribe
  <2>2. QED
    BY <1>1, <2>1 DEF QueueOK, Newest
<1>3. CASE p = q /\ Subscribe(q)
  <2>1. /\ queue'[q] = <<>> /\ taken'[q] = received /\ joined'[q] = received
        /\ reads'[q] = 0 /\ q \in subscribers'
    BY <1>1, <1>3 DEF Subscribe, QueueOK
  <2>2. QED
    BY <1>1, <2>1, BacklogPositive DEF QueueOK, Newest
<1>4. CASE p = q /\ Unsubscribe(q)
  <2>1. /\ queue'[q] = <<>> /\ taken'[q] = 0 /\ joined'[q] = 0
        /\ reads'[q] = 0 /\ q \notin subscribers'
    BY <1>1, <1>4 DEF Unsubscribe
  <2>2. QED
    BY <1>1, <2>1, BacklogPositive DEF QueueOK, Newest
<1>5. QED
  BY <1>2, <1>3, <1>4

LEMMA QueueInvStep == QueueInv /\ [Next]_vars => QueueInv'
<1> SUFFICES ASSUME QueueInv, [Next]_vars, NEW q \in Subscribers
             PROVE  QueueOK(q)'
  BY TypeOKStep DEF QueueInv
<1>1. ASSUME UNCHANGED <<received, queueVars>>
      PROVE  QueueOK(q)'
  <2>1. QueueOK(q)
    BY DEF QueueInv
  <2>2. /\ received' = received /\ subscribers' = subscribers /\ queue' = queue
        /\ taken' = taken /\ reads' = reads /\ joined' = joined
    BY <1>1 DEF queueVars
  <2>3. QED
    BY <2>1, <2>2 DEF QueueOK, Newest
<1>2. ASSUME NEW s \in Symbols, EANext(s)
      PROVE  QueueOK(q)'
  BY <1>1, <1>2 DEF EANext, OnInit, OnDeinit, OnTimer, OnTick, UnseenTick,
                    feedVars, countVars
<1>3. ASSUME NEW s \in Symbols, GoStale(s)
      PROVE  QueueOK(q)'
  BY <1>1, <1>3 DEF GoStale, countVars
<1>4. ASSUME NEW s \in Symbols, NEW c \in Conns, ServeEnd(s, c)
      PROVE  QueueOK(q)'
  BY <1>1, <1>4 DEF ServeEnd, feedVars, countVars
<1>5. CASE Stop
  <2>1. /\ queue'[q] = <<>> /\ taken'[q] = 0 /\ reads'[q] = 0 /\ joined'[q] = 0
        /\ received' = 0 /\ subscribers' = {}
    BY <1>5 DEF Stop
  <2>2. QED
    BY <2>1, BacklogPositive DEF QueueOK, Newest
<1>6. CASE Start \/ AcceptJunk
  BY <1>1, <1>6 DEF Start, AcceptJunk, countVars
<1>7. CASE UNCHANGED vars
  BY <1>1, <1>7 DEF vars, feedVars, countVars
<1>8. QED
  BY <1>2, <1>3, <1>4, <1>5, <1>6, <1>7, ServeQueue, TakeQueue, SubscribeQueue
     DEF Next, ServeNext, ConsumerNext

(* In every reachable state each subscriber's queue is exactly the newest  *)
(* frames it has not read, in order (_publish's oldest-out).               *)
THEOREM QueueKeepsNewest == Spec => []QueueIsNewestUnread
<1>1. Init => QueueInv
  BY QueueInvInit, TypeOKInit DEF QueueInv
<1>2. QueueInv => QueueIsNewestUnread
  BY DEF QueueInv, QueueOK, Newest, QueueIsNewestUnread
<1>3. QED
  BY <1>1, <1>2, QueueInvStep, PTL DEF Spec
-----------------------------------------------------------------------------
(* The naming of gaps.                                                     *)

(* The lines of s on any of its connections, and the one accepted last.    *)
Stamps(s) ==
    {l \in Line :
        \/ \E c \in Conns : \E i \in 1..Len(lines[s][c]) : lines[s][c][i] = l
        \/ /\ lastIn[s].run # 0
           /\ l.seq = lastIn[s].seq /\ l.run = lastIn[s].run /\ l.tick = lastIn[s].tick}

(* Within one run of the EA numbers and ticks differ by a constant, since  *)
(* OnTick counts every tick of the run; and the listener's previous number *)
(* is the one it accepted last.                                            *)
NumbersOK(s) ==
    /\ run[s] # 0 => run[s] = runs[s]
    /\ \A a \in Stamps(s) : a.run # 0 /\ a.run <= runs[s]
    /\ run[s] # 0 => \A a \in Stamps(s) :
          a.run = run[s] => a.tick + sequence[s] = tick[s] + a.seq
    /\ \A a, b \in Stamps(s) : a.run = b.run => a.tick + b.seq = b.tick + a.seq
    /\ lastIn[s].run = 0 => lastSeq[s] = NoSeq
    /\ lastIn[s].run # 0 => lastSeq[s] = lastIn[s].seq

NumberInv == TypeOK /\ \A s \in Symbols : NumbersOK(s)

(* Nothing that NumbersOK reads of s changes, or stamps only go away.      *)
LEMMA NumbersKept ==
    ASSUME TypeOK, NEW s \in Symbols, NumbersOK(s),
           run'[s] = run[s], runs'[s] = runs[s],
           sequence'[s] = sequence[s], tick'[s] = tick[s],
           Stamps(s)' \subseteq Stamps(s),
           lastIn'[s].run = 0 => lastSeq'[s] = NoSeq,
           lastIn'[s].run # 0 => lastSeq'[s] = lastIn'[s].seq
    PROVE  NumbersOK(s)'
  BY DEF NumbersOK

LEMMA StampsKept ==
    ASSUME NEW s \in Symbols, lines'[s] = lines[s], lastIn'[s] = lastIn[s]
    PROVE  Stamps(s)' = Stamps(s)
  BY DEF Stamps

LEMMA InitNumbers ==
    ASSUME NumberInv, NEW s \in Symbols, OnInit(s), NEW r \in Symbols
    PROVE  NumbersOK(r)'
<1>1. lines' = lines /\ lastIn' = lastIn /\ lastSeq' = lastSeq /\ tick' = tick
  BY DEF OnInit, Connect, Disconnect, feedVars, symbolVars
<1>2. Stamps(r)' = Stamps(r)
  BY <1>1, StampsKept
<1>3. NumbersOK(r) /\ runs[r] \in Nat /\ \A a \in Stamps(r) : a.run \in Nat
  BY DEF NumberInv, TypeOK, Stamps, Line
<1>4. CASE r = s
  <2>1. run'[r] = runs[r] + 1 /\ runs'[r] = runs[r] + 1
    BY <1>4 DEF OnInit, NumberInv, TypeOK
  <2>2. \A a \in Stamps(r) : a.run # run'[r] /\ a.run <= runs'[r] /\ a.run # 0
    BY <1>3, <2>1 DEF NumbersOK
  <2>3. QED
    BY <1>1, <1>2, <1>3, <2>1, <2>2 DEF NumbersOK
<1>5. CASE r # s
  <2>1. run'[r] = run[r] /\ runs'[r] = runs[r] /\ sequence'[r] = sequence[r]
    BY <1>5 DEF OnInit, NumberInv, TypeOK
  <2>2. QED
    BY <1>1, <1>2, <1>3, <2>1 DEF NumbersOK
<1>6. QED
  BY <1>4, <1>5

LEMMA SentNumbers ==
    ASSUME NumberInv, NEW s \in Symbols, OnTick(s), Given(s)
    PROVE  NumbersOK(s)'
<1> DEFINE new == [seq |-> sequence[s] + 1, run |-> run[s], tick |-> tick[s] + 1]
<1>1. /\ run[s] \in Nat /\ runs[s] \in Nat /\ sequence[s] \in Nat /\ tick[s] \in Nat
      /\ run[s] # 0 /\ NumbersOK(s)
  BY DEF NumberInv, TypeOK, OnTick
<1>2. /\ sequence'[s] = sequence[s] + 1 /\ tick'[s] = tick[s] + 1
      /\ run' = run /\ runs' = runs /\ lastIn' = lastIn /\ lastSeq' = lastSeq
  BY DEF OnTick, Given, Stamp, NumberInv, TypeOK, feedVars, symbolVars
<1>3. new \in Line
  BY <1>1 DEF Line
<1>4. \A c \in Conns : lines'[s][c] = lines[s][c] \/ lines'[s][c] = Append(lines[s][c], new)
  <2>1. CASE lines' = lines
    BY <2>1
  <2>2. CASE lines' # lines
    <3>1. Sent(s)
      BY <2>2 DEF Given, NotConnected, ShortWrite, Disconnect, connVars
    <3>2. lines' = [lines EXCEPT ![s][socket[s]] = Append(@, new)]
      BY <1>2, <2>2, <3>1 DEF Sent
    <3>3. QED
      BY <3>2 DEF NumberInv, TypeOK
  <2>3. QED
    BY <2>1, <2>2
<1>5. \A a \in Stamps(s)' : a \in Stamps(s) \/ a = new
  <2> SUFFICES ASSUME NEW a \in Stamps(s)', a # new
               PROVE  a \in Stamps(s)
    OBVIOUS
  <2>1. a \in Line
    BY DEF Stamps
  <2>2. CASE \E c \in Conns : \E i \in 1..Len(lines'[s][c]) : lines'[s][c][i] = a
    <3>1. PICK c \in Conns : \E i \in 1..Len(lines'[s][c]) : lines'[s][c][i] = a
      BY <2>2
    <3>2. PICK i \in 1..Len(lines'[s][c]) : lines'[s][c][i] = a
      BY <3>1
    <3>3. lines[s][c] \in Seq(Line)
      BY DEF NumberInv, TypeOK
    <3>4. CASE lines'[s][c] = lines[s][c]
      BY <2>1, <3>2, <3>4 DEF Stamps
    <3>5. CASE lines'[s][c] = Append(lines[s][c], new)
      <4>1. i # Len(lines[s][c]) + 1
        <5>1. SUFFICES ASSUME i = Len(lines[s][c]) + 1
                       PROVE  FALSE
          OBVIOUS
        <5>2. Append(lines[s][c], new)[Len(lines[s][c]) + 1] = new
          BY <3>3
        <5>3. QED
          BY <3>2, <3>5, <5>1, <5>2
      <4>2. i \in 1..Len(lines[s][c]) /\ lines[s][c][i] = a
        <5>1. Len(Append(lines[s][c], new)) = Len(lines[s][c]) + 1
          BY <3>3
        <5>2. i \in 1..Len(lines[s][c])
          BY <3>2, <3>3, <3>5, <4>1, <5>1
        <5>3. Append(lines[s][c], new)[i] = lines[s][c][i]
          BY <3>3, <5>2
        <5>4. QED
          BY <3>2, <3>5, <5>2, <5>3
      <4>3. QED
        BY <2>1, <4>2 DEF Stamps
    <3>6. QED
      BY <1>4, <3>4, <3>5
  <2>3. CASE /\ lastIn'[s].run # 0
             /\ a.seq = lastIn'[s].seq /\ a.run = lastIn'[s].run
             /\ a.tick = lastIn'[s].tick
    BY <1>2, <2>1, <2>3 DEF Stamps
  <2>4. QED
    BY <2>2, <2>3 DEF Stamps
<1> HIDE DEF new
<1>6. new.seq = sequence[s] + 1 /\ new.run = run[s] /\ new.tick = tick[s] + 1
  BY DEF new
<1>7. \A a \in Stamps(s)' : /\ a.run \in Nat /\ a.seq \in Nat /\ a.tick \in Nat
                            /\ a.run # 0 /\ a.run <= runs[s]
                            /\ a.run = run[s] =>
                                 a.tick + (sequence[s] + 1) = (tick[s] + 1) + a.seq
  <2> SUFFICES ASSUME NEW a \in Stamps(s)'
               PROVE  /\ a.run \in Nat /\ a.seq \in Nat /\ a.tick \in Nat
                      /\ a.run # 0 /\ a.run <= runs[s]
                      /\ a.run = run[s] =>
                           a.tick + (sequence[s] + 1) = (tick[s] + 1) + a.seq
    OBVIOUS
  <2>1. a.run \in Nat /\ a.seq \in Nat /\ a.tick \in Nat
    BY DEF Stamps, Line
  <2>2. CASE a = new
    BY <1>1, <1>6, <2>1, <2>2 DEF NumbersOK
  <2>3. CASE a \in Stamps(s)
    BY <1>1, <2>1, <2>3 DEF NumbersOK
  <2>4. QED
    BY <1>5, <2>2, <2>3
<1>8. \A a, b \in Stamps(s)' : a.run = b.run => a.tick + b.seq = b.tick + a.seq
  <2> SUFFICES ASSUME NEW a \in Stamps(s)', NEW b \in Stamps(s)', a.run = b.run
               PROVE  a.tick + b.seq = b.tick + a.seq
    OBVIOUS
  <2>1. CASE a.run = run[s]
    <3>1. /\ a.tick + (sequence[s] + 1) = (tick[s] + 1) + a.seq
          /\ b.tick + (sequence[s] + 1) = (tick[s] + 1) + b.seq
      BY <1>7, <2>1
    <3>2. /\ a.tick \in Nat /\ a.seq \in Nat /\ b.tick \in Nat /\ b.seq \in Nat
      BY <1>7
    <3>3. PICK ta \in Nat, na \in Nat, tb \in Nat, nb \in Nat :
            a.tick = ta /\ a.seq = na /\ b.tick = tb /\ b.seq = nb
      BY <3>2
    <3>4. PICK n \in Nat, m \in Nat : sequence[s] = n /\ tick[s] = m
      BY <1>1
    <3>5. ta + (n + 1) = (m + 1) + na /\ tb + (n + 1) = (m + 1) + nb
      BY <3>1, <3>3, <3>4
    <3>6. QED
      BY <3>3, <3>5
  <2>2. CASE a.run # run[s]
    <3>1. a \in Stamps(s) /\ b \in Stamps(s)
      BY <1>5, <1>6, <2>2
    <3>2. QED
      BY <1>1, <3>1 DEF NumbersOK
  <2>3. QED
    BY <2>1, <2>2
<1>9. QED
  BY <1>1, <1>2, <1>7, <1>8 DEF NumbersOK

LEMMA OtherSymbol ==
    ASSUME NumberInv, NEW s \in Symbols,
           OnTick(s) \/ UnseenTick(s) \/ OnDeinit(s) \/ OnTimer(s)
             \/ GoStale(s) \/ \E c \in Conns : Serve(s, c) \/ ServeEnd(s, c),
           NEW r \in Symbols, r # s
    PROVE  NumbersOK(r)'
<1>1. /\ run \in [Symbols -> Nat] /\ runs \in [Symbols -> Nat]
      /\ sequence \in [Symbols -> Nat] /\ tick \in [Symbols -> Nat]
      /\ lastSeq \in [Symbols -> Nat \cup {NoSeq}] /\ lastIn \in [Symbols -> Frame]
      /\ lines \in [Symbols -> [Conns -> Seq(Line)]]
  BY DEF NumberInv, TypeOK
<1>2. /\ run'[r] = run[r] /\ runs'[r] = runs[r] /\ sequence'[r] = sequence[r]
      /\ tick'[r] = tick[r] /\ lines'[r] = lines[r]
      /\ lastIn'[r] = lastIn[r] /\ lastSeq'[r] = lastSeq[r]
  <2>1. CASE OnTick(s)
    <3>1. run' = run /\ runs' = runs /\ lastIn' = lastIn /\ lastSeq' = lastSeq
      BY <2>1 DEF OnTick, feedVars, symbolVars
    <3>2. sequence'[r] = sequence[r] /\ tick'[r] = tick[r]
      <4>1. CASE Given(s)
        BY <1>1, <4>1 DEF Given, Stamp
      <4>2. CASE NotGiven(s)
        BY <4>2 DEF NotGiven
      <4>3. QED
        BY <2>1, <4>1, <4>2 DEF OnTick
    <3>3. lines'[r] = lines[r]
      <4>1. NotGiven(s) \/ Sent(s) \/ NotConnected(s) \/ ShortWrite(s)
        BY <2>1 DEF OnTick, Given
      <4>2. QED
        BY <1>1, <4>1 DEF NotGiven, Sent, NotConnected, ShortWrite, Disconnect, connVars
    <3>4. QED
      BY <3>1, <3>2, <3>3
  <2>2. CASE UnseenTick(s)
    BY <1>1, <2>2 DEF UnseenTick, connVars, feedVars, symbolVars
  <2>3. CASE OnDeinit(s)
    BY <1>1, <2>3 DEF OnDeinit, Disconnect, feedVars, symbolVars
  <2>4. CASE OnTimer(s)
    BY <1>1, <2>4 DEF OnTimer, Connect, Disconnect, feedVars, symbolVars
  <2>5. CASE GoStale(s)
    BY <1>1, <2>5 DEF GoStale, eaVars, connVars
  <2>6. CASE \E c \in Conns : Serve(s, c)
    <3>1. PICK c \in Conns : Serve(s, c)
      BY <2>6
    <3>2. run' = run /\ runs' = runs /\ sequence' = sequence /\ tick' = tick
      BY <3>1 DEF Serve, eaVars
    <3>3. /\ lines' = [lines EXCEPT ![s][c] = Tail(@)]
          /\ lastSeq' = [lastSeq EXCEPT ![s] = Head(lines[s][c]).seq]
          /\ lastIn' = [lastIn EXCEPT ![s] = Noted(s, Head(lines[s][c]))]
      BY <3>1 DEF Serve, Accept
    <3>4. QED
      BY <1>1, <3>2, <3>3
  <2>7. CASE \E c \in Conns : ServeEnd(s, c)
    BY <1>1, <2>7 DEF ServeEnd, eaVars, feedVars, symbolVars
  <2>8. QED
    BY <2>1, <2>2, <2>3, <2>4, <2>5, <2>6, <2>7
<1>3. QED
  BY <1>2, StampsKept, NumbersKept DEF NumberInv, NumbersOK

LEMMA UnseenNumbers ==
    ASSUME NumberInv, NEW s \in Symbols, UnseenTick(s) \/ OnDeinit(s)
    PROVE  NumbersOK(s)'
<1>1. run'[s] = 0 /\ runs' = runs /\ lastIn' = lastIn /\ lastSeq' = lastSeq
      /\ lines' = lines
  BY DEF UnseenTick, OnDeinit, Disconnect, connVars, feedVars, symbolVars,
         NumberInv, TypeOK
<1>2. Stamps(s)' = Stamps(s)
  BY <1>1, StampsKept
<1>3. QED
  BY <1>1, <1>2 DEF NumberInv, NumbersOK

LEMMA ServeNumbers ==
    ASSUME NumberInv, NEW s \in Symbols, NEW c \in Conns, Serve(s, c)
    PROVE  NumbersOK(s)'
<1> DEFINE line == Head(lines[s][c])
<1>1. lines[s][c] \in Seq(Line) /\ lines[s][c] # <<>> /\ NumbersOK(s)
  BY DEF Serve, NumberInv, TypeOK
<1>2. line \in Line /\ line = lines[s][c][1] /\ 1 \in 1..Len(lines[s][c])
  BY <1>1
<1>3. line \in Stamps(s)
  BY <1>2 DEF Stamps
<1>4. line.run # 0
  BY <1>1, <1>3 DEF NumbersOK
<1>5. /\ lastIn'[s] = Noted(s, line) /\ lastSeq'[s] = line.seq
      /\ lines'[s][c] = Tail(lines[s][c])
      /\ \A d \in Conns : d # c => lines'[s][d] = lines[s][d]
      /\ run' = run /\ runs' = runs /\ sequence' = sequence /\ tick' = tick
  BY DEF Serve, Accept, NumberInv, TypeOK, eaVars
<1> HIDE DEF line
<1>6. /\ lastIn'[s].run = line.run /\ lastIn'[s].seq = line.seq
      /\ lastIn'[s].tick = line.tick
  BY <1>5 DEF Noted
<1>7. Stamps(s)' \subseteq Stamps(s)
  <2> SUFFICES ASSUME NEW a \in Stamps(s)'
               PROVE  a \in Stamps(s)
    OBVIOUS
  <2>1. a \in Line
    BY DEF Stamps
  <2>2. CASE \E d \in Conns : \E i \in 1..Len(lines'[s][d]) : lines'[s][d][i] = a
    <3>1. PICK d \in Conns : \E i \in 1..Len(lines'[s][d]) : lines'[s][d][i] = a
      BY <2>2
    <3>2. PICK i \in 1..Len(lines'[s][d]) : lines'[s][d][i] = a
      BY <3>1
    <3>3. CASE d # c
      BY <1>5, <2>1, <3>2, <3>3 DEF Stamps
    <3>4. CASE d = c
      <4>1. /\ Len(Tail(lines[s][c])) = Len(lines[s][c]) - 1
            /\ \A k \in 1..Len(lines[s][c]) - 1 :
                 Tail(lines[s][c])[k] = lines[s][c][k + 1]
        BY <1>1
      <4>2. PICK n \in Nat : n = Len(lines[s][c])
        BY <1>1
      <4>3. lines'[s][d] = Tail(lines[s][c])
        BY <1>5, <3>4
      <4>4. i \in 1..(n - 1)
        BY <3>2, <4>1, <4>2, <4>3
      <4>5. i + 1 \in 1..n
        BY <4>2, <4>4
      <4>6. lines[s][c][i + 1] = a
        BY <3>2, <4>1, <4>2, <4>3, <4>4
      <4>7. QED
        BY <2>1, <4>2, <4>5, <4>6 DEF Stamps
    <3>5. QED
      BY <3>3, <3>4
  <2>3. CASE /\ lastIn'[s].run # 0
             /\ a.seq = lastIn'[s].seq /\ a.run = lastIn'[s].run
             /\ a.tick = lastIn'[s].tick
    <3>1. a = line
      BY <1>2, <1>6, <2>1, <2>3 DEF Line
    <3>2. QED
      BY <1>3, <3>1
  <2>4. QED
    BY <2>2, <2>3 DEF Stamps
<1>8. QED
  BY <1>1, <1>4, <1>5, <1>6, <1>7, NumbersKept DEF NumberInv

LEMMA StopNumbers ==
    ASSUME NumberInv, Stop, NEW r \in Symbols
    PROVE  NumbersOK(r)'
<1>1. /\ run' = run /\ runs' = runs /\ sequence' = sequence /\ tick' = tick
      /\ lastIn'[r] = NoFrame /\ lastSeq'[r] = NoSeq
      /\ \A c \in Conns : lines'[r][c] = <<>>
  BY DEF Stop, eaVars
<1>2. lastIn'[r].run = 0
  BY <1>1 DEF NoFrame
<1>3. Stamps(r)' = {}
  BY <1>1, <1>2 DEF Stamps
<1>4. NumbersOK(r)
  BY DEF NumberInv
<1>5. QED
  BY <1>1, <1>2, <1>3, <1>4 DEF NumbersOK

LEMMA NumberInvInit == Init => NumberInv
<1> SUFFICES ASSUME Init, NEW s \in Symbols
             PROVE  NumbersOK(s)
  BY TypeOKInit DEF NumberInv
<1>1. lastIn[s].run = 0 /\ lastSeq[s] = NoSeq /\ run[s] = 0
  BY DEF Init, NoFrame
<1>2. Stamps(s) = {}
  BY <1>1 DEF Stamps, Init
<1>3. QED
  BY <1>1, <1>2 DEF NumbersOK

LEMMA NumberInvStep == NumberInv /\ [Next]_vars => NumberInv'
<1> SUFFICES ASSUME NumberInv, [Next]_vars, NEW r \in Symbols
             PROVE  NumbersOK(r)'
  BY TypeOKStep DEF NumberInv
<1>1. ASSUME /\ run'[r] = run[r] /\ runs'[r] = runs[r]
             /\ sequence'[r] = sequence[r] /\ tick'[r] = tick[r]
             /\ lines'[r] = lines[r] /\ lastIn'[r] = lastIn[r]
             /\ lastSeq'[r] = lastSeq[r]
      PROVE  NumbersOK(r)'
  BY <1>1, StampsKept, NumbersKept DEF NumberInv, NumbersOK
<1>2. ASSUME NEW s \in Symbols, EANext(s)
      PROVE  NumbersOK(r)'
  <2>1. CASE OnInit(s)
    BY <2>1, InitNumbers
  <2>2. CASE r # s
    BY <1>2, <2>1, <2>2, OtherSymbol, InitNumbers DEF EANext
  <2>3. CASE r = s /\ (UnseenTick(s) \/ OnDeinit(s))
    BY <2>3, UnseenNumbers
  <2>4. CASE r = s /\ OnTick(s)
    <3>1. CASE Given(s)
      BY <2>4, <3>1, SentNumbers
    <3>2. CASE NotGiven(s)
      BY <1>1, <2>4, <3>2 DEF OnTick, NotGiven, connVars, feedVars, symbolVars
    <3>3. QED
      BY <2>4, <3>1, <3>2 DEF OnTick
  <2>5. CASE r = s /\ OnTimer(s)
    BY <1>1, <2>5 DEF OnTimer, Connect, Disconnect, feedVars, symbolVars
  <2>6. QED
    BY <1>2, <2>1, <2>2, <2>3, <2>4, <2>5 DEF EANext
<1>3. ASSUME NEW s \in Symbols, NEW c \in Conns, Serve(s, c)
      PROVE  NumbersOK(r)'
  BY <1>3, ServeNumbers, OtherSymbol
<1>4. ASSUME NEW s \in Symbols, NEW c \in Conns, GoStale(s) \/ ServeEnd(s, c)
      PROVE  NumbersOK(r)'
  BY <1>1, <1>4 DEF GoStale, ServeEnd, eaVars, connVars, feedVars, symbolVars
<1>5. ASSUME NEW s \in Symbols, GoStale(s)
      PROVE  NumbersOK(r)'
  BY <1>1, <1>5 DEF GoStale, eaVars, connVars
<1>6. CASE \E q \in Subscribers : ConsumerNext(q)
  BY <1>1, <1>6 DEF ConsumerNext, Subscribe, Unsubscribe, Take, eaVars, connVars,
                    symbolVars
<1>7. CASE Stop
  BY <1>7, StopNumbers
<1>8. CASE Start \/ AcceptJunk
  BY <1>1, <1>8 DEF Start, AcceptJunk, eaVars, connVars, symbolVars
<1>9. CASE UNCHANGED vars
  BY <1>1, <1>9 DEF vars, eaVars, connVars, feedVars, symbolVars
<1>10. QED
  BY <1>2, <1>3, <1>4, <1>5, <1>6, <1>7, <1>8, <1>9 DEF Next, ServeNext

(* What _note_gap says of a line is the truth about its tick, when number  *)
(* and tick are in step.                                                   *)
LEMMA NotedIsTrue ==
    ASSUME NEW s \in Symbols, NEW line \in Line, NEW last \in Frame, NEW ps \in Nat,
           lastSeq[s] = ps, last.tick + line.seq = line.tick + ps
    PROVE  TrueTo(Noted(s, line), last)
<1>1. PICK cs \in Nat, ct \in Nat, pt \in Nat :
        line.seq = cs /\ line.tick = ct /\ last.tick = pt
  BY DEF Line, Frame
<1>2. /\ Noted(s, line).missed = Missed(ps, cs) /\ Noted(s, line).tick = ct
      /\ Noted(s, line).reset = IsReset(ps, cs)
  BY <1>1 DEF Noted
<1>3. pt + cs = ct + ps /\ (ct > pt <=> cs > ps) /\ ct - pt - 1 = cs - ps - 1
  BY <1>1
<1>4. CASE ct > pt
  <2>1. Missed(ps, cs) = cs - ps - 1 /\ ~IsReset(ps, cs)
    BY <1>3, <1>4 DEF Missed, IsReset, NoSeq
  <2>2. QED
    BY <1>1, <1>2, <1>3, <1>4, <2>1 DEF TrueTo, Between
<1>5. CASE ~(ct > pt)
  <2>1. Missed(ps, cs) = 0 /\ IsReset(ps, cs)
    BY <1>3, <1>5 DEF Missed, IsReset, NoSeq
  <2>2. QED
    BY <1>1, <1>2, <1>5, <2>1 DEF TrueTo, Between
<1>6. QED
  BY <1>4, <1>5

LEMMA NamedStep ==
    ASSUME NumberInv, [Next]_vars, NEW s \in Symbols,
           lastIn'[s] # lastIn[s], lastIn[s].run # 0,
           lastIn'[s].run = lastIn[s].run
    PROVE  TrueTo(lastIn'[s], lastIn[s])
<1>1. ~Stop
  BY DEF Stop, NoFrame
<1>2. lastIn' # lastIn
  OBVIOUS
<1>3. PICK r \in Symbols, c \in Conns : Serve(r, c)
  BY <1>1, <1>2 DEF Next, EANext, ServeNext, ConsumerNext, OnInit, OnDeinit, OnTimer,
     OnTick, UnseenTick, GoStale, ServeEnd, Subscribe, Unsubscribe, Take, Start,
     AcceptJunk, vars, feedVars, symbolVars
<1>4. r = s
  BY <1>3 DEF Serve, Accept, NumberInv, TypeOK
<1> DEFINE line == Head(lines[s][c])
<1>5. line \in Line /\ line \in Stamps(s)
  <2>1. lines[s][c] \in Seq(Line) /\ lines[s][c] # <<>>
    BY <1>3, <1>4 DEF Serve, NumberInv, TypeOK
  <2>2. line \in Line /\ line = lines[s][c][1] /\ 1 \in 1..Len(lines[s][c])
    BY <2>1
  <2>3. QED
    BY <2>2 DEF Stamps
<1>6. lastIn'[s] = Noted(s, line)
  BY <1>3, <1>4 DEF Serve, Accept, NumberInv, TypeOK
<1> HIDE DEF line
<1> DEFINE last == [seq |-> lastIn[s].seq, run |-> lastIn[s].run,
                    tick |-> lastIn[s].tick]
<1>7. lastIn[s] \in Frame /\ NumbersOK(s)
  BY DEF NumberInv, TypeOK
<1>8. last \in Line /\ last \in Stamps(s)
  <2>1. last \in Line
    BY <1>7 DEF Line, Frame
  <2>2. QED
    BY <2>1 DEF Stamps
<1>9. line.run = last.run
  BY <1>6 DEF Noted
<1>10. last.tick + line.seq = line.tick + last.seq
  BY <1>5, <1>7, <1>8, <1>9 DEF NumbersOK
<1>11. lastSeq[s] = last.seq /\ last.tick = lastIn[s].tick
  BY <1>7 DEF NumbersOK
<1>12. last.seq \in Nat
  BY <1>8 DEF Line
<1> HIDE DEF last
<1>13. TrueTo(Noted(s, line), lastIn[s])
  BY <1>5, <1>7, <1>10, <1>11, <1>12, NotedIsTrue
<1>14. QED
  BY <1>6, <1>13

(* Within one run of the EA a frame says exactly how many of the ticks the *)
(* terminal gave are missing before it (_note_gap, OnTick).                *)
THEOREM GapsAreNamed == Spec => NamedWithinRun
<1>1. NumberInv /\ [Next]_vars =>
        [\A s \in Symbols :
           lastIn'[s] # lastIn[s] /\ lastIn[s].run # 0 /\ lastIn'[s].run = lastIn[s].run
             => TrueTo(lastIn'[s], lastIn[s])]_vars
  BY NamedStep
<1>2. QED
  BY <1>1, NumberInvInit, NumberInvStep, PTL DEF Spec, NamedWithinRun
-----------------------------------------------------------------------------
(* The tick feed implements FanOut: every step of Spec is a step of the    *)
(* fan-out it promises, or none.  QueueInv supplies what the mapping needs:*)
(* a queue holds the newest frames, in order, and none when nobody listens.*)

LEMMA InitRefines == Init => Promise!Init
<1> SUFFICES ASSUME Init
             PROVE  Promise!Init
  OBVIOUS
<1>1. Upcoming = [q \in Subscribers |-> 1]
  BY DEF Upcoming, Init
<1>2. QED
  BY <1>1 DEF Promise!Init, Init

(* Accepting a frame publishes it; what overflows is what Advanced skips.  *)
LEMMA ServeRefines ==
    ASSUME QueueInv, NEW s \in Symbols, NEW c \in Conns, Serve(s, c)
    PROVE  Promise!Publish
<1> DEFINE frame == Noted(s, Head(lines[s][c]))
<1>1. Head(lines[s][c]) \in Line
  <2>1. lines[s][c] \in Seq(Line) /\ lines[s][c] # <<>>
    BY DEF QueueInv, TypeOK, Serve
  <2>2. QED
    BY <2>1
<1>2. frame \in Frame /\ frame.nth = received + 1
  BY <1>1, NotedType DEF QueueInv
<1>3. /\ received' = received + 1 /\ received \in Nat
      /\ UNCHANGED <<subscribers, taken>>
      /\ \A q \in subscribers : queue'[q] = Put(q, frame)
  BY DEF Serve, Accept, QueueInv, TypeOK
<1> HIDE DEF frame
<1>4. ASSUME NEW q \in Subscribers
      PROVE  Upcoming'[q] = IF q \in subscribers
                            THEN Promise!Advanced(Upcoming[q], received + 1)
                            ELSE Upcoming[q]
  <2>1. CASE q \notin subscribers
    BY <1>3, <2>1 DEF Upcoming
  <2>2. CASE q \in subscribers
    <3>1. queue[q] \in Seq(Frame) /\ Newest(queue[q], received)
      BY DEF QueueInv, QueueOK, TypeOK
    <3>2. /\ Full(q) => Len(Put(q, frame)) = Len(queue[q])
          /\ ~Full(q) => Len(Put(q, frame)) = Len(queue[q]) + 1
          /\ Full(q) <=> Len(queue[q]) = Backlog
      BY <1>2, <1>3, <3>1, PutNewest
    <3>3. PICK l \in Nat : l = Len(queue[q])
      BY <3>1
    <3>4. l <= Backlog /\ Backlog \in Nat
      BY <3>1, <3>3, FeedAssumption DEF Newest
    <3>5. Upcoming[q] = received - l + 1
      BY <2>2, <3>3 DEF Upcoming
    <3>6. Upcoming'[q] = (received + 1) - Len(Put(q, frame)) + 1
      BY <1>3, <2>2 DEF Upcoming
    <3>7. CASE Full(q)
      <4>1. l = Backlog /\ Len(Put(q, frame)) = l
        BY <3>2, <3>3, <3>7
      <4>2. QED
        BY <1>3, <2>2, <3>4, <3>5, <3>6, <4>1 DEF Promise!Advanced
    <3>8. CASE ~Full(q)
      <4>1. l # Backlog /\ Len(Put(q, frame)) = l + 1
        BY <3>2, <3>3, <3>8
      <4>2. QED
        BY <1>3, <2>2, <3>4, <3>5, <3>6, <4>1 DEF Promise!Advanced
    <3>9. QED
      BY <3>7, <3>8
  <2>3. QED
    BY <2>1, <2>2
<1>5. Upcoming' = [q \in Subscribers |-> IF q \in subscribers
                       THEN Promise!Advanced(Upcoming[q], received + 1)
                       ELSE Upcoming[q]]
  BY <1>4 DEF Upcoming
<1>6. QED
  BY <1>3, <1>5 DEF Promise!Publish

(* Taking the head of a queue reads exactly the frame that comes next.     *)
LEMMA TakeRefines ==
    ASSUME QueueInv, NEW p \in Subscribers, Take(p)
    PROVE  Promise!Read(p)
<1>1. /\ queue[p] \in Seq(Frame) /\ queue[p] # <<>> /\ received \in Nat
      /\ Newest(queue[p], received) /\ p \in subscribers
      /\ UNCHANGED <<received, subscribers>>
  BY DEF QueueInv, QueueOK, TypeOK, Take, countVars
<1>2. PICK l \in Nat : l = Len(queue[p]) /\ l >= 1
  BY <1>1
<1>3. Upcoming[p] = received - l + 1
  BY <1>1, <1>2 DEF Upcoming
<1>4. taken' = [taken EXCEPT ![p] = received - l + 1]
  <2>1. Head(queue[p]) = queue[p][1] /\ 1 \in 1..Len(queue[p])
    BY <1>1
  <2>2. Head(queue[p]).nth = received - l + 1
    BY <1>1, <1>2, <2>1 DEF Newest
  <2>3. QED
    BY <2>2 DEF Take
<1>5. Upcoming' = [Upcoming EXCEPT ![p] = @ + 1]
  <2>1. ASSUME NEW q \in Subscribers, q # p
        PROVE  Upcoming'[q] = Upcoming[q]
    <3>1. queue'[q] = queue[q]
      BY <2>1 DEF Take, QueueInv, TypeOK
    <3>2. QED
      BY <1>1, <3>1 DEF Upcoming
  <2>2. Upcoming'[p] = Upcoming[p] + 1
    <3>1. queue'[p] = Tail(queue[p])
      BY DEF Take, QueueInv, TypeOK
    <3>2. Len(queue'[p]) = l - 1
      BY <1>1, <1>2, <3>1
    <3>3. Upcoming'[p] = received - (l - 1) + 1
      BY <1>1, <3>2 DEF Upcoming
    <3>4. QED
      BY <1>1, <1>3, <3>3
  <2>3. QED
    BY <2>1, <2>2 DEF Upcoming
<1>6. Upcoming[p] <= received
  BY <1>1, <1>2, <1>3
<1>7. taken' = [taken EXCEPT ![p] = Upcoming[p]]
  BY <1>3, <1>4
<1>8. p \in subscribers /\ UNCHANGED <<received, subscribers>>
  BY <1>1
<1>9. QED
  BY <1>5, <1>6, <1>7, <1>8 DEF Promise!Read

LEMMA SubscribeRefines ==
    ASSUME QueueInv, NEW p \in Subscribers, Subscribe(p)
    PROVE  Promise!Join(p)
<1>1. /\ p \notin subscribers /\ subscribers' = subscribers \cup {p}
      /\ received' = received /\ received \in Nat /\ queue' = queue
      /\ taken' = [taken EXCEPT ![p] = received]
  BY DEF Subscribe, countVars, QueueInv, TypeOK
<1>2. queue[p] = <<>>
  BY <1>1 DEF QueueInv, QueueOK
<1>3. Upcoming' = [Upcoming EXCEPT ![p] = received + 1]
  <2>1. Len(queue'[p]) = 0
    BY <1>1, <1>2
  <2>2. Upcoming'[p] = received + 1
    <3>1. Upcoming'[p] = received' - Len(queue'[p]) + 1
      BY <1>1 DEF Upcoming
    <3>2. QED
      BY <1>1, <2>1, <3>1
  <2>3. ASSUME NEW q \in Subscribers, q # p
        PROVE  Upcoming'[q] = Upcoming[q]
    BY <1>1, <2>3 DEF Upcoming
  <2>4. QED
    BY <2>2, <2>3 DEF Upcoming
<1>4. QED
  BY <1>1, <1>3 DEF Promise!Join

LEMMA UnsubscribeRefines ==
    ASSUME QueueInv, NEW p \in Subscribers, Unsubscribe(p)
    PROVE  Promise!Leave(p)
<1>1. /\ p \in subscribers /\ subscribers' = subscribers \ {p}
      /\ received' = received
      /\ taken' = [taken EXCEPT ![p] = 0]
  BY DEF Unsubscribe
<1>2. Upcoming' = [Upcoming EXCEPT ![p] = 1]
  <2>1. Upcoming'[p] = 1
    BY <1>1 DEF Upcoming
  <2>2. ASSUME NEW q \in Subscribers, q # p
        PROVE  Upcoming'[q] = Upcoming[q]
    <3>1. queue'[q] = queue[q]
      BY <2>2 DEF Unsubscribe, QueueInv, TypeOK
    <3>2. QED
      BY <1>1, <2>2, <3>1 DEF Upcoming
  <2>3. QED
    BY <2>1, <2>2 DEF Upcoming
<1>3. QED
  BY <1>1, <1>2 DEF Promise!Leave

LEMMA StopRefines == Stop => Promise!Restart
<1> SUFFICES ASSUME Stop
             PROVE  Promise!Restart
  OBVIOUS
<1>1. received' = 0 /\ subscribers' = {} /\ taken' = [q \in Subscribers |-> 0]
  BY DEF Stop
<1>2. Upcoming' = [q \in Subscribers |-> 1]
  BY <1>1 DEF Upcoming
<1>3. QED
  BY <1>1, <1>2 DEF Promise!Restart

LEMMA StepRefines == QueueInv /\ [Next]_vars => [Promise!Next]_Promise!vars
<1> SUFFICES ASSUME QueueInv, [Next]_vars
             PROVE  [Promise!Next]_Promise!vars
  OBVIOUS
<1>1. ASSUME UNCHANGED <<received, queueVars>>
      PROVE  UNCHANGED Promise!vars
  <2>1. /\ received' = received /\ subscribers' = subscribers /\ queue' = queue
        /\ taken' = taken
    BY <1>1 DEF queueVars
  <2>2. Upcoming' = Upcoming
    BY <2>1 DEF Upcoming
  <2>3. QED
    BY <2>1, <2>2 DEF Promise!vars
<1>2. ASSUME NEW s \in Symbols, EANext(s)
      PROVE  UNCHANGED Promise!vars
  BY <1>1, <1>2 DEF EANext, OnInit, OnDeinit, OnTimer, OnTick, UnseenTick,
                    feedVars, countVars
<1>3. ASSUME NEW s \in Symbols, GoStale(s)
      PROVE  UNCHANGED Promise!vars
  BY <1>1, <1>3 DEF GoStale, countVars
<1>4. ASSUME NEW s \in Symbols, NEW c \in Conns, ServeEnd(s, c)
      PROVE  UNCHANGED Promise!vars
  BY <1>1, <1>4 DEF ServeEnd, feedVars, countVars
<1>5. ASSUME NEW s \in Symbols, NEW c \in Conns, Serve(s, c)
      PROVE  Promise!Next
  BY <1>5, ServeRefines DEF Promise!Next
<1>6. ASSUME NEW q \in Subscribers, ConsumerNext(q)
      PROVE  Promise!Next
  BY <1>6, TakeRefines, SubscribeRefines, UnsubscribeRefines
     DEF ConsumerNext, Promise!Next
<1>7. CASE Stop
  BY <1>7, StopRefines DEF Promise!Next
<1>8. CASE Start \/ AcceptJunk
  BY <1>1, <1>8 DEF Start, AcceptJunk, countVars
<1>9. CASE UNCHANGED vars
  BY <1>1, <1>9 DEF vars, feedVars, countVars
<1>10. QED
  BY <1>2, <1>3, <1>4, <1>5, <1>6, <1>7, <1>8, <1>9 DEF Next, ServeNext

(* The listener and its bounded queues keep the promise FanOut states to   *)
(* every subscriber, whatever Backlog, however many charts and sockets     *)
(* (_publish, subscribe, unsubscribe, stop and queue.get).                 *)
THEOREM FeedImplementsFanOut == Spec => KeepsPromise
<1>1. Init => QueueInv
  BY QueueInvInit, TypeOKInit DEF QueueInv
<1>2. QED
  BY <1>1, QueueInvStep, InitRefines, StepRefines, PTL
     DEF Spec, KeepsPromise, Promise!Spec
-----------------------------------------------------------------------------
(* Sums over finite sets.  MapThenSumSet is a recursive function in a      *)
(* CHOOSE; what it returns is found by induction over the subsets of a     *)
(* set, which the theorems about well-founded relations state of sets.     *)

(* Induction over the subsets of a finite set, as a statement about sets.  *)
LEMMA SubsetsInduced ==
    ASSUME NEW S, IsFiniteSet(S), NEW F \in SUBSET (SUBSET S),
           \A T \in SUBSET S : (\A x \in T : T \ {x} \in F) => T \in F
    PROVE  F = SUBSET S
<1> DEFINE Bad == (SUBSET S) \ F
<1>1. SUFFICES ASSUME Bad # {}
               PROVE  FALSE
  OBVIOUS
<1>2. Bad \subseteq FiniteSubsetsOf(S)
  BY FS_Subset DEF FiniteSubsetsOf
<1>3. PICK T \in Bad : \A U \in Bad : ~ (<<U, T>> \in StrictSubsetOrdering(S))
  <2> HIDE DEF Bad
  <2>1. QED
    BY <1>1, <1>2, WFMin, FS_StrictSubsetOrderingWellFounded
<1>4. \A x \in T : T \ {x} \in F
  <2>1. SUFFICES ASSUME NEW x \in T, T \ {x} \notin F
                 PROVE  FALSE
    OBVIOUS
  <2>2. T \ {x} \in Bad /\ T \in SUBSET S
    BY <2>1
  <2>3. <<T \ {x}, T>> \in StrictSubsetOrdering(S)
    BY <2>2, <2>1 DEF StrictSubsetOrdering
  <2>4. QED
    BY <2>2, <2>3, <1>3
<1>5. QED
  BY <1>3, <1>4

Pick(s) == CHOOSE x \in s : TRUE

(* h is the function MapThenSumSet sums g with, over the subsets of S.     *)
Summed(g, h, s) == IF s = {} THEN 0 ELSE g[Pick(s)] + h[s \ {Pick(s)}]
Sums(g, S, h) == h = [s \in SUBSET S |-> Summed(g, h, s)]

LEMMA PickIn == \A s : s # {} => Pick(s) \in s
  BY DEF Pick

LEMMA SumsAt ==
    ASSUME NEW g, NEW S, NEW h, Sums(g, S, h)
    PROVE  \A s \in SUBSET S : h[s] = Summed(g, h, s)
  BY Zenon DEF Sums

LEMMA SumsNone ==
    ASSUME NEW g, NEW S, NEW h, Sums(g, S, h)
    PROVE  h[{}] = 0
<1>1. {} \in SUBSET S
  OBVIOUS
<1>2. h[{}] = Summed(g, h, {})
  BY <1>1, SumsAt, Zenon
<1>3. QED
  BY <1>2, Zenon DEF Summed

LEMMA SumsSome ==
    ASSUME NEW g, NEW S, NEW h, Sums(g, S, h)
    PROVE  \A s \in SUBSET S : s # {} => h[s] = g[Pick(s)] + h[s \ {Pick(s)}]
<1>1. ASSUME NEW s \in SUBSET S, s # {}
      PROVE  h[s] = g[Pick(s)] + h[s \ {Pick(s)}]
  <2>1. h[s] = Summed(g, h, s)
    BY SumsAt, Zenon
  <2>2. QED
    BY <1>1, <2>1, Zenon DEF Summed
<1>2. QED
  BY <1>1, Zenon

(* What is summed over T depends on T alone, not on the set the function   *)
(* was made for.                                                           *)
LEMMA SumsAgree ==
    ASSUME NEW g, NEW S, NEW h, Sums(g, S, h), NEW f, NEW U, NEW k, Sums(f, U, k),
           NEW T, IsFiniteSet(T), T \in SUBSET S, T \in SUBSET U,
           \A x \in T : f[x] = g[x]
    PROVE  h[T] = k[T]
<1> DEFINE F == {s \in SUBSET T : h[s] = k[s]}
<1>1. ASSUME NEW s \in SUBSET T, \A x \in s : s \ {x} \in F
      PROVE  s \in F
  <2>1. s \in SUBSET S /\ s \in SUBSET U
    OBVIOUS
  <2>2. s = {} => h[s] = 0 /\ k[s] = 0
    BY SumsNone, Zenon
  <2>3. s # {} => /\ h[s] = g[Pick(s)] + h[s \ {Pick(s)}]
                  /\ k[s] = f[Pick(s)] + k[s \ {Pick(s)}]
    <3>1. h[s] = Summed(g, h, s)
      BY <2>1, SumsAt
    <3>2. k[s] = Summed(f, k, s)
      BY <2>1, SumsAt
    <3>3. QED
      BY <3>1, <3>2, Zenon DEF Summed
  <2>4. s # {} => /\ h[s \ {Pick(s)}] = k[s \ {Pick(s)}]
                  /\ f[Pick(s)] = g[Pick(s)]
    BY <1>1, PickIn
  <2>5. h[s] = k[s]
    BY <2>2, <2>3, <2>4
  <2>6. QED
    BY <2>5
<1>2. F = SUBSET T
  <2>1. F \in SUBSET (SUBSET T)
    OBVIOUS
  <2> HIDE DEF F
  <2>2. QED
    BY <1>1, <2>1, SubsetsInduced, Zenon
<1>3. QED
  BY <1>2

LEMMA SumsBelow ==
    ASSUME NEW g, NEW S, NEW h, Sums(g, S, h), NEW T \in SUBSET S
    PROVE  Sums(g, T, [s \in SUBSET T |-> h[s]])
<1> DEFINE k == [s \in SUBSET T |-> h[s]]
<1>1. ASSUME NEW s \in SUBSET T
      PROVE  k[s] = Summed(g, k, s)
  <2>1. s \in SUBSET S /\ s \ {Pick(s)} \in SUBSET T
    OBVIOUS
  <2>2. h[s] = Summed(g, h, s)
    BY <2>1, SumsAt, Zenon
  <2>3. k[s] = h[s] /\ k[s \ {Pick(s)}] = h[s \ {Pick(s)}]
    BY <2>1
  <2> HIDE DEF k
  <2>4. QED
    BY <2>2, <2>3, Zenon DEF Summed
<1>2. k = [s \in SUBSET T |-> Summed(g, k, s)]
  <2>1. k = [s \in SUBSET T |-> k[s]]
    OBVIOUS
  <2> HIDE DEF k
  <2>2. QED
    BY <1>1, <2>1
<1>3. QED
  BY <1>2, Zenon DEF Sums

(* There is such a function for every finite set.                          *)
LEMMA SumsExist ==
    ASSUME NEW g, NEW S, IsFiniteSet(S)
    PROVE  \E h : Sums(g, S, h)
<1> DEFINE F == {T \in SUBSET S : \E h : Sums(g, T, h)}
           V(s) == (CHOOSE h : Sums(g, s, h))[s]
<1>1. ASSUME NEW T \in SUBSET S, \A x \in T : T \ {x} \in F
      PROVE  T \in F
  <2> DEFINE body(s) == IF s = {} THEN 0 ELSE g[Pick(s)] + V(s \ {Pick(s)})
             H == [s \in SUBSET T |-> body(s)]
  <2>1. ASSUME NEW s \in SUBSET T, s # T
        PROVE  Sums(g, s, CHOOSE h : Sums(g, s, h))
    <3>1. PICK x \in T : s \subseteq T \ {x}
      BY <2>1
    <3>2. PICK h : Sums(g, T \ {x}, h)
      BY <1>1
    <3>3. \E k : Sums(g, s, k)
      BY <3>1, <3>2, SumsBelow, Zenon
    <3>4. QED
      BY <3>3, Zenon
  <2>2. ASSUME NEW s \in SUBSET T, s # T
        PROVE  V(s) = body(s)
    <3> DEFINE hs == CHOOSE h : Sums(g, s, h)
               t == s \ {Pick(s)}
               ht == CHOOSE h : Sums(g, t, h)
    <3>1. hs[s] = Summed(g, hs, s)
      <4>1. Sums(g, s, hs) /\ s \in SUBSET s
        BY <2>1, <2>2
      <4> HIDE DEF hs
      <4>2. QED
        BY <4>1, SumsAt, Zenon
    <3>2. ASSUME s # {}
          PROVE  hs[t] = ht[t]
      <4>1. t \in SUBSET T /\ t # T /\ t \in SUBSET s /\ t \in SUBSET t /\ IsFiniteSet(t)
        BY <2>2, FS_Subset
      <4>2. Sums(g, s, hs) /\ Sums(g, t, ht)
        BY <2>1, <2>2, <4>1
      <4> HIDE DEF hs, ht, t
      <4>3. QED
        BY <4>1, <4>2, SumsAgree
    <3>3. V(s) = hs[s] /\ V(t) = ht[t]
      OBVIOUS
    <3> HIDE DEF hs, ht, V
    <3>4. QED
      BY <3>1, <3>2, <3>3, Zenon DEF Summed
  <2>3. ASSUME NEW s \in SUBSET T
        PROVE  H[s] = Summed(g, H, s)
    <3> DEFINE t == s \ {Pick(s)}
    <3>1. H[s] = body(s) /\ H[t] = body(t)
      OBVIOUS
    <3>2. s # {} => t \in SUBSET T /\ t # T
      BY PickIn
    <3>3. s # {} => V(t) = body(t)
      <4> HIDE DEF V, body
      <4>1. QED
        BY <2>2, <3>2, Zenon
    <3> HIDE DEF H, V
    <3>4. QED
      BY <3>1, <3>3, Zenon DEF Summed
  <2>4. Sums(g, T, H)
    <3>1. H = [s \in SUBSET T |-> H[s]]
      OBVIOUS
    <3>2. \A s \in SUBSET T : H[s] = Summed(g, H, s)
      <4> HIDE DEF H
      <4>1. QED
        BY <2>3, Zenon
    <3>3. H = [s \in SUBSET T |-> Summed(g, H, s)]
      <4> HIDE DEF H
      <4>1. QED
        BY <3>1, <3>2
    <3>4. QED
      BY <3>3, Zenon DEF Sums
  <2> HIDE DEF H
  <2>5. QED
    BY <2>4
<1>2. F = SUBSET S
  <2>1. F \in SUBSET (SUBSET S)
    OBVIOUS
  <2> HIDE DEF F
  <2>2. QED
    BY <1>1, <2>1, SubsetsInduced, Zenon
<1>3. S \in F
  BY <1>2, Zenon
<1>4. QED
  BY <1>3

LEMMA SumsInt ==
    ASSUME NEW g, NEW S, IsFiniteSet(S), NEW h, Sums(g, S, h), \A x \in S : g[x] \in Int
    PROVE  \A T \in SUBSET S : h[T] \in Int
<1> DEFINE F == {T \in SUBSET S : h[T] \in Int}
<1>1. ASSUME NEW T \in SUBSET S, \A x \in T : T \ {x} \in F
      PROVE  T \in F
  <2>1. T = {} => h[T] = 0
    BY SumsNone, Zenon
  <2>2. T # {} => /\ h[T] = g[Pick(T)] + h[T \ {Pick(T)}]
                  /\ g[Pick(T)] \in Int /\ h[T \ {Pick(T)}] \in Int
    <3>1. ASSUME T # {}
          PROVE  h[T] = g[Pick(T)] + h[T \ {Pick(T)}]
      <4>1. h[T] = Summed(g, h, T)
        BY SumsAt, Zenon
      <4>2. QED
        BY <3>1, <4>1, Zenon DEF Summed
    <3>2. T # {} => Pick(T) \in T
      BY PickIn, Zenon
    <3>3. QED
      BY <1>1, <3>1, <3>2
  <2>3. h[T] \in Int
    BY <2>1, <2>2
  <2>4. QED
    BY <2>3
<1>2. F = SUBSET S
  <2>1. F \in SUBSET (SUBSET S)
    OBVIOUS
  <2> HIDE DEF F
  <2>2. QED
    BY <1>1, <2>1, SubsetsInduced, Zenon
<1>3. QED
  BY <1>2

(* Any element may be taken first.                                         *)
LEMMA SumsRemove ==
    ASSUME NEW g, NEW S, IsFiniteSet(S), NEW h, Sums(g, S, h), \A x \in S : g[x] \in Int
    PROVE  \A T \in SUBSET S : \A x \in T : h[T] = g[x] + h[T \ {x}]
<1> DEFINE F == {T \in SUBSET S : \A x \in T : h[T] = g[x] + h[T \ {x}]}
<1>1. ASSUME NEW T \in SUBSET S, \A x \in T : T \ {x} \in F
      PROVE  T \in F
  <2>1. SUFFICES ASSUME NEW x \in T
                 PROVE  h[T] = g[x] + h[T \ {x}]
    OBVIOUS
  <2> DEFINE p == Pick(T)
  <2>2. p \in T /\ h[T] = g[p] + h[T \ {p}]
    BY <2>1, SumsSome, PickIn
  <2> HIDE DEF p
  <2>3. CASE x = p
    BY <2>2, <2>3
  <2>4. CASE x # p
    <3>1. h[T \ {p}] = g[x] + h[(T \ {p}) \ {x}]
      BY <1>1, <2>1, <2>2, <2>4
    <3>2. h[T \ {x}] = g[p] + h[(T \ {x}) \ {p}]
      BY <1>1, <2>1, <2>2, <2>4
    <3>3. (T \ {p}) \ {x} = (T \ {x}) \ {p}
      OBVIOUS
    <3>4. g[x] \in Int /\ g[p] \in Int /\ h[(T \ {x}) \ {p}] \in Int
      BY <2>2, SumsInt
    <3> DEFINE rest == h[(T \ {x}) \ {p}]
    <3>5. h[T] = g[p] + (g[x] + rest) /\ h[T \ {x}] = g[p] + rest
      BY <2>2, <3>1, <3>2, <3>3, Zenon
    <3> HIDE DEF rest
    <3>6. rest \in Int
      BY <3>4 DEF rest
    <3>7. QED
      BY <3>4, <3>5, <3>6
  <2>5. QED
    BY <2>3, <2>4
<1>2. F = SUBSET S
  <2>1. F \in SUBSET (SUBSET S)
    OBVIOUS
  <2> HIDE DEF F
  <2>2. QED
    BY <1>1, <2>1, SubsetsInduced, Zenon
<1>3. QED
  BY <1>2

OneIf(x, O) == IF x \in O THEN 1 ELSE 0

(* One more for each element of O is as many more as O has elements.       *)
LEMMA SumsShift ==
    ASSUME NEW g, NEW S, IsFiniteSet(S), NEW h, Sums(g, S, h), \A x \in S : g[x] \in Int,
           NEW f, NEW k, Sums(f, S, k), NEW O,
           \A x \in S : f[x] = g[x] + OneIf(x, O)
    PROVE  \A T \in SUBSET S : k[T] = h[T] + Cardinality(T \cap O)
<1> DEFINE F == {T \in SUBSET S : k[T] = h[T] + Cardinality(T \cap O)}
<1>1. ASSUME NEW T \in SUBSET S, \A x \in T : T \ {x} \in F
      PROVE  T \in F
  <2> DEFINE p == Pick(T)
  <2>1. CASE T = {}
    <3>1. h[T] = 0 /\ k[T] = 0
      BY <2>1, SumsNone, Zenon
    <3>2. Cardinality(T \cap O) = 0
      BY <2>1, FS_EmptySet
    <3>3. QED
      BY <3>1, <3>2
  <2>2. CASE T # {}
    <3>1. p \in T
      BY <2>2, PickIn, Zenon
    <3>2. h[T] = g[p] + h[T \ {p}] /\ k[T] = f[p] + k[T \ {p}]
      <4>1. h[T] = Summed(g, h, T) /\ k[T] = Summed(f, k, T)
        BY SumsAt, Zenon
      <4>2. QED
        BY <2>2, <4>1, Zenon DEF Summed
    <3> HIDE DEF p
    <3>3. k[T \ {p}] = h[T \ {p}] + Cardinality((T \ {p}) \cap O)
      BY <1>1, <3>1
    <3>4. /\ Cardinality((T \ {p}) \cap O) \in Nat
          /\ Cardinality(T \cap O) = Cardinality((T \ {p}) \cap O) + IF p \in O THEN 1 ELSE 0
      <4>1. IsFiniteSet(T \cap O)
        BY FS_Subset
      <4>2. (T \ {p}) \cap O = (T \cap O) \ {p}
        OBVIOUS
      <4>3. Cardinality(T \cap O) \in Nat /\ Cardinality((T \cap O) \ {p}) \in Nat
        BY <4>1, FS_RemoveElement, FS_CardinalityType
      <4>4. Cardinality((T \cap O) \ {p})
              = IF p \in T \cap O THEN Cardinality(T \cap O) - 1 ELSE Cardinality(T \cap O)
        BY <4>1, FS_RemoveElement, Zenon
      <4>5. QED
        BY <3>1, <4>2, <4>3, <4>4
    <3>5. g[p] \in Int /\ h[T \ {p}] \in Int /\ f[p] = g[p] + IF p \in O THEN 1 ELSE 0
      BY <3>1, SumsInt DEF OneIf
    <3>6. k[T] = h[T] + Cardinality(T \cap O)
      BY <3>2, <3>3, <3>4, <3>5
    <3>7. QED
      BY <3>6
  <2>3. QED
    BY <2>1, <2>2
<1>2. F = SUBSET S
  <2>1. F \in SUBSET (SUBSET S)
    OBVIOUS
  <2> HIDE DEF F
  <2>2. QED
    BY <1>1, <2>1, SubsetsInduced, Zenon
<1>3. QED
  BY <1>2
-----------------------------------------------------------------------------
(* A frame that was accepted while somebody listened is read, waits in the *)
(* queue of that subscriber, or is counted as dropped.                     *)

(* What each subscriber has lost, and the sum DropsAreCounted takes of it. *)
Differences(r, j, d, b) == [q \in Subscribers |-> r - j[q] - d[q] - Len(b[q])]
DifferenceSum(S, r, j, d, b) == MapThenSumSet(LAMBDA q : r - j[q] - d[q] - Len(b[q]), S)
LostBy == Differences(received, joined, reads, queue)

(* A sum of differences is chosen as a function that sums them.            *)
LEMMA ChosenSums ==
    ASSUME NEW S \in SUBSET Subscribers, NEW r, NEW j, NEW d, NEW b
    PROVE  \E h : Sums(Differences(r, j, d, b), S, h) /\ DifferenceSum(S, r, j, d, b) = h[S]
<1> DEFINE g == Differences(r, j, d, b)
           one(q) == r - j[q] - d[q] - Len(b[q])
           all(h, s) == IF s = {} THEN 0 ELSE one(Pick(s)) + h[s \ {Pick(s)}]
           P(h) == h = [s \in SUBSET S |-> all(h, s)]
<1>1. ASSUME NEW h
      PROVE  P(h) <=> Sums(g, S, h)
  <2> HIDE DEF one
  <2>1. ASSUME NEW s \in SUBSET S
        PROVE  all(h, s) = Summed(g, h, s)
    <3>1. s # {} => g[Pick(s)] = one(Pick(s))
      BY PickIn DEF one, Differences
    <3>2. QED
      <4> HIDE DEF g
      <4>1. QED
        BY <3>1, Zenon DEF Summed
  <2>2. [s \in SUBSET S |-> all(h, s)] = [s \in SUBSET S |-> Summed(g, h, s)]
    <3> HIDE DEF g, all
    <3>1. QED
      BY <2>1
  <2>3. QED
    BY <2>2, Zenon DEF Sums
<1>2. \E h : P(h)
  <2>1. IsFiniteSet(S)
    BY FeedAssumption, FS_Subset
  <2> HIDE DEF P, g
  <2>2. QED
    BY <1>1, <2>1, SumsExist, Zenon
<1>3. P(CHOOSE h : P(h))
  <2> HIDE DEF P
  <2>1. QED
    BY <1>2, Zenon
<1>4. DifferenceSum(S, r, j, d, b) = (CHOOSE h : P(h))[S]
  BY Zenon DEF DifferenceSum, MapThenSumSet, MapThenFoldSet, Pick
<1>5. Sums(g, S, CHOOSE h : P(h))
  <2> HIDE DEF P, g
  <2>1. QED
    BY <1>1, <1>3, Zenon
<1> HIDE DEF P
<1>6. QED
  BY <1>4, <1>5, Zenon

LEMMA LostIsSummed ==
    ASSUME subscribers \in SUBSET Subscribers
    PROVE  \E h : Sums(LostBy, subscribers, h) /\ MapThenSumSet(Lost, subscribers) = h[subscribers]
<1>1. MapThenSumSet(Lost, subscribers)
        = DifferenceSum(subscribers, received, joined, reads, queue)
  BY Zenon DEF Lost, DifferenceSum, MapThenSumSet, MapThenFoldSet
<1>2. QED
  BY <1>1, ChosenSums, Zenon DEF LostBy

LEMMA LostIsSummedNext ==
    ASSUME subscribers' \in SUBSET Subscribers
    PROVE  \E h : /\ Sums(LostBy', subscribers', h)
                  /\ MapThenSumSet(Lost, subscribers)' = h[subscribers']
<1>1. MapThenSumSet(Lost, subscribers)'
        = DifferenceSum(subscribers', received', joined', reads', queue')
  BY Zenon DEF Lost, DifferenceSum, MapThenSumSet, MapThenFoldSet
<1>2. LostBy' = Differences(received', joined', reads', queue')
  BY Zenon DEF LostBy, Differences
<1>3. QED
  BY <1>1, <1>2, ChosenSums, Zenon

(* The sum and the counters                                                *)
LEMMA LostChanges ==
    ASSUME QueueInv, TypeOK', DropsAreCounted
    PROVE  \E h, k : /\ Sums(LostBy, subscribers, h) /\ Sums(LostBy', subscribers', k)
                     /\ dropped = settled + h[subscribers]
                     /\ DropsAreCounted' <=> dropped' = settled' + k[subscribers']
                     /\ subscribers \in SUBSET Subscribers /\ IsFiniteSet(subscribers)
                     /\ subscribers' \in SUBSET Subscribers /\ IsFiniteSet(subscribers')
                     /\ \A q \in Subscribers : LostBy[q] \in Int
                     /\ h[subscribers] \in Int
<1>1. subscribers \in SUBSET Subscribers /\ subscribers' \in SUBSET Subscribers
  BY DEF QueueInv, TypeOK
<1>2. IsFiniteSet(subscribers) /\ IsFiniteSet(subscribers')
  BY <1>1, FeedAssumption, FS_Subset
<1>3. \A q \in Subscribers : LostBy[q] \in Int
  <2>1. SUFFICES ASSUME NEW q \in Subscribers
                 PROVE  LostBy[q] \in Int
    OBVIOUS
  <2>2. /\ received \in Nat /\ joined[q] \in Nat /\ reads[q] \in Nat /\ queue[q] \in Seq(Frame)
    BY DEF QueueInv, TypeOK
  <2>3. PICK l \in Nat : l = Len(queue[q])
    BY <2>2
  <2>4. LostBy[q] = received - joined[q] - reads[q] - l
    BY <2>3 DEF LostBy, Differences
  <2>5. QED
    BY <2>2, <2>4
<1>4. PICK h : Sums(LostBy, subscribers, h) /\ MapThenSumSet(Lost, subscribers) = h[subscribers]
  BY <1>1, LostIsSummed, Zenon
<1>5. PICK k : /\ Sums(LostBy', subscribers', k)
               /\ MapThenSumSet(Lost, subscribers)' = k[subscribers']
  BY <1>1, LostIsSummedNext, Zenon
<1>6. dropped = settled + h[subscribers]
  BY <1>4, Zenon DEF DropsAreCounted
<1>7. DropsAreCounted' <=> dropped' = settled' + k[subscribers']
  BY <1>5, Zenon DEF DropsAreCounted
<1>8. h[subscribers] \in Int
  BY <1>1, <1>2, <1>3, <1>4, SumsInt
<1>9. QED
  BY <1>1, <1>2, <1>3, <1>4, <1>5, <1>6, <1>7, <1>8, Zenon

(* Nobody is subscribed or leaves, and nobody lost a frame.                *)
LEMMA NobodyLoses ==
    ASSUME QueueInv, TypeOK', DropsAreCounted, UNCHANGED subscribers,
           \A q \in subscribers : LostBy'[q] = LostBy[q],
           dropped' - settled' = dropped - settled
    PROVE  DropsAreCounted'
<1>1. PICK h, k : /\ Sums(LostBy, subscribers, h) /\ Sums(LostBy', subscribers', k)
                  /\ dropped = settled + h[subscribers]
                  /\ DropsAreCounted' <=> dropped' = settled' + k[subscribers']
                  /\ subscribers \in SUBSET Subscribers /\ IsFiniteSet(subscribers)
                  /\ h[subscribers] \in Int
  BY LostChanges, Zenon
<1>2. k[subscribers] = h[subscribers]
  <2>1. subscribers \in SUBSET subscribers /\ Sums(LostBy', subscribers, k)
    BY <1>1
  <2>2. QED
    BY <1>1, <2>1, SumsAgree
<1>3. dropped \in Nat /\ dropped' \in Nat /\ settled \in Int /\ settled' \in Int
  BY DEF QueueInv, TypeOK
<1>4. dropped' = settled' + h[subscribers]
  BY <1>1, <1>3
<1>5. QED
  BY <1>1, <1>2, <1>4, Zenon

(* A frame accepted is lost to each subscriber whose queue overflows.      *)
LEMMA ServeDrops ==
    ASSUME QueueInv, TypeOK', DropsAreCounted,
           NEW s \in Symbols, NEW c \in Conns, Serve(s, c)
    PROVE  DropsAreCounted'
<1> DEFINE frame == Noted(s, Head(lines[s][c]))
<1>1. PICK h, k : /\ Sums(LostBy, subscribers, h) /\ Sums(LostBy', subscribers', k)
                  /\ dropped = settled + h[subscribers]
                  /\ DropsAreCounted' <=> dropped' = settled' + k[subscribers']
                  /\ subscribers \in SUBSET Subscribers /\ IsFiniteSet(subscribers)
                  /\ \A q \in Subscribers : LostBy[q] \in Int
                  /\ h[subscribers] \in Int
  BY LostChanges, Zenon
<1>2. Head(lines[s][c]) \in Line
  <2>1. lines[s][c] \in Seq(Line) /\ lines[s][c] # <<>>
    BY DEF QueueInv, TypeOK, Serve
  <2>2. QED
    BY <2>1
<1>3. frame \in Frame /\ frame.nth = received + 1
  BY <1>2, NotedType DEF QueueInv
<1>4. /\ received' = received + 1 /\ UNCHANGED <<subscribers, reads, joined, settled>>
      /\ dropped' = dropped + Cardinality(Overflowing)
      /\ queue' = [q \in Subscribers |->
                      IF q \in subscribers THEN Put(q, frame) ELSE queue[q]]
  BY DEF Serve, Accept
<1> HIDE DEF frame
<1>5. ASSUME NEW q \in subscribers
      PROVE  LostBy'[q] = LostBy[q] + OneIf(q, Overflowing)
  <2>1. /\ q \in Subscribers /\ queue[q] \in Seq(Frame) /\ received \in Nat
        /\ reads[q] \in Nat /\ joined[q] \in Nat /\ Newest(queue[q], received)
    BY <1>1 DEF QueueInv, TypeOK, QueueOK
  <2>2. /\ Full(q) => Len(Put(q, frame)) = Len(queue[q])
        /\ ~Full(q) => Len(Put(q, frame)) = Len(queue[q]) + 1
    BY <2>1, <1>3, PutNewest
  <2>3. PICK l \in Nat : l = Len(queue[q])
    BY <2>1
  <2>4. LostBy[q] = received - joined[q] - reads[q] - l
    BY <2>1, <2>3 DEF LostBy, Differences
  <2>5. LostBy'[q] = (received + 1) - joined[q] - reads[q] - Len(Put(q, frame))
    <3>1. queue'[q] = Put(q, frame)
      BY <1>4, <2>1
    <3>2. QED
      BY <1>4, <2>1, <3>1 DEF LostBy, Differences
  <2>6. q \in Overflowing <=> Full(q)
    BY DEF Overflowing
  <2>7. CASE Full(q)
    <3>1. LostBy'[q] = (received + 1) - joined[q] - reads[q] - l
      BY <2>2, <2>3, <2>5, <2>7
    <3>2. QED
      BY <2>1, <2>4, <2>6, <2>7, <3>1 DEF OneIf
  <2>8. CASE ~Full(q)
    <3>1. LostBy'[q] = (received + 1) - joined[q] - reads[q] - (l + 1)
      BY <2>2, <2>3, <2>5, <2>8
    <3>2. QED
      BY <2>1, <2>4, <2>6, <2>8, <3>1 DEF OneIf
  <2>9. QED
    BY <2>7, <2>8
<1>6. k[subscribers] = h[subscribers] + Cardinality(subscribers \cap Overflowing)
  <2>1. PICK g, f, S, O : g = LostBy /\ f = LostBy' /\ S = subscribers /\ O = Overflowing
    OBVIOUS
  <2>2. /\ S \in SUBSET S /\ Sums(f, S, k) /\ IsFiniteSet(S) /\ Sums(g, S, h)
        /\ \A q \in S : g[q] \in Int
    BY <1>1, <1>4, <2>1
  <2>3. \A q \in S : f[q] = g[q] + OneIf(q, O)
    BY <1>5, <2>1, Zenon
  <2>4. \A T \in SUBSET S : k[T] = h[T] + Cardinality(T \cap O)
    BY <2>2, <2>3, SumsShift
  <2>5. QED
    BY <2>1, <2>2, <2>4, Zenon
<1>7. subscribers \cap Overflowing = Overflowing /\ Cardinality(Overflowing) \in Nat
  <2>1. Overflowing \in SUBSET subscribers
    BY DEF Overflowing
  <2>2. QED
    BY <1>1, <2>1, FS_Subset, FS_CardinalityType
<1>8. dropped \in Nat /\ settled \in Int
  BY DEF QueueInv, TypeOK
<1>9. dropped' = settled' + k[subscribers']
  <2>1. k[subscribers'] = h[subscribers] + Cardinality(Overflowing)
    BY <1>4, <1>6, <1>7, Zenon
  <2>2. dropped' = (settled + h[subscribers]) + Cardinality(Overflowing)
    BY <1>1, <1>4, Zenon
  <2>3. h[subscribers] \in Int /\ settled' = settled
    BY <1>1, <1>4, Zenon
  <2>4. QED
    BY <1>7, <1>8, <2>1, <2>2, <2>3
<1>10. QED
  BY <1>1, <1>9, Zenon

(* Who subscribes has lost nothing yet.                                    *)
LEMMA SubscribeDrops ==
    ASSUME QueueInv, TypeOK', DropsAreCounted, NEW p \in Subscribers, Subscribe(p)
    PROVE  DropsAreCounted'
<1>1. PICK h, k : /\ Sums(LostBy, subscribers, h) /\ Sums(LostBy', subscribers', k)
                  /\ dropped = settled + h[subscribers]
                  /\ DropsAreCounted' <=> dropped' = settled' + k[subscribers']
                  /\ subscribers \in SUBSET Subscribers /\ IsFiniteSet(subscribers)
                  /\ IsFiniteSet(subscribers')
                  /\ h[subscribers] \in Int
  BY LostChanges, Zenon
<1>2. /\ p \notin subscribers /\ subscribers' = subscribers \cup {p}
      /\ UNCHANGED <<received, dropped, settled, queue, reads>>
      /\ joined' = [joined EXCEPT ![p] = received]
  BY DEF Subscribe, countVars
<1>3. /\ received \in Nat /\ joined \in [Subscribers -> Nat] /\ reads[p] = 0 /\ queue[p] = <<>>
  BY <1>2 DEF QueueInv, TypeOK, QueueOK
<1>4. LostBy'[p] = 0
  <2>1. LostBy'[p] = received - received - 0 - Len(<<>>)
    BY <1>2, <1>3 DEF LostBy, Differences
  <2>2. Len(<<>>) = 0 /\ received - received - 0 - 0 = 0
    BY <1>3
  <2>3. QED
    BY <2>1, <2>2
<1>5. ASSUME NEW q \in subscribers
      PROVE  LostBy'[q] = LostBy[q]
  <2>1. q \in Subscribers /\ q # p /\ joined'[q] = joined[q]
    BY <1>1, <1>2, <1>3
  <2>2. QED
    BY <1>2, <2>1 DEF LostBy, Differences
<1>6. k[subscribers] = h[subscribers]
  <2>1. subscribers \in SUBSET subscribers /\ subscribers \in SUBSET subscribers'
    BY <1>2
  <2>2. QED
    BY <1>1, <1>5, <2>1, SumsAgree
<1>7. k[subscribers'] = LostBy'[p] + k[subscribers' \ {p}]
  <2>1. \A q \in subscribers' : LostBy'[q] \in Int
    <3>1. \A q \in Subscribers : LostBy[q] \in Int
      BY LostChanges, Zenon
    <3>2. QED
      BY <1>1, <1>2, <1>4, <1>5, <3>1
  <2>2. subscribers' \in SUBSET subscribers' /\ p \in subscribers'
    BY <1>2
  <2>3. QED
    BY <1>1, <2>1, <2>2, SumsRemove
<1>8. subscribers' \ {p} = subscribers
  BY <1>2
<1>9. k[subscribers'] = h[subscribers]
  BY <1>1, <1>4, <1>6, <1>7, <1>8
<1>10. QED
  BY <1>1, <1>2, <1>9, Zenon

(* What a subscriber that leaves has lost is settled.                      *)
LEMMA UnsubscribeDrops ==
    ASSUME QueueInv, TypeOK', DropsAreCounted, NEW p \in Subscribers, Unsubscribe(p)
    PROVE  DropsAreCounted'
<1>1. PICK h, k : /\ Sums(LostBy, subscribers, h) /\ Sums(LostBy', subscribers', k)
                  /\ dropped = settled + h[subscribers]
                  /\ DropsAreCounted' <=> dropped' = settled' + k[subscribers']
                  /\ subscribers \in SUBSET Subscribers /\ IsFiniteSet(subscribers)
                  /\ IsFiniteSet(subscribers')
                  /\ \A q \in Subscribers : LostBy[q] \in Int
                  /\ h[subscribers] \in Int
  BY LostChanges, Zenon
<1>2. /\ p \in subscribers /\ subscribers' = subscribers \ {p}
      /\ UNCHANGED <<received, dropped>>
      /\ settled' = settled + Lost(p)
      /\ queue' = [queue EXCEPT ![p] = <<>>]
      /\ reads' = [reads EXCEPT ![p] = 0]
      /\ joined' = [joined EXCEPT ![p] = 0]
  BY DEF Unsubscribe
<1>3. Lost(p) = LostBy[p]
  BY DEF LostBy, Differences, Lost
<1>4. ASSUME NEW q \in subscribers'
      PROVE  LostBy'[q] = LostBy[q]
  <2>1. /\ q \in Subscribers /\ joined'[q] = joined[q] /\ reads'[q] = reads[q]
        /\ queue'[q] = queue[q]
    BY <1>1, <1>2 DEF QueueInv, TypeOK
  <2>2. QED
    BY <1>2, <2>1 DEF LostBy, Differences
<1>5. h[subscribers'] = k[subscribers']
  <2>1. subscribers' \in SUBSET subscribers' /\ subscribers' \in SUBSET subscribers
    BY <1>2
  <2>2. QED
    BY <1>1, <1>4, <2>1, SumsAgree
<1>6. h[subscribers] = LostBy[p] + h[subscribers \ {p}]
  <2>1. subscribers \in SUBSET subscribers /\ \A q \in subscribers : LostBy[q] \in Int
    BY <1>1
  <2>2. QED
    BY <1>1, <1>2, <2>1, SumsRemove
<1>7. h[subscribers] = LostBy[p] + k[subscribers']
  BY <1>2, <1>5, <1>6
<1>8. settled \in Int /\ LostBy[p] \in Int /\ k[subscribers'] \in Int
  <2>1. subscribers' \in SUBSET subscribers /\ \A q \in subscribers : LostBy[q] \in Int
    BY <1>1, <1>2
  <2>2. h[subscribers'] \in Int
    BY <1>1, <2>1, SumsInt
  <2>3. QED
    BY <1>1, <1>5, <2>2 DEF QueueInv, TypeOK
<1>9. dropped' = settled' + k[subscribers']
  BY <1>1, <1>2, <1>3, <1>7, <1>8
<1>10. QED
  BY <1>1, <1>9, Zenon

LEMMA ReadOneMore ==
    ASSUME NEW a \in Nat, NEW b \in Nat, NEW c \in Nat, NEW l \in Nat
    PROVE  a - b - (c + 1) - (l - 1) = a - b - c - l
  OBVIOUS

(* What is read is not lost.                                               *)
LEMMA TakeDrops ==
    ASSUME QueueInv, TypeOK', DropsAreCounted, NEW p \in Subscribers, Take(p)
    PROVE  DropsAreCounted'
<1>1. /\ UNCHANGED <<received, dropped, settled, subscribers, joined>>
      /\ queue[p] # <<>> /\ queue' = [queue EXCEPT ![p] = Tail(@)]
      /\ reads' = [reads EXCEPT ![p] = @ + 1]
  BY DEF Take, countVars
<1>2. ASSUME NEW q \in Subscribers
      PROVE  LostBy'[q] = LostBy[q]
  <2>1. /\ queue[q] \in Seq(Frame) /\ received \in Nat /\ reads[q] \in Nat /\ joined[q] \in Nat
    BY DEF QueueInv, TypeOK
  <2>2. PICK l \in Nat : l = Len(queue[q])
    BY <2>1
  <2>3. LostBy[q] = received - joined[q] - reads[q] - l
    BY <2>2 DEF LostBy, Differences
  <2>4. LostBy'[q] = received - joined[q] - reads'[q] - Len(queue'[q])
    BY <1>1 DEF LostBy, Differences
  <2>5. CASE q = p
    <3>1. reads'[q] = reads[q] + 1 /\ queue'[q] = Tail(queue[q])
      BY <1>1, <2>5 DEF QueueInv, TypeOK
    <3>2. Len(Tail(queue[q])) = l - 1
      BY <1>1, <2>1, <2>2, <2>5
    <3>3. LostBy'[q] = received - joined[q] - (reads[q] + 1) - (l - 1)
      BY <2>4, <3>1, <3>2
    <3>4. PICK a \in Nat, b \in Nat, c \in Nat : a = received /\ b = joined[q] /\ c = reads[q]
      BY <2>1, Zenon
    <3>5. a - b - (c + 1) - (l - 1) = a - b - c - l
      OBVIOUS
    <3>6. QED
      BY <2>3, <3>3, <3>4, <3>5, Zenon
  <2>6. CASE q # p
    <3>1. reads'[q] = reads[q] /\ queue'[q] = queue[q]
      BY <1>1, <2>6 DEF QueueInv, TypeOK
    <3>2. QED
      BY <2>2, <2>3, <2>4, <3>1
  <2>7. QED
    BY <2>5, <2>6
<1>3. subscribers \subseteq Subscribers
  BY DEF QueueInv, TypeOK
<1>4. dropped' - settled' = dropped - settled
  BY <1>1
<1>5. QED
  BY <1>1, <1>2, <1>3, <1>4, NobodyLoses

LEMMA DropsStep == QueueInv /\ DropsAreCounted /\ [Next]_vars => DropsAreCounted'
<1> SUFFICES ASSUME QueueInv, DropsAreCounted, [Next]_vars
             PROVE  DropsAreCounted'
  OBVIOUS
<1>1. TypeOK'
  BY TypeOKStep DEF QueueInv
<1>2. ASSUME UNCHANGED <<received, queueVars>>, dropped' - settled' = dropped - settled
      PROVE  DropsAreCounted'
  <2>1. LostBy' = LostBy /\ subscribers' = subscribers
    BY <1>2 DEF queueVars, LostBy, Differences
  <2>2. QED
    BY <1>1, <1>2, <2>1, NobodyLoses
<1>3. ASSUME UNCHANGED <<countVars, queueVars>>
      PROVE  DropsAreCounted'
  BY <1>2, <1>3 DEF countVars
<1>4. ASSUME NEW s \in Symbols, EANext(s)
      PROVE  DropsAreCounted'
  BY <1>3, <1>4 DEF EANext, OnInit, OnDeinit, OnTimer, OnTick, UnseenTick, feedVars
<1>5. ASSUME NEW s \in Symbols, GoStale(s)
      PROVE  DropsAreCounted'
  BY <1>3, <1>5 DEF GoStale
<1>6. ASSUME NEW s \in Symbols, NEW c \in Conns, ServeEnd(s, c)
      PROVE  DropsAreCounted'
  BY <1>3, <1>6 DEF ServeEnd, feedVars
<1>7. CASE Stop
  <2>1. subscribers' = {} /\ dropped' = 0 /\ settled' = 0
    BY <1>7 DEF Stop
  <2>2. PICK k : /\ Sums(LostBy', subscribers', k)
                 /\ MapThenSumSet(Lost, subscribers)' = k[subscribers']
    BY <2>1, LostIsSummedNext
  <2>3. k[{}] = 0
    BY <2>2, SumsNone, Zenon
  <2>4. QED
    BY <2>1, <2>2, <2>3 DEF DropsAreCounted
<1>8. CASE AcceptJunk
  <2>1. /\ UNCHANGED <<received, queueVars>>
        /\ dropped' = dropped + 1 /\ settled' = settled + 1
    BY <1>8 DEF AcceptJunk
  <2>2. dropped \in Nat /\ settled \in Int
    BY DEF QueueInv, TypeOK
  <2>3. QED
    BY <1>2, <2>1, <2>2
<1>9. CASE Start
  BY <1>3, <1>9 DEF Start
<1>10. CASE UNCHANGED vars
  BY <1>3, <1>10 DEF vars, feedVars
<1>11. QED
  BY <1>1, <1>4, <1>5, <1>6, <1>7, <1>8, <1>9, <1>10, ServeDrops, SubscribeDrops,
     UnsubscribeDrops, TakeDrops DEF Next, ServeNext, ConsumerNext

(* `dropped` counts every frame some subscriber lost, once for each, and   *)
(* every line refused, whoever comes and goes (_publish, _accept).         *)
THEOREM DropsAlwaysCounted == Spec => []DropsAreCounted
<1>1. Init => QueueInv /\ DropsAreCounted
  <2>1. SUFFICES ASSUME Init
                 PROVE  DropsAreCounted
    BY QueueInvInit, TypeOKInit DEF QueueInv
  <2>2. subscribers = {} /\ dropped = 0 /\ settled = 0
    BY <2>1 DEF Init
  <2>3. PICK h : Sums(LostBy, subscribers, h) /\ MapThenSumSet(Lost, subscribers) = h[subscribers]
    BY <2>2, LostIsSummed
  <2>4. h[{}] = 0
    BY <2>3, SumsNone, Zenon
  <2>5. QED
    BY <2>2, <2>3, <2>4 DEF DropsAreCounted
<1>2. QED
  BY <1>1, QueueInvStep, DropsStep, PTL DEF Spec
=============================================================================
