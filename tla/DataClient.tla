----------------------------- MODULE DataClient -----------------------------
(***************************************************************************)
(* The data client of the Nautilus adapter (nautilus_mt5/data.py) for one  *)
(* instrument: the task behind a subscription, the watermark that makes a  *)
(* tick published once, the refill from the terminal's history, and the    *)
(* bounded queue of Bridge.stream (nautilus_mt5/bridge.py).  The source of *)
(* the subscription is one of "poll", "ticks", "push" and "bars".          *)
(*                                                                         *)
(* Ticks and bars carry the server's time, and "MT5 stamps ticks in broker *)
(* server time, which is not UTC" (clocks.py), while the client asks for   *)
(* ranges and tells a closed bar by its own clock.                         *)
(***************************************************************************)
EXTENDS Integers, FiniteSets, Sequences, FiniteSetsExt

CONSTANTS Sources, Quotes,
          Second,          \* moments of a second, the unit of a range of ticks
          BarLength,       \* moments of a bar
          STREAM_BACKLOG,
          Start,           \* the client's clock when it starts
          Offsets,         \* by how much the server's clock may be ahead of it
          MaxTicks, MaxTime    \* bounds: ticks of the terminal, the clock

ASSUME DataAssumption ==
    /\ Sources \subseteq {"poll", "ticks", "push", "bars"}
    /\ {Second, BarLength, STREAM_BACKLOG} \subseteq Nat \ {0}
    /\ MaxTicks \in Nat /\ Start \in Nat /\ MaxTime \in Nat
    /\ Second <= Start /\ Start <= MaxTime
    /\ Offsets \subseteq Int /\ \A d \in Offsets : Start + d > 0

VARIABLES
  now,        \* the client's clock, in moments since long ago
  ahead,      \* what the server's clock shows on top of it
  history,    \* the terminal's ticks, [msc, quote], numbered as the EA does
  source,
  task,       \* the poller and, under "push", its stream
  since,      \* where the watermark started
  mark,       \* _mark: newest time published and the quotes published at it
  lastBar,    \* _last_bar
  published,  \* numbers of the ticks, or bars, handed to the engine, in order
  uncovered   \* ticks no refill asked for and no number gave away

vars == <<now, ahead, history, source, task, since, mark, lastBar, published, uncovered>>

NoMark == [msc |-> -1, seen |-> {}]
Stopped == [at |-> "off", from |-> 0, upto |-> 0, rows |-> {}, seq |-> 0,
            frame |-> 0, queue |-> <<>>, read |-> 0, when |-> 0]

Init ==
    /\ now = Start /\ ahead \in Offsets /\ history = <<>>
    /\ source \in Sources
    /\ task = Stopped /\ since = 0 /\ mark = NoMark /\ lastBar = -1
    /\ published = <<>> /\ uncovered = {}

Newest == Len(history)
ServerTime == now + ahead

(* A bar exists when it has a tick; its row is what it holds so far.       *)
BarOf(i) == history[i].msc \div BarLength
Held(k) == Cardinality({i \in 1..Newest : BarOf(i) = k})
BarRows == {[opened |-> k, held |-> Held(k)] : k \in {BarOf(i) : i \in 1..Newest}}
-----------------------------------------------------------------------------
(* Fault: the time alone is compared. *)
FreshByTime(st, t) == t.msc >= st.msc

(* _publish_tick: refused below the watermark, and at it when the same     *)
(* quote went out already.                                                 *)
Fresh(st, t) == t.msc > st.msc \/ (t.msc = st.msc /\ t.quote \notin st.seen)

PublishTick(st, i) ==
    LET t == history[i] IN
    IF ~Fresh(st, t) THEN st
    ELSE [msc |-> t.msc, out |-> Append(st.out, i),
          seen |-> IF t.msc > st.msc THEN {t.quote} ELSE st.seen \cup {t.quote}]

(* One after the other; after[n] is what the first n of them leave.        *)
Publish(numbers) ==
    LET after[n \in 0..Len(numbers)] ==
          IF n = 0 THEN [msc |-> mark.msc, seen |-> mark.seen, out |-> published]
          ELSE PublishTick(after[n - 1], numbers[n])
        st == after[Len(numbers)]
    IN  /\ mark' = [msc |-> st.msc, seen |-> st.seen]
        /\ published' = st.out

(* _catch_up sorts what the range holds. *)
Sorted(S) ==
    CHOOSE s \in [1..Cardinality(S) -> S] :
       /\ \A m, n \in DOMAIN s : m < n => s[m] < s[n]
       /\ \A i \in S : \E n \in DOMAIN s : s[n] = i
-----------------------------------------------------------------------------
(* The terminal, and the path of a pushed frame.                           *)

Streaming == task.at = "stream" \/ task.frame # 0

(* A full queue drops its oldest frame.                                    *)
Received(f) ==
    Append(IF Len(task.queue) = STREAM_BACKLOG THEN Tail(task.queue) ELSE task.queue, f)

Tick(quote) ==
    /\ Newest < MaxTicks
    /\ history' = Append(history, [msc |-> ServerTime, quote |-> quote])
    /\ task' = IF Streaming THEN [task EXCEPT !.queue = Received(Newest + 1)] ELSE task
    /\ UNCHANGED <<now, ahead, source, since, mark, lastBar, published, uncovered>>

(* A frame lost before the client's queue: feed, socket or bridge dropped it. *)
TickUnsent(quote) ==
    /\ Newest < MaxTicks /\ Streaming
    /\ history' = Append(history, [msc |-> ServerTime, quote |-> quote])
    /\ UNCHANGED <<now, ahead, source, task, since, mark, lastBar, published, uncovered>>

Clock ==
    /\ now < MaxTime
    /\ now' = now + 1
    /\ UNCHANGED <<ahead, history, source, task, since, mark, lastBar, published, uncovered>>
-----------------------------------------------------------------------------
(* Subscriptions.  A mark from an earlier subscription is kept; the first  *)
(* starts from now, or from nothing for a poll.                            *)

Subscribe ==
    /\ task.at = "off"
    /\ task' = [Stopped EXCEPT !.at = "idle", !.read = task.read]
    /\ IF mark # NoMark \/ source = "bars" THEN UNCHANGED <<since, mark>>
       ELSE /\ since' = IF source = "poll" THEN 0 ELSE now
            /\ mark' = [msc |-> since', seen |-> {}]
    /\ UNCHANGED <<now, ahead, history, source, lastBar, published, uncovered>>

(* _stop, or _disconnect: the task is cancelled where it awaits, and its   *)
(* stream is closed.                                                       *)
Unsubscribe ==
    /\ task.at # "off"
    /\ task' = [Stopped EXCEPT !.read = task.read]
    /\ UNCHANGED <<now, ahead, history, source, since, mark, lastBar, published, uncovered>>
-----------------------------------------------------------------------------
(* One round of a task.  A request is asked, answered from the terminal's  *)
(* state, and its answer read, in three steps.                             *)

AskRange(q) ==
    [q EXCEPT !.at = "asked", !.rows = {},
              !.from = IF mark.msc > 0 THEN mark.msc \div Second ELSE now \div Second,
              !.upto = now \div Second + 1]

Ask ==
    /\ task.at = "idle"
    /\ task' = AskRange(task)
    /\ UNCHANGED <<now, ahead, history, source, since, mark, lastBar, published, uncovered>>

InRange(i) ==
    /\ history[i].msc >= task.from * Second
    /\ history[i].msc <= task.upto * Second

(* symbol_info_tick, copy_ticks_range, copy_rates_from_pos for two bars.   *)
Reply ==
    CASE source = "poll" -> {Newest} \ {0}
      [] source = "bars" ->
           {b \in BarRows : Cardinality({c \in BarRows : c.opened > b.opened}) < 2}
      [] OTHER -> {i \in 1..Newest : InRange(i)}

Answer ==
    /\ task.at = "asked"
    /\ task' = [task EXCEPT !.at = "answered", !.rows = Reply,
                  !.when = IF source = "bars" THEN now ELSE @]
    /\ UNCHANGED <<now, ahead, history, source, since, mark, lastBar, published, uncovered>>

(* Fault: what a call raises ends the task. *)
FailsForGood ==
    /\ task.at \in {"asked", "connect", "stream"}
    /\ task' = [Stopped EXCEPT !.at = "dead", !.read = task.read]
    /\ UNCHANGED <<now, ahead, history, source, since, mark, lastBar, published, uncovered>>

(* A call raises or the stream ends: the next round starts afresh.         *)
Fails ==
    /\ task.at \in {"asked", "connect", "stream"}
    /\ task' = [Stopped EXCEPT !.at = "idle", !.read = task.read]
    /\ UNCHANGED <<now, ahead, history, source, since, mark, lastBar, published, uncovered>>

(* What the refill of a gap did not ask for: the server stamped it after   *)
(* the end of the range, which is the client's time.                       *)
Unasked ==
    {i \in task.read + 1 .. task.frame - 1 : ahead > 0 /\ ~InRange(i)}

(* The rows, and after a gap the frame that showed it.                     *)
ReadTicks ==
    /\ task.at = "answered" /\ source # "bars"
    /\ Publish(Sorted(task.rows) \o (IF task.frame = 0 THEN <<>> ELSE <<task.frame>>))
    /\ task' = [task EXCEPT !.rows = {}, !.frame = 0, !.from = 0, !.upto = 0,
                  !.at = IF source # "push" THEN "idle"
                         ELSE IF task.frame = 0 THEN "connect" ELSE "stream",
                  !.read = IF source = "push" THEN Max(task.rows \cup {@, task.frame}) ELSE @]
    /\ uncovered' = uncovered \cup Unasked
    /\ UNCHANGED <<now, ahead, history, source, since, lastBar>>

(* Fault: a bar counts as closed from its opening on. *)
IsFormingUntilOpened(opened) == now < opened * BarLength

(* _is_forming: the server's time of the opening against the client's      *)
(* clock when the answer is read.                                          *)
IsForming(opened) == now < (opened + 1) * BarLength

ReadBars ==
    /\ task.at = "answered" /\ source = "bars"
    /\ LET ready == {b \in task.rows : b.opened > lastBar /\ ~IsForming(b.opened)}
           opened == Sorted({b.opened : b \in ready})
           bar(n) == LET b == CHOOSE c \in ready : c.opened = opened[n]
                     IN  [opened |-> b.opened, held |-> b.held, waited |-> now - task.when]
       IN  /\ published' = published \o [n \in DOMAIN opened |-> bar(n)]
           /\ lastBar' = Max({b.opened : b \in ready} \cup {lastBar})
    /\ task' = [Stopped EXCEPT !.at = "idle"]
    /\ UNCHANGED <<now, ahead, history, source, since, mark, uncovered>>

(* Bridge.stream: connected and subscribed.  The sequence starts anew.     *)
Open ==
    /\ task.at = "connect"
    /\ task' = [task EXCEPT !.at = "stream"]
    /\ UNCHANGED <<now, ahead, history, source, since, mark, lastBar, published, uncovered>>

(* Fault: a gap is not looked for. *)
NoGap(f) == FALSE

Gap(f) == task.seq # 0 /\ f # task.seq + 1

(* The next frame.  A number is noted, and a gap is refilled before the    *)
(* frame goes out; the transport may give it none.  Nothing tells what was *)
(* lost before a frame without a number, or before the first of a stream.  *)
TakeFrame(numbered) ==
    /\ task.at = "stream" /\ task.queue # <<>>
    /\ LET f == Head(task.queue)
           q == [task EXCEPT !.queue = Tail(@), !.seq = IF numbered THEN f ELSE @]
       IN  IF numbered /\ Gap(f)
           THEN /\ task' = AskRange([q EXCEPT !.frame = f])
                /\ UNCHANGED <<mark, published, uncovered>>
           ELSE /\ task' = [q EXCEPT !.read = Max({@, f})]
                /\ Publish(<<f>>)
                /\ uncovered' = IF numbered /\ task.seq # 0 THEN uncovered
                                ELSE uncovered \cup task.read + 1 .. f - 1
    /\ UNCHANGED <<now, ahead, history, source, since, lastBar>>
-----------------------------------------------------------------------------
Round ==
    \/ Ask \/ Answer \/ ReadTicks \/ ReadBars \/ Open
    \/ \E numbered \in BOOLEAN : TakeFrame(numbered)

Next ==
    \/ \E quote \in Quotes : Tick(quote) \/ TickUnsent(quote)
    \/ Clock \/ Subscribe \/ Unsubscribe \/ Fails \/ Round

Spec == Init /\ [][Next]_vars

(* The loop runs the task, and the bridge does not fail every call.        *)
FairSpec == Spec /\ WF_vars(Round) /\ SF_vars(Answer)
-----------------------------------------------------------------------------
(* Properties.                                                             *)

TypeOK ==
    /\ now \in Start..MaxTime /\ ahead \in Offsets /\ source \in Sources
    /\ history \in Seq([msc : 1..MaxTime + ahead, quote : Quotes])
    /\ task.at \in {"off", "idle", "asked", "answered", "connect", "stream"}
    /\ task.frame # 0 => task.at \in {"asked", "answered"} /\ source = "push"
    /\ Len(task.queue) <= STREAM_BACKLOG
    /\ task.at \in {"connect", "stream"} => source = "push"
    /\ mark.seen \subseteq Quotes
    /\ mark.msc <= now \/ mark.msc <= ServerTime
    /\ uncovered \subseteq 1..Newest

Same(i, j) == history[i] = history[j]
WentOut(i) == \E n \in DOMAIN published : Same(published[n], i)

(* What the strategy is fed is in order of time and has nothing twice,     *)
(* through refills that overlap, replayed and late frames, and a new       *)
(* subscription: "that is what lets an overlapping backfill or a replayed  *)
(* frame be recognised without dropping a genuine second tick" (data.py).  *)
PublishedOnce ==
    \A m, n \in DOMAIN published : m < n =>
       IF source = "bars" THEN published[m].opened < published[n].opened
       ELSE /\ history[published[m]].msc <= history[published[n]].msc
            /\ ~Same(published[m], published[n])

Safe == TypeOK /\ PublishedOnce

(* "Publish every tick since the watermark" (_catch_up), and "a jump means *)
(* ticks were lost ... and the gap is refilled" (_stream_quotes): once a   *)
(* tick went out, no older one the server stamped since the watermark      *)
(* began was passed over, however calls fail, frames are lost or dropped   *)
(* and the clocks differ, but for what nothing gave away or asked for.     *)
Owed(i) == history[i].msc >= since /\ i \notin uncovered
NothingSkipped ==
    source \in {"ticks", "push"} =>
       \A i \in 1..Newest : Owed(i) /\ history[i].msc < mark.msc => WentOut(i)

(* "the gap is refilled from copy_ticks_range rather than ignored"         *)
(* (_stream_quotes): a refill leaves nothing of its gap unasked for.  It   *)
(* does when the server's clock is ahead (MCDataClient_ahead.cfg).         *)
GapsRefilled == [][task.at = "answered" => uncovered' = uncovered]_vars

(* "the closed bar is the one behind it, and only that one is published":  *)
(* a bar read no later than the server's clock is ahead of the client's    *)
(* holds every tick of its time.  A later one may have been answered while *)
(* it formed (MCDataClient_forming.cfg).                                   *)
Whole(bar) == bar.held = Held(bar.opened)
OnlyClosedBars ==
    source = "bars" =>
       \A n \in DOMAIN published : published[n].waited <= ahead => Whole(published[n])
EveryBarClosed == source = "bars" => \A n \in DOMAIN published : Whole(published[n])

(* The latest tick gets to a strategy that stays subscribed, by asking; in *)
(* a range, once the client's clock has come to the server's stamp of it.  *)
Reached(i) ==
    history[i].msc >= since /\ history[i].msc <= (now \div Second + 1) * Second
LatestAwaited ==
    /\ source \in {"poll", "ticks"} /\ task.at # "off" /\ Newest > 0
    /\ source = "ticks" => Reached(Newest)
    /\ ~WentOut(Newest)
LatestArrives == LatestAwaited ~> ~LatestAwaited
=============================================================================
