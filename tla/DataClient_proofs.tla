------------------------- MODULE DataClient_proofs -------------------------
(***************************************************************************)
(* What a strategy is fed, for any ticks, clock, losses and sources.       *)
(*                                                                         *)
(* _publish_tick handles one tick; that it does what it should to a whole  *)
(* batch is an induction over the batch, and that a batch is in order, one *)
(* over the set it was sorted from.  Both are inductions over sets: the    *)
(* numbers, or subsets, a claim holds of are all of them, since a least    *)
(* one it fails of does not exist (SubsetsInduced, NatInduced).            *)
(*                                                                         *)
(* FeedInv is the inductive invariant of the watermark, CompleteInv of     *)
(* what the refills leave settled, BarsInv of the bars.                    *)
(***************************************************************************)
EXTENDS DataClient, TLAPS, FiniteSetTheorems, WellFoundedInduction

(* Induction over the subsets of a finite set and over the naturals, as    *)
(* statements about sets.                                                  *)
LEMMA SubsetsInduced ==
    ASSUME NEW S, IsFiniteSet(S), NEW F \in SUBSET (SUBSET S),
           \A T \in SUBSET S : (\A x \in T : T \ {x} \in F) => T \in F
    PROVE  F = SUBSET S
<1> DEFINE Bad == (SUBSET S) \ F
<1>1. SUFFICES ASSUME Bad # {}
               PROVE  FALSE
  OBVIOUS
<1>2. Bad \subseteq FiniteSubsetsOf(S)
  BY FS_Subset DEF FiniteSubsetsOf
<1>3. PICK T \in Bad : \A U \in Bad : ~ (<<U, T>> \in StrictSubsetOrdering(S))
  <2> HIDE DEF Bad
  <2>1. QED
    BY <1>1, <1>2, WFMin, FS_StrictSubsetOrderingWellFounded
<1>4. \A x \in T : T \ {x} \in F
  <2>1. SUFFICES ASSUME NEW x \in T, T \ {x} \notin F
                 PROVE  FALSE
    OBVIOUS
  <2>2. T \ {x} \in Bad /\ T \in SUBSET S
    BY <2>1
  <2>3. <<T \ {x}, T>> \in StrictSubsetOrdering(S)
    BY <2>2, <2>1 DEF StrictSubsetOrdering
  <2>4. QED
    BY <2>2, <2>3, <1>3
<1>5. QED
  BY <1>3, <1>4

LEMMA NatInduced ==
    ASSUME NEW F \in SUBSET Nat, 0 \in F, \A n \in F : n + 1 \in F
    PROVE  F = Nat
<1> DEFINE Bad == Nat \ F
<1>1. SUFFICES ASSUME Bad # {}
               PROVE  FALSE
  OBVIOUS
<1>2. PICK n \in Bad : \A m \in Bad : ~ (<<m, n>> \in OpToRel(<, Nat))
  <2>1. IsWellFoundedOn(OpToRel(<, Nat), Nat)
    BY NatLessThanWellFounded
  <2>2. QED
    BY <1>1, <2>1, WFMin
<1>3. n # 0 /\ n \in Nat /\ n - 1 \in Nat
  OBVIOUS
<1>4. <<n - 1, n>> \in OpToRel(<, Nat)
  BY <1>3 DEF OpToRel
<1>5. n - 1 \in F
  BY <1>2, <1>3, <1>4
<1>6. QED
  BY <1>3, <1>5

(* Max is the greatest of a finite set, and Sorted enumerates one.         *)
LEMMA Greatest ==
    ASSUME NEW S \in SUBSET Int, IsFiniteSet(S), S # {}
    PROVE  \E x \in S : \A y \in S : x >= y
<1> DEFINE F == {T \in SUBSET S : T # {} => \E x \in T : \A y \in T : x >= y}
<1>1. ASSUME NEW T \in SUBSET S, \A x \in T : T \ {x} \in F
      PROVE  T \in F
  <2>1. SUFFICES ASSUME T # {}
                 PROVE  \E x \in T : \A y \in T : x >= y
    OBVIOUS
  <2>2. PICK z \in T : TRUE
    BY <2>1
  <2>3. CASE T \ {z} = {}
    BY <2>2, <2>3
  <2>4. CASE T \ {z} # {}
    <3>1. PICK x \in T \ {z} : \A y \in T \ {z} : x >= y
      BY <1>1, <2>2, <2>4
    <3>2. x \in Int /\ z \in Int
      OBVIOUS
    <3>3. \A y \in T : y \in Int
      OBVIOUS
    <3>4. CASE z >= x
      BY <3>1, <3>2, <3>3, <3>4
    <3>5. CASE x >= z
      BY <3>1, <3>2, <3>3, <3>5
    <3>6. QED
      BY <3>2, <3>4, <3>5
  <2>5. QED
    BY <2>3, <2>4
<1>2. F = SUBSET S
  <2>1. F \in SUBSET (SUBSET S)
    OBVIOUS
  <2> HIDE DEF F
  <2>2. QED
    BY <1>1, <2>1, SubsetsInduced, Zenon
<1>3. QED
  BY <1>2

LEMMA MaxIsGreatest ==
    ASSUME NEW S \in SUBSET Int, IsFiniteSet(S), S # {}
    PROVE  Max(S) \in S /\ \A y \in S : Max(S) >= y
  BY Greatest, Zenon DEF Max

Enumerates(s, S) ==
    /\ s \in [1..Cardinality(S) -> S]
    /\ \A m, n \in DOMAIN s : m < n => s[m] < s[n]
    /\ \A i \in S : \E n \in DOMAIN s : s[n] = i

LEMMA Enumerable ==
    ASSUME NEW S \in SUBSET Int, IsFiniteSet(S)
    PROVE  \E s : Enumerates(s, S)
<1> DEFINE F == {T \in SUBSET S : \E s : Enumerates(s, T)}
<1>1. ASSUME NEW T \in SUBSET S, \A x \in T : T \ {x} \in F
      PROVE  T \in F
  <2>1. CASE T = {}
    <3>1. Cardinality(T) = 0
      BY <2>1, FS_EmptySet
    <3>2. Enumerates(<<>>, T)
      BY <2>1, <3>1 DEF Enumerates
    <3>3. QED
      BY <3>2
  <2>2. CASE T # {}
    <3>1. PICK x \in T : \A y \in T : x >= y
      BY <2>2, FS_Subset, Greatest
    <3>2. PICK s : Enumerates(s, T \ {x})
      BY <1>1
    <3>3. PICK c \in Nat : c = Cardinality(T \ {x}) /\ Cardinality(T) = c + 1
      <4>1. IsFiniteSet(T \ {x}) /\ T = (T \ {x}) \cup {x}
        BY FS_Subset
      <4>2. Cardinality(T \ {x}) \in Nat /\ Cardinality(T) = Cardinality(T \ {x}) + 1
        BY <4>1, FS_AddElement, FS_CardinalityType
      <4>3. QED
        BY <4>2
    <3>4. /\ s \in [1..c -> T \ {x}]
          /\ \A m, n \in 1..c : m < n => s[m] < s[n]
          /\ \A i \in T \ {x} : \E n \in 1..c : s[n] = i
      BY <3>2, <3>3 DEF Enumerates
    <3> DEFINE t == [n \in 1..c + 1 |-> IF n = c + 1 THEN x ELSE s[n]]
    <3>5. /\ t \in [1..c + 1 -> T] /\ t[c + 1] = x
          /\ \A n \in 1..c : t[n] = s[n] /\ s[n] \in T \ {x}
      BY <3>4
    <3> HIDE DEF t
    <3>6. \A n \in 1..c : t[n] < x
      <4>1. SUFFICES ASSUME NEW n \in 1..c
                     PROVE  t[n] < x
        OBVIOUS
      <4>2. t[n] \in T \ {x}
        BY <3>5
      <4>3. t[n] \in Int /\ x \in Int /\ t[n] # x /\ x >= t[n]
        BY <3>1, <4>2
      <4>4. QED
        BY <4>3
    <3>7. ASSUME NEW m \in 1..c + 1, NEW n \in 1..c + 1, m < n
          PROVE  t[m] < t[n]
      <4>1. m \in 1..c
        BY <3>7
      <4>2. CASE n = c + 1
        BY <3>5, <3>6, <4>1, <4>2
      <4>3. CASE n # c + 1
        BY <3>4, <3>5, <3>7, <4>1, <4>3
      <4>4. QED
        BY <4>2, <4>3
    <3>8. ASSUME NEW i \in T
          PROVE  \E n \in 1..c + 1 : t[n] = i
      <4>1. CASE i = x
        BY <3>5, <4>1
      <4>2. CASE i # x
        <5>1. PICK n \in 1..c : s[n] = i
          BY <3>4, <4>2
        <5>2. n \in 1..c + 1 /\ t[n] = i
          BY <3>5, <5>1
        <5>3. QED
          BY <5>2
      <4>3. QED
        BY <4>1, <4>2
    <3>9. Enumerates(t, T)
      BY <3>3, <3>5, <3>7, <3>8 DEF Enumerates
    <3>10. QED
      BY <3>9
  <2>3. QED
    BY <2>1, <2>2
<1>2. F = SUBSET S
  <2>1. F \in SUBSET (SUBSET S)
    OBVIOUS
  <2> HIDE DEF F
  <2>2. QED
    BY <1>1, <2>1, SubsetsInduced, Zenon
<1>3. QED
  BY <1>2

LEMMA SortedEnumerates ==
    ASSUME NEW S \in SUBSET Int, IsFiniteSet(S)
    PROVE  Enumerates(Sorted(S), S)
<1> DEFINE F == [1..Cardinality(S) -> S]
           P(s) == /\ \A m, n \in DOMAIN s : m < n => s[m] < s[n]
                   /\ \A i \in S : \E n \in DOMAIN s : s[n] = i
<1>1. \A s : Enumerates(s, S) <=> s \in F /\ P(s)
  BY Zenon DEF Enumerates
<1>2. Sorted(S) = CHOOSE s \in F : P(s)
  BY Zenon DEF Sorted
<1> HIDE DEF F, P
<1>3. \E s \in F : P(s)
  BY <1>1, Enumerable, Zenon
<1>4. Sorted(S) \in F /\ P(Sorted(S))
  BY <1>2, <1>3, Zenon
<1>5. QED
  BY <1>1, <1>4, Zenon

-----------------------------------------------------------------------------
(* Publishing.  A feed is a watermark and what went out under it; Offered  *)
(* is the function Publish runs over its numbers.                          *)
Feed == [msc |-> mark.msc, seen |-> mark.seen, out |-> published]
FeedType == [msc : Int, seen : SUBSET Quotes, out : Seq(1..Newest)]

Offer(numbers, h, n) == IF n = 0 THEN Feed ELSE PublishTick(h[n - 1], numbers[n])
Offered(numbers, l, h) == h = [n \in 0..l |-> Offer(numbers, h, n)]

LEMMA OfferedExists ==
    ASSUME NEW numbers
    PROVE  \A l \in Nat : \E h : Offered(numbers, l, h)
<1> DEFINE F == {l \in Nat : \E h : Offered(numbers, l, h)}
<1>1. 0 \in F
  <2> DEFINE h == [n \in 0..0 |-> Feed]
  <2>1. h = [n \in 0..0 |-> Offer(numbers, h, n)]
    <3>1. \A n \in 0..0 : Offer(numbers, h, n) = Feed
      <4>1. \A n \in 0..0 : n = 0
        OBVIOUS
      <4> HIDE DEF h
      <4>2. QED
        BY <4>1, Zenon DEF Offer
    <3>2. h = [n \in 0..0 |-> Feed]
      OBVIOUS
    <3> HIDE DEF h
    <3>3. QED
      BY <3>1, <3>2
  <2>2. QED
    BY <2>1, Zenon DEF Offered
<1>2. ASSUME NEW l \in F
      PROVE  l + 1 \in F
  <2>1. PICK h : Offered(numbers, l, h)
    OBVIOUS
  <2> DEFINE last == PublishTick(h[l], numbers[l + 1])
             k == [n \in 0..l + 1 |-> IF n = l + 1 THEN last ELSE h[n]]
  <2>2. /\ k[l + 1] = last
        /\ \A n \in 0..l : k[n] = h[n]
        /\ k = [n \in 0..l + 1 |-> k[n]]
    <3> HIDE DEF last
    <3>1. QED
      OBVIOUS
  <2>3. h = [n \in 0..l |-> Offer(numbers, h, n)]
    BY <2>1, Zenon DEF Offered
  <2> HIDE DEF k
  <2>4. ASSUME NEW n \in 0..l + 1
        PROVE  k[n] = Offer(numbers, k, n)
    <3>1. CASE n = l + 1
      <4>1. n # 0 /\ n - 1 = l /\ l \in 0..l
        BY <3>1
      <4>2. k[n - 1] = h[l]
        BY <2>2, <4>1
      <4>3. QED
        BY <2>2, <3>1, <4>1, <4>2, Zenon DEF Offer
    <3>2. CASE n = 0
      <4>1. 0 \in 0..l
        OBVIOUS
      <4>2. h[0] = Offer(numbers, h, 0)
        BY <2>3, <4>1
      <4>3. QED
        BY <2>2, <3>2, <4>1, <4>2, Zenon DEF Offer
    <3>3. CASE n # 0 /\ n # l + 1
      <4>1. n \in 0..l /\ n - 1 \in 0..l
        BY <3>3
      <4>2. h[n] = Offer(numbers, h, n)
        BY <2>3, <4>1
      <4>3. k[n] = h[n] /\ k[n - 1] = h[n - 1]
        BY <2>2, <4>1
      <4>4. QED
        BY <3>3, <4>2, <4>3, Zenon DEF Offer
    <3>4. QED
      BY <3>1, <3>2, <3>3
  <2>5. k = [n \in 0..l + 1 |-> Offer(numbers, k, n)]
    BY <2>2, <2>4
  <2>6. \E j : Offered(numbers, l + 1, j)
    BY <2>5, Zenon DEF Offered
  <2>7. QED
    BY <2>6
<1>3. F = Nat
  <2>1. F \in SUBSET Nat
    OBVIOUS
  <2> HIDE DEF F
  <2>2. QED
    BY <1>1, <1>2, <2>1, NatInduced, Zenon
<1>4. QED
  BY <1>3

(* What Publish leaves is the last of them.                                *)
LEMMA PublishOffers ==
    ASSUME NEW numbers, Len(numbers) \in Nat, Publish(numbers)
    PROVE  \E h : /\ Offered(numbers, Len(numbers), h)
                  /\ mark' = [msc |-> h[Len(numbers)].msc, seen |-> h[Len(numbers)].seen]
                  /\ published' = h[Len(numbers)].out
<1> DEFINE P(h) == h = [n \in 0..Len(numbers) |->
                          IF n = 0
                          THEN [msc |-> mark.msc, seen |-> mark.seen, out |-> published]
                          ELSE PublishTick(h[n - 1], numbers[n])]
           h == CHOOSE after : P(after)
<1>1. /\ mark' = [msc |-> h[Len(numbers)].msc, seen |-> h[Len(numbers)].seen]
      /\ published' = h[Len(numbers)].out
  BY Zenon DEF Publish
<1>2. \A after : P(after) <=> Offered(numbers, Len(numbers), after)
  BY Zenon DEF Offered, Offer, Feed
<1> HIDE DEF P
<1>3. \E after : P(after)
  BY <1>2, OfferedExists, Zenon
<1>4. P(h)
  BY <1>3, Zenon
<1> HIDE DEF h
<1>5. QED
  BY <1>1, <1>2, <1>4, Zenon

LEMMA OfferedAt ==
    ASSUME NEW numbers, NEW l \in Nat, NEW h, Offered(numbers, l, h)
    PROVE  /\ h[0] = Feed
           /\ \A n \in 1..l : h[n] = PublishTick(h[n - 1], numbers[n])
<1>1. \A n \in 0..l : h[n] = Offer(numbers, h, n)
  BY DEF Offered
<1>2. 0 \in 0..l /\ \A n \in 1..l : n \in 0..l /\ n # 0
  OBVIOUS
<1>3. QED
  BY <1>1, <1>2, Zenon DEF Offer

-----------------------------------------------------------------------------
(* What a request brings and the engine gets: rows of bars, or ticks.      *)
BarRow == [opened : Nat, held : Nat]
BarOut == [opened : Nat, held : Nat, waited : Int]
Item == IF source = "bars" THEN BarRow ELSE 1..Newest
Out == IF source = "bars" THEN BarOut ELSE 1..Newest

TaskOf(item) ==
    [at : {"off", "idle", "asked", "answered", "connect", "stream"},
     from : Nat, upto : Nat, rows : SUBSET item, seq : 0..Newest, frame : 0..Newest,
     queue : Seq(1..Newest), read : 0..Newest, when : Nat]

(* The clocks and the ticks: none is younger than the one after it.        *)
Timed ==
    /\ now \in Start..MaxTime /\ ahead \in Offsets
    /\ history \in Seq([msc : 1..MaxTime + ahead, quote : Quotes])
    /\ \A i \in 1..Newest : history[i].msc <= ServerTime
    /\ \A i, j \in 1..Newest : i <= j => history[i].msc <= history[j].msc

(* Where a watermark may be: at the client's time when it began, or at a   *)
(* tick's, which is the server's.                                          *)
Bounded(m) == m <= ServerTime \/ m = since

Typed ==
    /\ source \in Sources
    /\ task \in TaskOf(Item) /\ IsFiniteSet(task.rows)
    /\ mark \in [msc : Int, seen : SUBSET Quotes] /\ mark.msc >= -1 /\ Bounded(mark.msc)
    /\ since \in Nat /\ since <= now
    /\ lastBar \in Int
    /\ published \in Seq(Out)
    /\ uncovered \subseteq 1..Newest

(* Where a task may be, and that it has started from somewhere.            *)
Placed ==
    /\ task.frame # 0 => task.at \in {"asked", "answered"} /\ source = "push"
    /\ task.at \in {"connect", "stream"} => source = "push"
    /\ task.at # "stream" => task.seq = task.frame
    /\ Len(task.queue) <= STREAM_BACKLOG
    /\ source # "bars" => \/ mark.msc >= 0
                          \/ task.at = "off" /\ mark = NoMark /\ published = <<>>
    /\ source \in {"ticks", "push"} => mark.msc # 0

(* A feed is in order and has nothing twice; the quotes of its watermark   *)
(* are those that went out at it.                                          *)
Once(st) ==
    /\ \A m, n \in DOMAIN st.out : m < n =>
          /\ history[st.out[m]].msc <= history[st.out[n]].msc
          /\ ~Same(st.out[m], st.out[n])
    /\ \A n \in DOMAIN st.out :
          /\ history[st.out[n]].msc <= st.msc
          /\ history[st.out[n]].msc = st.msc => history[st.out[n]].quote \in st.seen
    /\ \A q \in st.seen : \E n \in DOMAIN st.out :
          history[st.out[n]].msc = st.msc /\ history[st.out[n]].quote = q

(* A tick is settled that went out, or that is not owed.                   *)
Settled(skipped, st, i) ==
    i \in skipped \/ history[i].msc < since \/ \E n \in DOMAIN st.out : Same(st.out[n], i)

Complete(skipped, st) ==
    \A i \in 1..Newest : history[i].msc < st.msc => Settled(skipped, st, i)

(* What a task has read is settled, and what it asks for begins at the     *)
(* watermark and ends, unless the server's clock is ahead, after the frame *)
(* that showed the gap.                                                    *)
Refilled ==
    /\ \A j \in 1..task.read : Settled(uncovered, Feed, j)
    /\ task.at = "asked" =>
          /\ task.from * Second <= mark.msc
          /\ ahead <= 0 => \A j \in 1..task.frame : history[j].msc <= task.upto * Second
    /\ task.at = "answered" =>
          /\ \A r \in task.rows : \A j \in 1..r :
                history[j].msc >= mark.msc => j \in task.rows
          /\ \A j \in 1..task.frame :
                history[j].msc >= mark.msc => j \in task.rows \/ (ahead > 0 /\ ~InRange(j))
    /\ task.at = "stream" => task.seq <= task.read

Risen ==
    /\ \A m, n \in DOMAIN published : m < n => published[m].opened < published[n].opened
    /\ \A n \in DOMAIN published : published[n].opened <= lastBar
CompleteInv == source \in {"ticks", "push"} => Complete(uncovered, Feed) /\ Refilled

(* A bar that was over when it was answered holds what was answered, and   *)
(* so does one that went out soon enough.                                  *)
Over(k, t) == (k + 1) * BarLength <= t
Exact(b, t) == Over(b.opened, t) => Whole(b)
Lasting(b) == b.waited <= ahead => Over(b.opened, ServerTime) /\ Whole(b)
BarsInv ==
    source = "bars" =>
       /\ task.at = "answered" => /\ task.when <= now
                                  /\ \A b \in task.rows : Exact(b, task.when + ahead)
       /\ \A n \in DOMAIN published : Lasting(published[n])

-----------------------------------------------------------------------------
(* One tick offered.                                                       *)
LEMMA TickTyped ==
    ASSUME Timed, NEW i \in 1..Newest
    PROVE  /\ history[i].msc \in Int /\ history[i].quote \in Quotes
           /\ history[i] = [msc |-> history[i].msc, quote |-> history[i].quote]
           /\ history[i].msc <= ServerTime /\ ServerTime \in Int /\ history[i].msc >= 0
<1> DEFINE T == [msc : 1..MaxTime + ahead, quote : Quotes]
<1>1. /\ history \in Seq(T) /\ history[i].msc <= ServerTime /\ ServerTime \in Int
      /\ MaxTime + ahead \in Int
  BY DataAssumption DEF Timed, ServerTime
<1>2. history[i] \in T
  <2> HIDE DEF T
  <2>1. QED
    BY <1>1 DEF Newest
<1>3. QED
  BY <1>1, <1>2

LEMMA EntryIn ==
    ASSUME NEW S, NEW s \in Seq(S)
    PROVE  \A n \in DOMAIN s : s[n] \in S
  OBVIOUS

LEMMA OfferTyped ==
    ASSUME Timed, NEW st \in FeedType, NEW i \in 1..Newest
    PROVE  /\ PublishTick(st, i) \in FeedType
           /\ PublishTick(st, i).msc >= st.msc
           /\ Bounded(st.msc) => Bounded(PublishTick(st, i).msc)
<1>1. /\ history[i].msc \in Int /\ history[i].msc <= ServerTime /\ ServerTime \in Int
      /\ history[i].quote \in Quotes
  BY TickTyped
<1>2. CASE ~Fresh(st, history[i])
  BY <1>2 DEF PublishTick, FeedType
<1>3. CASE Fresh(st, history[i])
  <2>1. PublishTick(st, i) =
          [msc |-> history[i].msc, out |-> Append(st.out, i),
           seen |-> IF history[i].msc > st.msc THEN {history[i].quote}
                    ELSE st.seen \cup {history[i].quote}]
    BY <1>3 DEF PublishTick
  <2>2. /\ st.msc \in Int /\ st.seen \in SUBSET Quotes /\ st.out \in Seq(1..Newest)
        /\ history[i].msc >= st.msc
    BY <1>1, <1>3 DEF FeedType, Fresh
  <2>3. Append(st.out, i) \in Seq(1..Newest)
    BY <2>2
  <2>4. QED
    BY <1>1, <2>1, <2>2, <2>3 DEF FeedType, Bounded
<1>4. QED
  BY <1>2, <1>3

LEMMA OfferOnce ==
    ASSUME Timed, NEW st \in FeedType, NEW i \in 1..Newest, Once(st)
    PROVE  Once(PublishTick(st, i))
<1> DEFINE t == history[i]
           su == PublishTick(st, i)
           l == Len(st.out)
<1>1. /\ t.msc \in Int /\ t.quote \in Quotes /\ t = [msc |-> t.msc, quote |-> t.quote]
  BY TickTyped
<1>2. CASE ~Fresh(st, t)
  BY <1>2 DEF PublishTick
<1>3. CASE Fresh(st, t)
  <2>1. /\ su.msc = t.msc /\ su.out = Append(st.out, i)
        /\ su.seen = IF t.msc > st.msc THEN {t.quote} ELSE st.seen \cup {t.quote}
    BY <1>3 DEF PublishTick
  <2>2. /\ st.msc \in Int /\ st.seen \in SUBSET Quotes /\ st.out \in Seq(1..Newest)
        /\ t.msc >= st.msc /\ l \in Nat
    BY <1>1, <1>3 DEF FeedType, Fresh
  <2>3. /\ DOMAIN st.out = 1..l /\ DOMAIN su.out = 1..l + 1
        /\ su.out[l + 1] = i
        /\ \A n \in 1..l : su.out[n] = st.out[n] /\ st.out[n] \in 1..Newest
    <3> DEFINE N == 1..Newest
    <3>1. st.out \in Seq(N) /\ i \in N /\ su.out = Append(st.out, i)
      BY <2>1, <2>2
    <3> HIDE DEF N, su
    <3>2. /\ DOMAIN st.out = 1..l /\ DOMAIN su.out = 1..l + 1
          /\ su.out[l + 1] = i
          /\ \A n \in 1..l : su.out[n] = st.out[n] /\ st.out[n] \in N
      BY <3>1
    <3>3. QED
      BY <3>2 DEF N
  <2>4. /\ \A n \in 1..l : history[st.out[n]].msc \in Int
        /\ \A n \in 1..l : history[st.out[n]].msc <= st.msc
    BY <2>3, TickTyped DEF Once
  <2>5. \A n \in 1..l : ~Same(st.out[n], i)
    <3>1. SUFFICES ASSUME NEW n \in 1..l, Same(st.out[n], i)
                   PROVE  FALSE
      OBVIOUS
    <3>2. history[st.out[n]] = t
      BY <3>1 DEF Same
    <3>3. t.msc = st.msc
      BY <2>2, <2>4, <3>2
    <3>4. t.quote \in st.seen
      BY <2>3, <3>2, <3>3 DEF Once
    <3>5. QED
      BY <1>3, <2>2, <3>3, <3>4 DEF Fresh
  <2> HIDE DEF su, l, t
  <2>6. ASSUME NEW m \in 1..l + 1, NEW n \in 1..l + 1, m < n
        PROVE  history[su.out[m]].msc <= history[su.out[n]].msc /\ ~Same(su.out[m], su.out[n])
    <3>1. m \in 1..l
      BY <2>2, <2>6
    <3>2. CASE n = l + 1
      <4>1. history[su.out[n]] = t
        BY <2>3, <3>2 DEF t
      <4>2. ~Same(su.out[m], su.out[n])
        BY <2>3, <2>5, <3>1, <3>2
      <4>3. history[su.out[m]].msc <= st.msc /\ history[su.out[m]].msc \in Int
        BY <2>3, <2>4, <3>1
      <4>4. QED
        BY <1>1, <2>2, <4>1, <4>2, <4>3
    <3>3. CASE n # l + 1
      <4>1. n \in 1..l /\ su.out[n] = st.out[n] /\ su.out[m] = st.out[m]
        BY <2>2, <2>3, <3>1, <3>3
      <4>2. QED
        BY <2>3, <2>6, <3>1, <4>1 DEF Once
    <3>4. QED
      BY <3>2, <3>3
  <2>7. ASSUME NEW n \in 1..l + 1
        PROVE  /\ history[su.out[n]].msc <= su.msc
               /\ history[su.out[n]].msc = su.msc => history[su.out[n]].quote \in su.seen
    <3>1. CASE n = l + 1
      <4>1. history[su.out[n]] = t
        BY <2>3, <3>1 DEF t
      <4>2. QED
        BY <1>1, <2>1, <4>1
    <3>2. CASE n # l + 1
      <4>1. n \in 1..l /\ su.out[n] = st.out[n]
        BY <2>2, <2>3, <3>2
      <4>2. /\ history[st.out[n]].msc <= st.msc /\ history[st.out[n]].msc \in Int
            /\ history[st.out[n]].msc = st.msc => history[st.out[n]].quote \in st.seen
        BY <2>3, <2>4, <4>1 DEF Once
      <4>3. history[su.out[n]].msc <= su.msc
        BY <1>1, <2>1, <2>2, <4>1, <4>2
      <4>4. history[su.out[n]].msc = su.msc => history[su.out[n]].quote \in su.seen
        BY <1>1, <2>1, <2>2, <4>1, <4>2
      <4>5. QED
        BY <4>3, <4>4
    <3>3. QED
      BY <3>1, <3>2
  <2>8. ASSUME NEW q \in su.seen
        PROVE  \E n \in 1..l + 1 : history[su.out[n]].msc = su.msc /\ history[su.out[n]].quote = q
    <3>1. CASE q = t.quote
      <4>1. history[su.out[l + 1]] = t /\ l + 1 \in 1..l + 1
        BY <2>2, <2>3 DEF t
      <4>2. QED
        BY <2>1, <3>1, <4>1
    <3>2. CASE q # t.quote
      <4>1. q \in st.seen /\ t.msc = st.msc
        BY <1>1, <2>1, <2>2, <3>2
      <4>2. PICK n \in 1..l : history[st.out[n]].msc = st.msc /\ history[st.out[n]].quote = q
        BY <2>3, <4>1 DEF Once
      <4>3. n \in 1..l + 1 /\ su.out[n] = st.out[n]
        BY <2>2, <2>3
      <4>4. QED
        BY <2>1, <4>1, <4>2, <4>3
    <3>3. QED
      BY <3>1, <3>2
  <2>9. Once(su)
    BY <2>3, <2>6, <2>7, <2>8 DEF Once
  <2>10. QED
    BY <2>9 DEF su
<1>4. QED
  BY <1>2, <1>3

(* Where every tick before it is settled, none is left behind by it.       *)
LEMMA OfferSettles ==
    ASSUME Timed, NEW st \in FeedType, NEW i \in 1..Newest, Once(st),
           NEW skipped, Complete(skipped, st),
           \A j \in 1..Newest : history[j].msc < history[i].msc => Settled(skipped, st, j)
    PROVE  /\ Complete(skipped, PublishTick(st, i))
           /\ Settled(skipped, PublishTick(st, i), i)
           /\ \A j : Settled(skipped, st, j) => Settled(skipped, PublishTick(st, i), j)
<1> DEFINE t == history[i]
           su == PublishTick(st, i)
           l == Len(st.out)
<1>1. /\ t.msc \in Int /\ t.quote \in Quotes /\ t = [msc |-> t.msc, quote |-> t.quote]
      /\ st.msc \in Int /\ st.out \in Seq(1..Newest)
  BY TickTyped DEF FeedType
<1>2. CASE ~Fresh(st, t)
  <2>1. su = st
    BY <1>2 DEF PublishTick
  <2>2. Settled(skipped, st, i)
    <3>1. CASE t.msc < st.msc
      BY <3>1 DEF Complete
    <3>2. CASE ~(t.msc < st.msc)
      <4>1. t.msc = st.msc /\ t.quote \in st.seen
        BY <1>1, <1>2, <3>2 DEF Fresh
      <4>2. PICK n \in DOMAIN st.out : history[st.out[n]].msc = st.msc
                                       /\ history[st.out[n]].quote = t.quote
        BY <4>1 DEF Once
      <4>3. history[st.out[n]] = [msc |-> st.msc, quote |-> t.quote]
        <5>1. st.out[n] \in 1..Newest
          BY <1>1, EntryIn
        <5>2. QED
          BY <4>2, <5>1, TickTyped
      <4>4. Same(st.out[n], i)
        BY <1>1, <4>1, <4>3 DEF Same
      <4>5. QED
        BY <4>4 DEF Settled
    <3>3. QED
      BY <3>1, <3>2
  <2>3. QED
    BY <2>1, <2>2
<1>3. CASE Fresh(st, t)
  <2>1. su.msc = t.msc /\ su.out = Append(st.out, i)
    BY <1>3 DEF PublishTick
  <2>2. l \in Nat /\ DOMAIN st.out = 1..l /\ DOMAIN su.out = 1..l + 1 /\ su.out[l + 1] = i
        /\ \A n \in 1..l : su.out[n] = st.out[n]
    BY <1>1, <2>1
  <2> HIDE DEF su, l
  <2>3. Settled(skipped, su, i)
    <3>1. l + 1 \in DOMAIN su.out /\ Same(su.out[l + 1], i)
      BY <2>2 DEF Same
    <3>2. QED
      BY <3>1 DEF Settled
  <2>4. ASSUME NEW j, Settled(skipped, st, j)
        PROVE  Settled(skipped, su, j)
    <3>1. CASE j \in skipped \/ history[j].msc < since
      BY <3>1 DEF Settled
    <3>2. ASSUME NEW n \in DOMAIN st.out, Same(st.out[n], j)
          PROVE  Settled(skipped, su, j)
      <4>1. n \in DOMAIN su.out /\ su.out[n] = st.out[n]
        BY <2>2
      <4>2. QED
        BY <3>2, <4>1 DEF Settled
    <3>3. QED
      BY <2>4, <3>1, <3>2 DEF Settled
  <2>5. Complete(skipped, su)
    BY <2>1, <2>4 DEF Complete
  <2>6. QED
    BY <2>3, <2>4, <2>5 DEF su
<1>4. QED
  BY <1>2, <1>3

(* All of them offered, in turn.                                           *)
LEMMA PublishOnce ==
    ASSUME Timed, Feed \in FeedType, Once(Feed), Bounded(mark.msc),
           NEW numbers \in Seq(1..Newest), NEW h, Offered(numbers, Len(numbers), h)
    PROVE  \A n \in 0..Len(numbers) :
              h[n] \in FeedType /\ Once(h[n]) /\ Bounded(h[n].msc) /\ h[n].msc >= mark.msc
<1> DEFINE l == Len(numbers)
           Good(n) == h[n] \in FeedType /\ Once(h[n]) /\ Bounded(h[n].msc) /\ h[n].msc >= mark.msc
           F == {n \in Nat : n <= l => Good(n)}
<1>1. l \in Nat /\ h[0] = Feed /\ \A n \in 1..l : h[n] = PublishTick(h[n - 1], numbers[n])
  <2>1. l \in Nat
    OBVIOUS
  <2>2. QED
    BY <2>1, OfferedAt, Zenon
<1>2. \A n \in 1..l : numbers[n] \in 1..Newest
  <2>1. DOMAIN numbers = 1..l
    OBVIOUS
  <2>2. QED
    BY <2>1, EntryIn, Zenon
<1> HIDE DEF l
<1>3. 0 \in F
  <2>1. Feed.msc = mark.msc /\ mark.msc \in Int
    BY DEF Feed, FeedType
  <2>2. QED
    BY <1>1, <2>1
<1>4. ASSUME NEW n \in F
      PROVE  n + 1 \in F
  <2>1. SUFFICES ASSUME n + 1 <= l
                 PROVE  Good(n + 1)
    OBVIOUS
  <2>2. n + 1 \in 1..l /\ n <= l /\ (n + 1) - 1 = n
    BY <1>1, <2>1
  <2>3. Good(n)
    BY <2>2
  <2>4. h[n + 1] = PublishTick(h[n], numbers[n + 1]) /\ numbers[n + 1] \in 1..Newest
    BY <1>1, <1>2, <2>2
  <2>5. h[n + 1] \in FeedType /\ h[n + 1].msc >= h[n].msc /\ Bounded(h[n + 1].msc)
    BY <2>3, <2>4, OfferTyped
  <2>6. Once(h[n + 1])
    BY <2>3, <2>4, OfferOnce
  <2>7. h[n].msc \in Int /\ h[n + 1].msc \in Int /\ mark.msc \in Int
    BY <2>3, <2>5 DEF FeedType, Feed
  <2>8. QED
    BY <2>3, <2>5, <2>6, <2>7
<1>5. F = Nat
  <2>1. F \in SUBSET Nat
    OBVIOUS
  <2> HIDE DEF F
  <2>2. QED
    BY <1>3, <1>4, <2>1, NatInduced, Zenon
<1>6. ASSUME NEW n \in 0..l
      PROVE  Good(n)
  <2>1. n \in Nat /\ n <= l
    BY <1>1
  <2>2. n \in F
    BY <1>5, <2>1, Zenon
  <2>3. QED
    BY <2>1, <2>2, Zenon
<1>7. QED
  BY <1>6 DEF l

(* Where the ticks before each of them are settled or were offered before  *)
(* it, all of them are settled and none was left behind.                   *)
LEMMA PublishSettles ==
    ASSUME Timed, Feed \in FeedType, Once(Feed), Bounded(mark.msc),
           NEW numbers \in Seq(1..Newest), NEW h, Offered(numbers, Len(numbers), h),
           NEW skipped, Complete(skipped, Feed),
           \A n \in 1..Len(numbers) : \A j \in 1..Newest :
              history[j].msc < history[numbers[n]].msc =>
                 Settled(skipped, Feed, j) \/ \E m \in 1..n - 1 : numbers[m] = j
    PROVE  /\ Complete(skipped, h[Len(numbers)])
           /\ \A n \in 1..Len(numbers) : Settled(skipped, h[Len(numbers)], numbers[n])
           /\ \A j : Settled(skipped, Feed, j) => Settled(skipped, h[Len(numbers)], j)
<1> DEFINE l == Len(numbers)
           Good(n) == /\ Complete(skipped, h[n])
                      /\ \A m \in 1..n : Settled(skipped, h[n], numbers[m])
                      /\ \A j : Settled(skipped, Feed, j) => Settled(skipped, h[n], j)
           F == {n \in Nat : n <= l => Good(n)}
<1>1. l \in Nat /\ h[0] = Feed /\ \A n \in 1..l : h[n] = PublishTick(h[n - 1], numbers[n])
  <2>1. l \in Nat
    OBVIOUS
  <2>2. QED
    BY <2>1, OfferedAt, Zenon
<1>2. \A n \in 1..l : numbers[n] \in 1..Newest
  <2>1. DOMAIN numbers = 1..l
    OBVIOUS
  <2>2. QED
    BY <2>1, EntryIn, Zenon
<1>3. \A n \in 0..l : h[n] \in FeedType /\ Once(h[n])
  BY PublishOnce
<1> HIDE DEF l
<1>4. 0 \in F
  BY <1>1
<1>5. ASSUME NEW n \in F
      PROVE  n + 1 \in F
  <2>1. SUFFICES ASSUME n + 1 <= l
                 PROVE  Good(n + 1)
    OBVIOUS
  <2> DEFINE i == numbers[n + 1]
  <2>2. n + 1 \in 1..l /\ n <= l /\ (n + 1) - 1 = n /\ n \in 0..l
    BY <1>1, <2>1
  <2>3. Good(n)
    BY <2>2
  <2>4. h[n + 1] = PublishTick(h[n], i) /\ i \in 1..Newest
    BY <1>1, <1>2, <2>2
  <2>5. ASSUME NEW j \in 1..Newest, history[j].msc < history[i].msc
        PROVE  Settled(skipped, h[n], j)
    <3>1. Settled(skipped, Feed, j) \/ \E m \in 1..n : numbers[m] = j
      BY <2>2, <2>5 DEF l
    <3>2. QED
      BY <2>3, <3>1
  <2>6. h[n] \in FeedType /\ Once(h[n])
    BY <1>3, <2>2
  <2> HIDE DEF i
  <2>7. /\ Complete(skipped, h[n + 1])
        /\ Settled(skipped, h[n + 1], i)
        /\ \A j : Settled(skipped, h[n], j) => Settled(skipped, h[n + 1], j)
    BY <2>3, <2>4, <2>5, <2>6, OfferSettles
  <2>8. \A m \in 1..n + 1 : Settled(skipped, h[n + 1], numbers[m])
    <3>1. SUFFICES ASSUME NEW m \in 1..n + 1
                   PROVE  Settled(skipped, h[n + 1], numbers[m])
      OBVIOUS
    <3>2. CASE m = n + 1
      BY <2>7, <3>2 DEF i
    <3>3. CASE m # n + 1
      <4>1. m \in 1..n
        BY <3>3
      <4>2. QED
        BY <2>3, <2>7, <4>1
    <3>4. QED
      BY <3>2, <3>3
  <2>9. QED
    BY <2>3, <2>7, <2>8
<1>6. F = Nat
  <2>1. F \in SUBSET Nat
    OBVIOUS
  <2> HIDE DEF F
  <2>2. QED
    BY <1>4, <1>5, <2>1, NatInduced, Zenon
<1>7. Good(l)
  BY <1>1, <1>6
<1>8. QED
  BY <1>7 DEF l

-----------------------------------------------------------------------------
(* The order _catch_up publishes in: the rows, then the frame.             *)
Offers(rows, frame) == Sorted(rows) \o (IF frame = 0 THEN <<>> ELSE <<frame>>)

InOrder(s, rows, frame) ==
    /\ \A i \in rows \cup ({frame} \ {0}) : \E n \in 1..Len(s) : s[n] = i
    /\ \A n \in 1..Len(s) :
          \/ s[n] \in rows /\ \A j \in rows : j < s[n] => \E m \in 1..n - 1 : s[m] = j
          \/ s[n] = frame /\ frame # 0 /\ \A j \in rows : \E m \in 1..n - 1 : s[m] = j

LEMMA OffersInOrder ==
    ASSUME NEW N \in Nat, NEW rows \in SUBSET (1..N), NEW frame \in 0..N, NEW s,
           s = Offers(rows, frame)
    PROVE  s \in Seq(1..N) /\ InOrder(s, rows, frame)
<1> DEFINE r == Sorted(rows)
           c == Cardinality(rows)
<1>1. IsFiniteSet(rows) /\ rows \in SUBSET Int
  <2>1. IsFiniteSet(1..N) /\ rows \in SUBSET Int
    BY FS_Interval
  <2>2. QED
    BY <2>1, FS_Subset, Zenon
<1>2. Enumerates(r, rows)
  BY <1>1, SortedEnumerates
<1>3. c \in Nat
  BY <1>1, FS_CardinalityType
<1>4. /\ r \in [1..c -> rows] /\ DOMAIN r = 1..c
      /\ \A m, n \in 1..c : m < n => r[m] < r[n]
      /\ \A i \in rows : \E n \in 1..c : r[n] = i
  BY <1>2 DEF Enumerates
<1> HIDE DEF r, c
<1>5. r \in Seq(1..N) /\ Len(r) = c
  <2>1. \A n \in 1..c : r[n] \in 1..N
    BY <1>4
  <2>2. r \in [1..c -> 1..N]
    BY <1>4, <2>1
  <2>3. QED
    BY <1>3, <2>2
<1>6. \A n \in 1..c : \A j \in rows : j < r[n] => \E m \in 1..n - 1 : r[m] = j
  <2>1. SUFFICES ASSUME NEW n \in 1..c, NEW j \in rows, j < r[n]
                 PROVE  \E m \in 1..n - 1 : r[m] = j
    OBVIOUS
  <2>2. PICK m \in 1..c : r[m] = j
    BY <1>4
  <2>3. r[n] \in rows /\ r[n] \in Int /\ j \in Int
    <3>1. r[n] \in rows
      BY <1>4
    <3>2. \A i \in rows : i \in Int
      OBVIOUS
    <3>3. QED
      BY <3>1, <3>2, Zenon
  <2>4. CASE n < m
    <3>1. r[n] < r[m]
      BY <1>4, <2>4
    <3>2. QED
      BY <2>1, <2>2, <2>3, <3>1
  <2>5. CASE n = m
    BY <2>1, <2>2, <2>3, <2>5
  <2>6. CASE m < n
    <3>1. m \in 1..n - 1
      BY <1>3, <2>6
    <3>2. QED
      BY <2>2, <3>1
  <2>7. QED
    BY <1>3, <2>4, <2>5, <2>6
<1>7. CASE frame = 0
  <2>1. s = r
    BY <1>5, <1>7 DEF Offers, r
  <2>2. QED
    BY <1>3, <1>4, <1>5, <1>6, <1>7, <2>1 DEF InOrder
<1>8. CASE frame # 0
  <2>1. s = r \o <<frame>>
    BY <1>8 DEF Offers, r
  <2>2. /\ s \in Seq(1..N) /\ Len(s) = c + 1 /\ s[c + 1] = frame
        /\ \A n \in 1..c : s[n] = r[n]
    <3>1. frame \in 1..N
      BY <1>8
    <3>2. QED
      BY <1>3, <1>5, <2>1, <3>1
  <2>3. \A i \in rows : \E n \in 1..c : s[n] = i
    BY <1>4, <2>2
  <2>4. ASSUME NEW n \in 1..c + 1
        PROVE  \/ s[n] \in rows /\ \A j \in rows : j < s[n] => \E m \in 1..n - 1 : s[m] = j
               \/ s[n] = frame /\ frame # 0 /\ \A j \in rows : \E m \in 1..n - 1 : s[m] = j
    <3>1. CASE n = c + 1
      <4>1. n - 1 = c
        BY <1>3, <3>1
      <4>2. QED
        BY <1>8, <2>2, <2>3, <3>1, <4>1
    <3>2. CASE n # c + 1
      <4>1. n \in 1..c /\ \A m \in 1..n - 1 : m \in 1..c
        BY <1>3, <3>2
      <4>2. s[n] = r[n] /\ \A m \in 1..n - 1 : s[m] = r[m]
        BY <2>2, <4>1
      <4>3. r[n] \in rows
        BY <1>4, <4>1
      <4>4. \A j \in rows : j < s[n] => \E m \in 1..n - 1 : s[m] = j
        BY <1>6, <4>1, <4>2
      <4>5. QED
        BY <4>2, <4>3, <4>4
    <3>3. QED
      BY <3>1, <3>2
  <2>5. \A i \in rows \cup ({frame} \ {0}) : \E n \in 1..c + 1 : s[n] = i
    <3>1. c + 1 \in 1..c + 1 /\ \A n \in 1..c : n \in 1..c + 1
      BY <1>3
    <3>2. QED
      BY <2>2, <2>3, <3>1
  <2>6. QED
    BY <2>2, <2>4, <2>5 DEF InOrder
<1>9. QED
  BY <1>7, <1>8

-----------------------------------------------------------------------------
(* The feed is in order and has nothing twice, over its types.             *)
FeedInv ==
    /\ Timed /\ Typed /\ Placed
    /\ source # "bars" => Once(Feed)
    /\ source = "bars" => Risen

LEMMA Lengths == Second \in Nat /\ Second >= 1 /\ BarLength \in Nat /\ BarLength >= 1
                 /\ STREAM_BACKLOG \in Nat /\ STREAM_BACKLOG >= 1 /\ MaxTime \in Nat
                 /\ Start \in Nat /\ Second <= Start /\ Start <= MaxTime
                 /\ \A d \in Offsets : d \in Int /\ Start + d > 0
  BY DataAssumption

LEMMA SeqGrows ==
    ASSUME NEW S, NEW T, S \subseteq T, NEW s \in Seq(S)
    PROVE  s \in Seq(T)
  OBVIOUS

LEMMA NewestNat == Timed => Newest \in Nat
<1>1. ASSUME NEW S, history \in Seq(S)
      PROVE  Newest \in Nat
  BY <1>1 DEF Newest
<1>2. QED
  BY <1>1 DEF Timed

LEMMA HistoryGrows ==
    ASSUME Timed, NEW quote \in Quotes, UNCHANGED <<now, ahead>>,
           history' = Append(history, [msc |-> ServerTime, quote |-> quote])
    PROVE  /\ Timed'
           /\ Newest' = Newest + 1 /\ Newest \in Nat
           /\ \A i \in 1..Newest : history'[i] = history[i]
           /\ history'[Newest + 1].msc = ServerTime
<1> DEFINE T == [msc : 1..MaxTime + ahead, quote : Quotes]
           t == [msc |-> ServerTime, quote |-> quote]
           l == Newest
<1>1. /\ history \in Seq(T) /\ now \in Start..MaxTime /\ ahead \in Offsets /\ ahead \in Int
      /\ ServerTime \in Int /\ ServerTime' = ServerTime
  BY Lengths DEF Timed, ServerTime
<1>2. t \in T
  <2>1. now + ahead \in 1..MaxTime + ahead
    BY <1>1, Lengths
  <2>2. QED
    BY <2>1 DEF ServerTime
<1>3. history' = Append(history, t)
  OBVIOUS
<1>4. t.msc = ServerTime
  OBVIOUS
<1> HIDE DEF T, t
<1>5. /\ history' \in Seq(T) /\ l \in Nat /\ Newest' = l + 1
      /\ history'[l + 1] = t
      /\ \A i \in 1..l : history'[i] = history[i]
  BY <1>1, <1>2, <1>3 DEF Newest
<1>6. \A i \in 1..l : history[i].msc <= ServerTime /\ history[i].msc \in Int
  BY TickTyped
<1>7. \A i \in 1..l : history'[i].msc <= ServerTime
  BY <1>5, <1>6
<1>8. ServerTime \in Int
  BY <1>1
<1> HIDE DEF l
<1>9. ASSUME NEW i \in 1..l + 1
      PROVE  history'[i].msc <= ServerTime
  <2>1. i = l + 1 \/ i \in 1..l
    BY <1>5
  <2>2. CASE i = l + 1
    <3>1. history'[i].msc = ServerTime
      BY <1>4, <1>5, <2>2, Zenon
    <3>2. ServerTime <= ServerTime
      BY <1>8
    <3>3. QED
      BY <3>1, <3>2, Zenon
  <2>3. CASE i \in 1..l
    BY <1>7, <2>3
  <2>4. QED
    BY <2>1, <2>2, <2>3
<1>10. ASSUME NEW i \in 1..l + 1, NEW j \in 1..l + 1, i <= j
       PROVE  history'[i].msc <= history'[j].msc
  <2>1. CASE j = l + 1
    BY <1>4, <1>5, <1>9, <2>1
  <2>2. CASE j # l + 1
    <3>1. i \in 1..l /\ j \in 1..l
      BY <1>5, <1>10, <2>2
    <3>2. history[i].msc <= history[j].msc
      BY <1>10, <3>1 DEF Timed, l
    <3>3. QED
      BY <1>5, <3>1, <3>2
  <2>3. QED
    BY <2>1, <2>2
<1>11. Timed'
  BY <1>1, <1>5, <1>9, <1>10 DEF Timed, T
<1>12. QED
  BY <1>4, <1>5, <1>11 DEF l

(* What went out stays in order while its ticks are what they were.        *)
LEMMA OnceKept ==
    ASSUME Once(Feed), UNCHANGED <<mark, published>>,
           \A n \in DOMAIN published : history'[published[n]] = history[published[n]]
    PROVE  Once(Feed)'
<1>1. Feed.msc = mark.msc /\ Feed.seen = mark.seen /\ Feed.out = published /\ Feed' = Feed
  BY DEF Feed
<1>2. \A m, n \in DOMAIN published : m < n =>
          /\ history'[published[m]].msc <= history'[published[n]].msc
          /\ history'[published[m]] # history'[published[n]]
  BY <1>1 DEF Once, Same
<1>3. \A n \in DOMAIN published :
          /\ history'[published[n]].msc <= mark.msc
          /\ history'[published[n]].msc = mark.msc => history'[published[n]].quote \in mark.seen
  BY <1>1 DEF Once
<1>4. \A q \in mark.seen : \E n \in DOMAIN published :
          history'[published[n]].msc = mark.msc /\ history'[published[n]].quote = q
  BY <1>1, Zenon DEF Once
<1>5. PICK f : f = Feed' /\ f.msc = mark.msc /\ f.seen = mark.seen /\ f.out = published
  BY <1>1
<1>6. Once(f)'
  <2>1. DOMAIN f.out = DOMAIN published /\ \A n : f.out[n] = published[n]
    BY <1>5
  <2>2. \A m, n \in DOMAIN f.out : m < n =>
          /\ history'[f.out[m]].msc <= history'[f.out[n]].msc
          /\ history'[f.out[m]] # history'[f.out[n]]
    BY <1>2, <1>5
  <2>3. \A n \in DOMAIN f.out :
          /\ history'[f.out[n]].msc <= f.msc
          /\ history'[f.out[n]].msc = f.msc => history'[f.out[n]].quote \in f.seen
    BY <1>3, <1>5
  <2>4. \A q \in f.seen : \E n \in DOMAIN f.out :
          history'[f.out[n]].msc = f.msc /\ history'[f.out[n]].quote = q
    BY <1>4, <1>5
  <2>5. QED
    BY <2>2, <2>3, <2>4 DEF Once, Same
<1>7. QED
  BY <1>5, <1>6

(* A new tick leaves what was said of the older ones.                      *)
LEMMA TickKeeps ==
    ASSUME FeedInv, NEW quote \in Quotes,
           history' = Append(history, [msc |-> ServerTime, quote |-> quote]),
           UNCHANGED <<now, ahead, source, since, mark, lastBar, published, uncovered>>,
           task' = task \/ (Streaming /\ task' = [task EXCEPT !.queue = Received(Newest + 1)])
    PROVE  FeedInv'
<1>1. /\ Timed' /\ Newest' = Newest + 1 /\ Newest \in Nat
      /\ \A i \in 1..Newest : history'[i] = history[i]
  BY HistoryGrows DEF FeedInv
<1>2. Item \subseteq Item' /\ Out \subseteq Out' /\ 1..Newest \subseteq 1..Newest' /\ 0..Newest \subseteq 0..Newest'
  BY <1>1 DEF Item, Out
<1>3. /\ task \in TaskOf(Item) /\ IsFiniteSet(task.rows) /\ Placed /\ Typed
  BY DEF FeedInv, Typed
<1>4. /\ task.queue \in Seq(1..Newest') /\ task.rows \in SUBSET Item'
      /\ task.at \in {"off", "idle", "asked", "answered", "connect", "stream"}
      /\ task.from \in Nat /\ task.upto \in Nat
      /\ task.seq \in 0..Newest' /\ task.frame \in 0..Newest' /\ task.read \in 0..Newest'
      /\ task.when \in Nat
      /\ task = [at |-> task.at, from |-> task.from, upto |-> task.upto, rows |-> task.rows,
                 seq |-> task.seq, frame |-> task.frame, queue |-> task.queue,
                 read |-> task.read, when |-> task.when]
  <2>1. task.queue \in Seq(1..Newest)
    BY <1>3 DEF TaskOf
  <2>2. task.queue \in Seq(1..Newest')
    BY <1>2, <2>1, SeqGrows, Zenon
  <2>3. QED
    BY <1>2, <1>3, <2>2 DEF TaskOf
<1>5. Received(Newest + 1) \in Seq(1..Newest') /\ Len(Received(Newest + 1)) <= STREAM_BACKLOG
  <2> DEFINE N == 1..Newest'
             q == task.queue
             f == Newest + 1
  <2>1. q \in Seq(N) /\ f \in N /\ Len(q) <= STREAM_BACKLOG
    BY <1>1, <1>3, <1>4 DEF Placed
  <2> HIDE DEF N, f
  <2>2. CASE Len(q) = STREAM_BACKLOG
    <3>1. Tail(q) \in Seq(N) /\ Len(Tail(q)) = STREAM_BACKLOG - 1
      BY <2>1, <2>2, Lengths
    <3>2. QED
      BY <2>1, <2>2, <3>1, Lengths DEF Received, N, f
  <2>3. CASE Len(q) # STREAM_BACKLOG
    <3>1. Len(q) + 1 <= STREAM_BACKLOG
      BY <2>1, <2>3, Lengths
    <3>2. QED
      BY <2>1, <2>3, <3>1, Lengths DEF Received, N, f
  <2>4. QED
    BY <2>2, <2>3
<1>6. /\ task' \in TaskOf(Item)' /\ IsFiniteSet(task'.rows)
      /\ Len(task'.queue) <= STREAM_BACKLOG
      /\ task'.at = task.at /\ task'.frame = task.frame /\ task'.seq = task.seq
  <2>1. TaskOf(Item)' = TaskOf(Item)'
    OBVIOUS
  <2>2. CASE task' = task
    BY <1>3, <1>4, <2>2 DEF TaskOf, Placed
  <2>3. CASE task' = [task EXCEPT !.queue = Received(Newest + 1)]
    <3> DEFINE q == Received(Newest + 1)
    <3>1. q \in Seq(1..Newest') /\ Len(q) <= STREAM_BACKLOG
      BY <1>5
    <3>2. task' = [task EXCEPT !.queue = q]
      BY <2>3
    <3> HIDE DEF q
    <3>3. QED
      BY <1>3, <1>4, <3>1, <3>2 DEF TaskOf
  <2>4. QED
    BY <2>2, <2>3
<1>7. Placed'
  BY <1>3, <1>6 DEF Placed
<1>8. published' \in Seq(Out')
  <2>1. published \in Seq(Out)
    BY <1>3 DEF Typed
  <2>2. published \in Seq(Out')
    BY <1>2, <2>1, SeqGrows, Zenon
  <2>3. QED
    BY <2>2
<1>9. Typed'
  BY <1>2, <1>3, <1>6, <1>8 DEF Typed, Bounded, ServerTime
<1>10. ASSUME source # "bars"
       PROVE  Once(Feed)'
  <2>1. Once(Feed) /\ published \in Seq(1..Newest)
    BY <1>3, <1>10 DEF FeedInv, Typed, Out
  <2>2. \A n \in DOMAIN published : history'[published[n]] = history[published[n]]
    <3>1. \A n \in DOMAIN published : published[n] \in 1..Newest
      BY <2>1, EntryIn
    <3>2. QED
      BY <1>1, <3>1
  <2>3. Once(Feed)'
    BY <2>1, <2>2, OnceKept
  <2>4. QED
    BY <2>3
<1>11. source = "bars" => Risen'
  BY DEF FeedInv, Risen
<1>12. QED
  BY <1>1, <1>7, <1>9, <1>10, <1>11 DEF FeedInv

(* A task goes on and nothing is published.                                *)
LEMMA TaskMoves ==
    ASSUME FeedInv, UNCHANGED <<now, ahead, history, source, since, mark, lastBar, published, uncovered>>,
           task' \in TaskOf(Item), IsFiniteSet(task'.rows), Placed'
    PROVE  FeedInv'
<1>1. Newest' = Newest /\ Item' = Item /\ Out' = Out /\ TaskOf(Item)' = TaskOf(Item)
      /\ ServerTime' = ServerTime
  BY DEF Newest, Item, Out, TaskOf, ServerTime
<1>2. Timed'
  BY <1>1 DEF FeedInv, Timed
<1>3. Typed'
  BY <1>1 DEF FeedInv, Typed, Bounded
<1>4. source # "bars" => Once(Feed)'
  BY OnceKept DEF FeedInv
<1>5. source = "bars" => Risen'
  BY DEF FeedInv, Risen
<1>6. QED
  BY <1>2, <1>3, <1>4, <1>5 DEF FeedInv

LEMMA TaskParts ==
    ASSUME FeedInv
    PROVE  /\ task \in TaskOf(Item) /\ Newest \in Nat /\ now \in Nat /\ now >= Second
           /\ task.at \in {"off", "idle", "asked", "answered", "connect", "stream"}
           /\ task.from \in Nat /\ task.upto \in Nat /\ task.rows \in SUBSET Item
           /\ IsFiniteSet(task.rows)
           /\ task.seq \in 0..Newest /\ task.frame \in 0..Newest /\ task.read \in 0..Newest
           /\ task.queue \in Seq(1..Newest) /\ task.when \in Nat
           /\ mark.msc \in Int /\ Bounded(mark.msc) /\ mark.msc >= -1
           /\ since \in Nat /\ since <= now /\ ahead \in Int /\ now \in Start..MaxTime
           /\ ServerTime \in Int /\ ServerTime > 0
<1>1. task \in TaskOf(Item) /\ IsFiniteSet(task.rows)
  BY DEF FeedInv, Typed
<1>2. /\ mark \in [msc : Int, seen : SUBSET Quotes] /\ Bounded(mark.msc) /\ mark.msc >= -1
      /\ since \in Nat /\ since <= now /\ ahead \in Offsets /\ now \in Start..MaxTime
  BY DEF FeedInv, Typed, Timed
<1>3. Newest \in Nat
  BY NewestNat DEF FeedInv
<1>4. QED
  BY <1>1, <1>2, <1>3, Lengths DEF TaskOf, ServerTime

(* A task that stops keeps nothing but what it has read.                   *)
LEMMA StoppedTask ==
    ASSUME FeedInv, NEW at \in {"off", "idle"},
           \/ task' = [Stopped EXCEPT !.at = at, !.read = task.read]
           \/ at = "off" /\ task' = [Stopped EXCEPT !.read = task.read]
    PROVE  /\ task' \in TaskOf(Item) /\ task'.at = at /\ task'.rows = {} /\ task'.frame = 0
           /\ task'.seq = 0 /\ task'.queue = <<>> /\ task'.read = task.read
           /\ IsFiniteSet(task'.rows) /\ Len(task'.queue) <= STREAM_BACKLOG
<1>1. Newest \in Nat /\ task.read \in 0..Newest
  BY TaskParts
<1>2. /\ task' \in TaskOf(Item) /\ task'.at = at /\ task'.rows = {} /\ task'.frame = 0
      /\ task'.seq = 0 /\ task'.queue = <<>> /\ task'.read = task.read
  <2>1. PICK q : q = Stopped
    OBVIOUS
  <2>2. PICK item : item = Item
    OBVIOUS
  <2>3. PICK N \in Nat : N = Newest
    BY <1>1
  <2>4. PICK r \in 0..N : r = task.read
    BY <1>1, <2>3
  <2>5. q \in [at : {"off", "idle", "asked", "answered", "connect", "stream"},
               from : Nat, upto : Nat, rows : SUBSET item, seq : 0..N, frame : 0..N,
               queue : Seq(1..N), read : 0..N, when : Nat]
        /\ q.at = "off" /\ q.rows = {} /\ q.frame = 0 /\ q.seq = 0 /\ q.queue = <<>>
    <3>1. <<>> \in Seq(1..N) /\ 0 \in 0..N /\ {} \in SUBSET item
      OBVIOUS
    <3>2. QED
      BY <2>1, <3>1 DEF Stopped
  <2>6. CASE task' = [Stopped EXCEPT !.at = at, !.read = task.read]
    <3>1. task' = [q EXCEPT !.at = at, !.read = r]
      BY <2>1, <2>4, <2>6
    <3>2. QED
      BY <2>2, <2>3, <2>4, <2>5, <3>1 DEF TaskOf
  <2>7. CASE at = "off" /\ task' = [Stopped EXCEPT !.read = task.read]
    <3>1. task' = [q EXCEPT !.read = r]
      BY <2>1, <2>4, <2>7
    <3>2. QED
      BY <2>2, <2>3, <2>4, <2>5, <2>7, <3>1 DEF TaskOf
  <2>8. QED
    BY <2>6, <2>7
<1>3. IsFiniteSet(task'.rows)
  BY <1>2, FS_EmptySet
<1>4. QED
  BY <1>2, <1>3, Lengths

LEMMA StopKeeps ==
    ASSUME FeedInv, UNCHANGED <<now, ahead, history, source, since, mark, lastBar, published, uncovered>>,
           NEW at \in {"off", "idle"},
           \/ task' = [Stopped EXCEPT !.at = at, !.read = task.read]
           \/ at = "off" /\ task' = [Stopped EXCEPT !.read = task.read],
           at = "off" \/ task.at # "off"
    PROVE  FeedInv'
<1>1. /\ task' \in TaskOf(Item) /\ task'.at = at /\ task'.rows = {} /\ task'.frame = 0
      /\ task'.seq = 0 /\ IsFiniteSet(task'.rows) /\ Len(task'.queue) <= STREAM_BACKLOG
  BY StoppedTask
<1>2. Placed'
  BY <1>1 DEF FeedInv, Placed
<1>3. QED
  BY <1>1, <1>2, TaskMoves

LEMMA Quotient ==
    ASSUME NEW a \in Nat, NEW b \in Nat, b >= 1
    PROVE  /\ a \div b \in Nat
           /\ (a \div b) * b <= a
           /\ a < (a \div b + 1) * b
<1>1. a \div b \in Int /\ (a \div b) * b <= a /\ a < (a \div b) * b + b
  OBVIOUS
<1>2. (a \div b + 1) * b = (a \div b) * b + b
  BY <1>1
<1>3. a \div b >= 0
  OBVIOUS
<1>4. QED
  BY <1>1, <1>2, <1>3

(* A range to be asked for begins at the watermark and ends after now.     *)
LEMMA RangeAsked ==
    ASSUME FeedInv, NEW q \in TaskOf(Item)
    PROVE  /\ AskRange(q) \in TaskOf(Item)
           /\ AskRange(q).at = "asked" /\ AskRange(q).rows = {}
           /\ AskRange(q).seq = q.seq /\ AskRange(q).frame = q.frame
           /\ AskRange(q).queue = q.queue /\ AskRange(q).read = q.read
           /\ mark.msc > 0 => AskRange(q).from * Second <= mark.msc
           /\ now <= AskRange(q).upto * Second
<1> DEFINE from == IF mark.msc > 0 THEN mark.msc \div Second ELSE now \div Second
           upto == now \div Second + 1
<1>1. /\ from \in Nat /\ upto \in Nat
      /\ mark.msc > 0 => from * Second <= mark.msc
      /\ now <= upto * Second
  <2>1. /\ Second \in Nat /\ Second >= 1 /\ now \in Nat /\ mark.msc \in Int
    BY TaskParts, Lengths
  <2>2. now \div Second \in Nat /\ now < (now \div Second + 1) * Second
    BY <2>1, Quotient
  <2>3. now <= upto * Second
    <3>1. upto \in Nat /\ upto * Second \in Int /\ now < upto * Second
      BY <2>1, <2>2
    <3>2. QED
      BY <2>1, <3>1
  <2>4. mark.msc > 0 => /\ mark.msc \div Second \in Nat
                        /\ (mark.msc \div Second) * Second <= mark.msc
    <3>1. SUFFICES ASSUME mark.msc > 0
                   PROVE  /\ mark.msc \div Second \in Nat
                          /\ (mark.msc \div Second) * Second <= mark.msc
      OBVIOUS
    <3>2. mark.msc \in Nat
      BY <2>1, <3>1
    <3>3. QED
      BY <2>1, <3>2, Quotient
  <2>5. QED
    BY <2>2, <2>3, <2>4
<1>2. AskRange(q) = [q EXCEPT !.at = "asked", !.rows = {}, !.from = from, !.upto = upto]
  BY DEF AskRange
<1> HIDE DEF from, upto
<1>3. {} \in SUBSET Item
  OBVIOUS
<1>4. QED
  BY <1>1, <1>2, <1>3 DEF TaskOf

-----------------------------------------------------------------------------
(* What each action does to the feed.                                      *)
LEMMA ClockKeeps == ASSUME FeedInv, Clock PROVE FeedInv'
<1>1. /\ now < MaxTime /\ now' = now + 1
      /\ UNCHANGED <<ahead, history, source, task, since, mark, lastBar, published, uncovered>>
  BY DEF Clock
<1>2. /\ Newest' = Newest /\ Item' = Item /\ TaskOf(Item)' = TaskOf(Item) /\ Feed' = Feed /\ Out' = Out
  BY <1>1 DEF Newest, Item, Out, TaskOf, Feed
<1>3. /\ now \in Start..MaxTime /\ MaxTime \in Nat /\ Start \in Nat /\ Newest \in Nat
      /\ since \in Nat /\ since <= now /\ ahead \in Int
  BY Lengths, TaskParts DEF FeedInv, Timed
<1>4. /\ now' \in Start..MaxTime /\ now' \in Int /\ now <= now' /\ since <= now'
      /\ ServerTime' = ServerTime + 1 /\ ServerTime \in Int
  BY <1>1, <1>3 DEF ServerTime
<1>5. \A i \in 1..Newest : history[i].msc <= ServerTime'
  <2>1. \A i \in 1..Newest : history[i].msc \in Int /\ history[i].msc <= ServerTime
    BY TickTyped DEF FeedInv
  <2>2. QED
    BY <1>4, <2>1
<1>6. Timed'
  BY <1>1, <1>2, <1>4, <1>5 DEF FeedInv, Timed
<1>7. Bounded(mark.msc)'
  <2>1. mark.msc \in Int /\ Bounded(mark.msc)
    BY TaskParts
  <2>2. QED
    BY <1>1, <1>4, <2>1 DEF Bounded
<1>8. Typed'
  BY <1>1, <1>2, <1>4, <1>7 DEF FeedInv, Typed
<1>9. Placed'
  BY <1>1 DEF FeedInv, Placed
<1>10. source # "bars" => Once(Feed)'
  BY <1>1, OnceKept DEF FeedInv
<1>11. source = "bars" => Risen'
  BY <1>1 DEF FeedInv, Risen
<1>12. QED
  BY <1>1, <1>6, <1>8, <1>9, <1>10, <1>11 DEF FeedInv

LEMMA SubscribeKeeps == ASSUME FeedInv, Subscribe PROVE FeedInv'
<1>1. /\ task.at = "off" /\ task' = [Stopped EXCEPT !.at = "idle", !.read = task.read]
      /\ UNCHANGED <<now, ahead, history, source, lastBar, published, uncovered>>
  BY DEF Subscribe
<1>2. /\ task' \in TaskOf(Item) /\ task'.at = "idle" /\ task'.rows = {} /\ task'.frame = 0
      /\ task'.seq = 0 /\ IsFiniteSet(task'.rows) /\ Len(task'.queue) <= STREAM_BACKLOG
  BY <1>1, StoppedTask
<1>3. CASE mark # NoMark \/ source = "bars"
  <2>1. UNCHANGED <<since, mark>>
    BY <1>3 DEF Subscribe
  <2>2. Placed'
    BY <1>1, <1>2, <1>3, <2>1 DEF FeedInv, Placed
  <2>3. QED
    BY <1>1, <1>2, <2>1, <2>2, TaskMoves
<1>4. CASE ~(mark # NoMark \/ source = "bars")
  <2>1. PICK m : m = IF source = "poll" THEN 0 ELSE now
    OBVIOUS
  <2>2. /\ since' = m /\ mark' = [msc |-> m, seen |-> {}]
        /\ mark.msc = -1 /\ source # "bars"
    BY <1>4, <2>1 DEF Subscribe, NoMark
  <2>3. m \in Nat /\ m >= 0 /\ m <= now /\ (source # "poll" => m # 0)
    <3>1. now \in Nat /\ now >= Second /\ Second \in Nat /\ Second >= 1
      BY TaskParts, Lengths
    <3>2. QED
      BY <2>1, <3>1
  <2>4. mark'.msc = m /\ mark'.seen = {} /\ mark' \in [msc : Int, seen : SUBSET Quotes]
    BY <2>2, <2>3
  <2>5. published = <<>>
    BY <2>2, <2>3 DEF FeedInv, Placed
  <2>6. Newest' = Newest /\ Item' = Item /\ Out' = Out /\ TaskOf(Item)' = TaskOf(Item)
        /\ ServerTime' = ServerTime
    BY <1>1 DEF Newest, Item, Out, TaskOf, ServerTime
  <2>7. Timed'
    BY <1>1, <2>6 DEF FeedInv, Timed
  <2>8. Typed'
    BY <1>1, <1>2, <2>2, <2>3, <2>4, <2>6 DEF FeedInv, Typed, Bounded
  <2>9. Placed'
    BY <1>1, <1>2, <2>2, <2>3, <2>4 DEF FeedInv, Placed
  <2>10. Once(Feed)'
    <3>1. Feed'.out = <<>> /\ Feed'.seen = {}
      BY <1>1, <2>4, <2>5 DEF Feed
    <3>2. QED
      BY <3>1 DEF Once
  <2>11. QED
    BY <1>1, <2>2, <2>7, <2>8, <2>9, <2>10 DEF FeedInv
<1>5. QED
  BY <1>3, <1>4

LEMMA StopsKeep == ASSUME FeedInv, Unsubscribe \/ Fails PROVE FeedInv'
<1>1. CASE Unsubscribe
  <2>1. PICK at \in {"off", "idle"} : at = "off"
    OBVIOUS
  <2>2. QED
    BY <1>1, <2>1, StopKeeps DEF Unsubscribe
<1>2. CASE Fails
  BY <1>2, StopKeeps DEF Fails
<1>3. QED
  BY <1>1, <1>2

LEMMA AskKeeps == ASSUME FeedInv, Ask PROVE FeedInv'
<1>1. /\ task.at = "idle" /\ task' = AskRange(task)
      /\ UNCHANGED <<now, ahead, history, source, since, mark, lastBar, published, uncovered>>
  BY DEF Ask
<1>2. /\ task' \in TaskOf(Item) /\ task'.at = "asked" /\ task'.rows = {}
      /\ task'.seq = task.seq /\ task'.frame = task.frame /\ task'.queue = task.queue
  BY <1>1, TaskParts, RangeAsked
<1>3. IsFiniteSet(task'.rows)
  BY <1>2, FS_EmptySet
<1>4. Placed'
  BY <1>1, <1>2 DEF FeedInv, Placed
<1>5. QED
  BY <1>1, <1>2, <1>3, <1>4, TaskMoves

LEMMA OpenKeeps == ASSUME FeedInv, Open PROVE FeedInv'
<1>1. /\ task.at = "connect" /\ task' = [task EXCEPT !.at = "stream"]
      /\ UNCHANGED <<now, ahead, history, source, since, mark, lastBar, published, uncovered>>
  BY DEF Open
<1>2. /\ task' \in TaskOf(Item) /\ task'.at = "stream" /\ task'.rows = task.rows
      /\ task'.seq = task.seq /\ task'.frame = task.frame /\ task'.queue = task.queue
  BY <1>1, TaskParts DEF TaskOf
<1>3. IsFiniteSet(task'.rows)
  BY <1>2, TaskParts
<1>4. Placed'
  BY <1>1, <1>2 DEF FeedInv, Placed
<1>5. QED
  BY <1>1, <1>2, <1>3, <1>4, TaskMoves

(* A tick that is read is published: the feed stays what it is.            *)
LEMMA PublishKeeps ==
    ASSUME FeedInv, source # "bars", task.at # "off",
           NEW numbers \in Seq(1..Newest), Publish(numbers),
           UNCHANGED <<now, ahead, history, source, since, lastBar>>,
           task' \in TaskOf(Item), IsFiniteSet(task'.rows), uncovered' \subseteq 1..Newest,
           task'.frame = 0, task'.at # "stream" => task'.seq = 0,
           task'.at \in {"connect", "stream"} => source = "push",
           Len(task'.queue) <= STREAM_BACKLOG
    PROVE  FeedInv'
<1>1. /\ Newest' = Newest /\ Item' = Item /\ Out' = Out /\ TaskOf(Item)' = TaskOf(Item)
      /\ Out = 1..Newest /\ Newest \in Nat /\ ServerTime' = ServerTime
  BY TaskParts DEF Newest, Item, Out, TaskOf, ServerTime
<1>2. /\ Timed /\ Once(Feed) /\ Bounded(mark.msc) /\ mark.msc \in Int /\ mark.seen \in SUBSET Quotes
      /\ published \in Seq(1..Newest) /\ Typed /\ Placed
  BY <1>1 DEF FeedInv, Typed
<1>3. Feed \in FeedType
  BY <1>2 DEF Feed, FeedType
<1>4. Len(numbers) \in Nat
  OBVIOUS
<1>5. PICK h : /\ Offered(numbers, Len(numbers), h)
               /\ mark' = [msc |-> h[Len(numbers)].msc, seen |-> h[Len(numbers)].seen]
               /\ published' = h[Len(numbers)].out
  BY <1>4, PublishOffers, Zenon
<1>6. PICK st : st = h[Len(numbers)]
  OBVIOUS
<1>7. st \in FeedType /\ Once(st) /\ Bounded(st.msc) /\ st.msc >= mark.msc
  <2>1. Len(numbers) \in 0..Len(numbers)
    BY <1>4
  <2>2. QED
    BY <1>2, <1>3, <1>5, <1>6, <2>1, PublishOnce
<1>8. /\ st.msc \in Int /\ st.seen \in SUBSET Quotes /\ st.out \in Seq(1..Newest)
      /\ mark'.msc = st.msc /\ mark'.seen = st.seen /\ published' = st.out
      /\ mark' \in [msc : Int, seen : SUBSET Quotes]
  BY <1>5, <1>6, <1>7 DEF FeedType
<1>9. Timed'
  BY <1>1, <1>2 DEF Timed
<1>10. mark.msc >= 0
  BY <1>2 DEF Placed
<1>11. mark'.msc >= 0 /\ (mark.msc # 0 => mark'.msc # 0)
  BY <1>2, <1>7, <1>8, <1>10
<1>12. Typed'
  BY <1>1, <1>2, <1>7, <1>8, <1>11 DEF Typed, Bounded
<1>13. Placed'
  BY <1>2, <1>11 DEF Placed
<1>14. Once(Feed)'
  <2>1. Feed' = [msc |-> st.msc, seen |-> st.seen, out |-> st.out]
    BY <1>8 DEF Feed
  <2>2. st = [msc |-> st.msc, seen |-> st.seen, out |-> st.out]
    BY <1>7 DEF FeedType
  <2>3. Once(st)'
    BY <1>7 DEF Once, Same
  <2>4. QED
    BY <2>1, <2>2, <2>3
<1>15. QED
  BY <1>9, <1>12, <1>13, <1>14 DEF FeedInv

LEMMA OneOfThem ==
    ASSUME NEW N \in Nat, NEW f \in 1..N
    PROVE  /\ <<f>> \in Seq(1..N) /\ Len(<<f>>) = 1
           /\ \A n \in 1..1 : <<f>>[n] = f
  OBVIOUS

(* The frame that is taken, and what is left.                              *)
LEMMA FrameTaken ==
    ASSUME FeedInv, task.at = "stream", task.queue # <<>>, NEW q, NEW numbered \in BOOLEAN,
           q = [task EXCEPT !.queue = Tail(@), !.seq = IF numbered THEN Head(task.queue) ELSE @]
    PROVE  /\ Head(task.queue) \in 1..Newest
           /\ q \in TaskOf(Item) /\ q.at = "stream" /\ q.rows = task.rows /\ q.read = task.read
           /\ q.seq = (IF numbered THEN Head(task.queue) ELSE task.seq)
           /\ q.frame = task.frame
           /\ Len(q.queue) <= STREAM_BACKLOG
<1>1. /\ task \in TaskOf(Item) /\ task.queue \in Seq(1..Newest) /\ Newest \in Nat
      /\ task.seq \in 0..Newest
  BY TaskParts
<1>2. PICK f : f = Head(task.queue)
  OBVIOUS
<1>3. PICK s : s = Tail(task.queue)
  OBVIOUS
<1>4. f \in 1..Newest /\ s \in Seq(1..Newest) /\ Len(s) <= STREAM_BACKLOG /\ f \in 0..Newest
  <2> DEFINE N == 1..Newest
  <2>1. task.queue \in Seq(N) /\ task.queue # <<>> /\ Len(task.queue) <= STREAM_BACKLOG
    BY <1>1 DEF FeedInv, Placed
  <2> HIDE DEF N
  <2>2. f \in N /\ s \in Seq(N) /\ Len(s) <= STREAM_BACKLOG
    BY <1>2, <1>3, <2>1, Lengths
  <2>3. QED
    BY <1>1, <2>2 DEF N
<1>5. PICK g : g = IF numbered THEN f ELSE task.seq
  OBVIOUS
<1>6. g \in 0..Newest /\ q = [task EXCEPT !.queue = s, !.seq = g]
  BY <1>1, <1>2, <1>3, <1>4, <1>5
<1>7. QED
  BY <1>1, <1>2, <1>4, <1>5, <1>6 DEF TaskOf

(* The greater of two numbers.                                             *)
LEMMA MaxOfTwo ==
    ASSUME NEW N \in Nat, NEW a \in 0..N, NEW b \in 0..N
    PROVE  Max({a, b}) \in 0..N /\ Max({a, b}) >= a /\ Max({a, b}) >= b
           /\ Max({a, b}) \in {a, b}
<1>1. IsFiniteSet({a, b}) /\ {a, b} \in SUBSET Int /\ {a, b} # {}
  <2>1. IsFiniteSet({a} \cup {b})
    BY FS_Singleton, FS_AddElement
  <2>2. {a} \cup {b} = {a, b}
    OBVIOUS
  <2>3. a \in Int /\ b \in Int
    OBVIOUS
  <2>4. QED
    BY <2>1, <2>2, <2>3
<1>2. PICK m : m = Max({a, b})
  OBVIOUS
<1>3. m \in {a, b} /\ \A y \in {a, b} : m >= y
  BY <1>1, <1>2, MaxIsGreatest
<1>4. QED
  BY <1>2, <1>3

(* A frame that goes out at once is read.                                  *)
LEMMA FrameRead ==
    ASSUME FeedInv, NEW q \in TaskOf(Item), NEW f \in 1..Newest, NEW t,
           t = [q EXCEPT !.read = Max({@, f})]
    PROVE  /\ t \in TaskOf(Item) /\ t.at = q.at /\ t.rows = q.rows /\ t.queue = q.queue
           /\ t.seq = q.seq /\ t.frame = q.frame
           /\ t.read \in {q.read, f} /\ t.read >= q.read /\ t.read >= f
<1>1. Newest \in Nat /\ q.read \in 0..Newest /\ f \in 0..Newest
  <2>1. Newest \in Nat
    BY TaskParts
  <2>2. q.read \in 0..Newest
    BY DEF TaskOf
  <2>3. QED
    BY <2>1, <2>2
<1>2. PICK m : m = Max({q.read, f})
  OBVIOUS
<1>3. m \in 0..Newest /\ m \in {q.read, f} /\ m >= q.read /\ m >= f
  BY <1>1, <1>2, MaxOfTwo
<1>4. t = [q EXCEPT !.read = m]
  BY <1>2
<1>5. QED
  BY <1>3, <1>4 DEF TaskOf

LEMMA TakeFrameKeeps ==
    ASSUME FeedInv, NEW numbered \in BOOLEAN, TakeFrame(numbered)
    PROVE  FeedInv'
<1>1. /\ task.at = "stream" /\ task.queue # <<>>
      /\ UNCHANGED <<now, ahead, history, source, since, lastBar>>
  BY DEF TakeFrame
<1>2. PICK f : f = Head(task.queue)
  OBVIOUS
<1>3. PICK q : q = [task EXCEPT !.queue = Tail(@),
                                !.seq = IF numbered THEN Head(task.queue) ELSE @]
  OBVIOUS
<1>4. /\ f \in 1..Newest /\ q \in TaskOf(Item) /\ q.at = "stream" /\ q.rows = task.rows
      /\ q.seq = (IF numbered THEN f ELSE task.seq) /\ q.frame = task.frame
      /\ Len(q.queue) <= STREAM_BACKLOG
  BY <1>1, <1>2, <1>3, FrameTaken
<1>5. source = "push" /\ task.frame = 0 /\ Newest \in Nat /\ task.read \in 0..Newest
      /\ IsFiniteSet(task.rows)
  BY <1>1, TaskParts DEF FeedInv, Placed
<1>6. CASE numbered /\ Gap(f)
  <2>1. PICK p : p = [q EXCEPT !.frame = f]
    OBVIOUS
  <2>2. /\ p \in TaskOf(Item) /\ p.seq = f /\ p.frame = f /\ Len(p.queue) <= STREAM_BACKLOG
    <3>1. f \in 0..Newest /\ q.seq = f
      BY <1>4, <1>6
    <3>2. QED
      BY <1>4, <2>1, <3>1 DEF TaskOf
  <2>3. task' = AskRange(p) /\ UNCHANGED <<mark, published, uncovered>>
    BY <1>2, <1>3, <1>6, <2>1 DEF TakeFrame
  <2>4. /\ task' \in TaskOf(Item) /\ task'.at = "asked" /\ task'.rows = {}
        /\ task'.seq = f /\ task'.frame = f /\ Len(task'.queue) <= STREAM_BACKLOG
    BY <2>2, <2>3, RangeAsked
  <2>5. IsFiniteSet(task'.rows)
    BY <2>4, FS_EmptySet
  <2>6. Placed'
    BY <1>1, <1>5, <2>3, <2>4 DEF FeedInv, Placed
  <2>7. QED
    BY <1>1, <2>3, <2>4, <2>5, <2>6, TaskMoves
<1>7. CASE ~(numbered /\ Gap(f))
  <2>1. /\ task' = [q EXCEPT !.read = Max({@, f})] /\ Publish(<<f>>)
        /\ uncovered' = IF numbered /\ task.seq # 0 THEN uncovered
                        ELSE uncovered \cup task.read + 1 .. f - 1
    BY <1>2, <1>3, <1>7 DEF TakeFrame
  <2>2. uncovered' \subseteq 1..Newest
    <3>1. uncovered \subseteq 1..Newest
      BY DEF FeedInv, Typed
    <3>2. task.read + 1 .. f - 1 \subseteq 1..Newest
      BY <1>4, <1>5
    <3>3. QED
      BY <2>1, <3>1, <3>2
  <2>3. <<f>> \in Seq(1..Newest)
    BY <1>4, <1>5, OneOfThem
  <2>4. IsFiniteSet(task'.rows) /\ task'.at = "stream" /\ task'.frame = 0
        /\ Len(task'.queue) <= STREAM_BACKLOG /\ task' \in TaskOf(Item)
    <3>1. PICK t : t = [q EXCEPT !.read = Max({@, f})]
      OBVIOUS
    <3>2. q \in TaskOf(Item) /\ f \in 1..Newest
      BY <1>4
    <3>3. /\ t \in TaskOf(Item) /\ t.at = q.at /\ t.rows = q.rows
          /\ t.queue = q.queue /\ t.frame = q.frame
      BY <3>1, <3>2, FrameRead
    <3>4. task' = t
      BY <2>1, <3>1
    <3>5. QED
      BY <1>4, <1>5, <3>3, <3>4
  <2>5. QED
    BY <1>1, <1>5, <2>1, <2>2, <2>3, <2>4, PublishKeeps
<1>8. QED
  BY <1>6, <1>7

(* What is read of an answer: the task that goes on.                       *)
LEMMA TicksRead ==
    ASSUME FeedInv, ReadTicks
    PROVE  /\ task' \in TaskOf(Item) /\ task'.rows = {} /\ task'.frame = 0
           /\ task'.at = (IF source # "push" THEN "idle"
                          ELSE IF task.frame = 0 THEN "connect" ELSE "stream")
           /\ task'.seq = task.seq /\ task'.queue = task.queue
           /\ source # "push" => task'.read = task.read
           /\ source = "push" => /\ task'.read \in task.rows \cup {task.read, task.frame}
                                 /\ task'.read >= task.frame
<1>1. /\ task \in TaskOf(Item) /\ Newest \in Nat /\ task.frame \in 0..Newest
      /\ task.read \in 0..Newest /\ task.rows \in SUBSET (1..Newest) /\ IsFiniteSet(task.rows)
  BY TaskParts DEF ReadTicks, Item
<1>2. PICK at : at = IF source # "push" THEN "idle"
                     ELSE IF task.frame = 0 THEN "connect" ELSE "stream"
  OBVIOUS
<1>3. PICK r : r = IF source = "push" THEN Max(task.rows \cup {task.read, task.frame})
                   ELSE task.read
  OBVIOUS
<1>4. /\ r \in 0..Newest
      /\ source # "push" => r = task.read
      /\ source = "push" => r \in task.rows \cup {task.read, task.frame} /\ r >= task.frame
  <2>1. CASE source = "push"
    <3> DEFINE T == task.rows \cup {task.read, task.frame}
    <3>1. IsFiniteSet(T)
      <4>1. T = (task.rows \cup {task.read}) \cup {task.frame}
        OBVIOUS
      <4>2. QED
        BY <1>1, <4>1, FS_AddElement
    <3>2. T \in SUBSET (0..Newest) /\ T # {} /\ T \in SUBSET Int /\ task.frame \in T
      BY <1>1
    <3>3. r = Max(T)
      BY <1>3, <2>1
    <3> HIDE DEF T
    <3>4. r \in T /\ \A i \in T : r >= i
      BY <3>1, <3>2, <3>3, MaxIsGreatest
    <3>5. r \in 0..Newest /\ r >= task.frame
      BY <3>2, <3>4
    <3>6. QED
      BY <2>1, <3>4, <3>5 DEF T
  <2>2. CASE source # "push"
    BY <1>1, <1>3, <2>2
  <2>3. QED
    BY <2>1, <2>2
<1>5. task' = [task EXCEPT !.rows = {}, !.frame = 0, !.from = 0, !.upto = 0, !.at = at,
                           !.read = r]
  BY <1>2, <1>3 DEF ReadTicks
<1>6. at \in {"idle", "connect", "stream"} /\ {} \in SUBSET Item /\ 0 \in 0..Newest
  BY <1>1, <1>2
<1>7. /\ task' \in TaskOf(Item) /\ task'.at = at /\ task'.rows = {} /\ task'.frame = 0
      /\ task'.seq = task.seq /\ task'.queue = task.queue /\ task'.read = r
  BY <1>1, <1>4, <1>5, <1>6 DEF TaskOf
<1>8. QED
  BY <1>2, <1>4, <1>7

LEMMA ReadTicksKeeps == ASSUME FeedInv, ReadTicks PROVE FeedInv'
<1>1. /\ task.at = "answered" /\ source # "bars" /\ Publish(Offers(task.rows, task.frame))
      /\ UNCHANGED <<now, ahead, history, source, since, lastBar>>
      /\ uncovered' = uncovered \cup Unasked
  BY DEF ReadTicks, Offers
<1>2. PICK at : at = IF source # "push" THEN "idle"
                     ELSE IF task.frame = 0 THEN "connect" ELSE "stream"
  OBVIOUS
<1>3. /\ task \in TaskOf(Item) /\ Newest \in Nat /\ task.frame \in 0..Newest
      /\ task.read \in 0..Newest
      /\ task.rows \in SUBSET (1..Newest) /\ uncovered \subseteq 1..Newest /\ Placed
  BY <1>1, TaskParts DEF FeedInv, Typed, Item
<1>4. uncovered' \subseteq 1..Newest
  <2>1. task.read + 1 .. task.frame - 1 \subseteq 1..Newest
    BY <1>3
  <2>2. Unasked \subseteq 1..Newest
    BY <2>1 DEF Unasked
  <2>3. QED
    BY <1>1, <1>3, <2>2
<1>5. /\ task' \in TaskOf(Item) /\ task'.at = at /\ task'.rows = {} /\ task'.frame = 0
      /\ task'.seq = task.seq /\ task'.queue = task.queue
  BY <1>2, TicksRead
<1>6. PICK numbers : numbers = Offers(task.rows, task.frame)
  OBVIOUS
<1>7. numbers \in Seq(1..Newest)
  <2>1. PICK N \in Nat : N = Newest
    BY <1>3
  <2>2. PICK rows \in SUBSET (1..N) : rows = task.rows
    BY <1>3, <2>1
  <2>3. PICK frame \in 0..N : frame = task.frame
    BY <1>3, <2>1
  <2>4. numbers = Offers(rows, frame)
    BY <1>6, <2>2, <2>3
  <2>5. QED
    BY <2>1, <2>4, OffersInOrder
<1>8. Publish(numbers)
  BY <1>1, <1>6, Zenon
<1>9. task'.at # "stream" => task'.seq = 0
  BY <1>1, <1>2, <1>3, <1>5 DEF Placed
<1>10. task'.at \in {"connect", "stream"} => source = "push"
  BY <1>2, <1>5
<1>11. IsFiniteSet(task'.rows) /\ Len(task'.queue) <= STREAM_BACKLOG /\ task.at # "off"
  BY <1>1, <1>3, <1>5, FS_EmptySet DEF Placed
<1>12. QED
  BY <1>1, <1>3, <1>4, <1>5, <1>7, <1>8, <1>9, <1>10, <1>11, PublishKeeps

(* What an answer brings is there to be brought.                           *)
LEMMA ImageIsFinite ==
    ASSUME NEW S, IsFiniteSet(S), NEW f, DOMAIN f = S
    PROVE  IsFiniteSet({f[x] : x \in S})
<1> DEFINE T == {f[x] : x \in S}
           g == [x \in S |-> f[x]]
<1>1. g \in Surjection(S, T)
  BY DEF Surjection
<1>2. QED
  BY <1>1, FS_Surjection

LEMMA BarsAreRows ==
    ASSUME Timed
    PROVE  /\ \A i \in 1..Newest : BarOf(i) \in Nat
           /\ \A k : Held(k) \in Nat
           /\ BarRows \in SUBSET BarRow /\ IsFiniteSet(BarRows)
<1>1. Newest \in Nat
  BY NewestNat
<1>2. ASSUME NEW i \in 1..Newest
      PROVE  BarOf(i) \in Nat
  <2>1. history[i].msc \in Int /\ history[i].msc >= 0
    BY TickTyped
  <2>2. QED
    <3>1. PICK a \in Nat : a = history[i].msc
      BY <2>1
    <3>2. a \div BarLength \in Nat
      BY Lengths, Quotient
    <3>3. QED
      BY <3>1, <3>2 DEF BarOf
<1>3. IsFiniteSet(1..Newest)
  BY <1>1, FS_Interval
<1>4. ASSUME NEW k
      PROVE  Held(k) \in Nat
  <2>1. IsFiniteSet({i \in 1..Newest : BarOf(i) = k})
    BY <1>3, FS_Subset
  <2>2. QED
    BY <2>1, FS_CardinalityType DEF Held
<1>5. BarRows \in SUBSET BarRow
  BY <1>2, <1>4 DEF BarRows, BarRow
<1> DEFINE f == [i \in 1..Newest |-> [opened |-> BarOf(i), held |-> Held(BarOf(i))]]
<1>6. IsFiniteSet({f[i] : i \in 1..Newest})
  <2>1. DOMAIN f = 1..Newest
    OBVIOUS
  <2> HIDE DEF f
  <2>2. QED
    BY <1>3, <2>1, ImageIsFinite
<1>7. BarRows = {f[i] : i \in 1..Newest}
  BY DEF BarRows
<1>8. QED
  BY <1>2, <1>4, <1>5, <1>6, <1>7

LEMMA ReplyTyped ==
    ASSUME FeedInv
    PROVE  Reply \in SUBSET Item /\ IsFiniteSet(Reply)
<1>1. Timed /\ Newest \in Nat
  BY TaskParts DEF FeedInv
<1>2. IsFiniteSet(1..Newest)
  BY <1>1, FS_Interval
<1>3. CASE source = "bars"
  <2>1. Reply \in SUBSET BarRows /\ Item = BarRow
    BY <1>3 DEF Reply, Item
  <2>2. BarRows \in SUBSET BarRow /\ IsFiniteSet(BarRows)
    BY <1>1, BarsAreRows
  <2>3. IsFiniteSet(Reply)
    BY <2>1, <2>2, FS_Subset, Zenon
  <2>4. QED
    BY <2>1, <2>2, <2>3
<1>4. CASE source # "bars"
  <2>1. Reply \in SUBSET (1..Newest) /\ Item = 1..Newest
    BY <1>1, <1>4 DEF Reply, Item
  <2>2. IsFiniteSet(Reply)
    BY <1>2, <2>1, FS_Subset, Zenon
  <2>3. QED
    BY <2>1, <2>2
<1>5. QED
  BY <1>3, <1>4

LEMMA Answered ==
    ASSUME FeedInv, Answer
    PROVE  /\ task.at = "asked" /\ task' \in TaskOf(Item) /\ task'.at = "answered"
           /\ task'.rows = Reply /\ task'.from = task.from /\ task'.upto = task.upto
           /\ task'.seq = task.seq /\ task'.frame = task.frame /\ task'.queue = task.queue
           /\ task'.read = task.read /\ (source = "bars" => task'.when = now)
           /\ UNCHANGED <<now, ahead, history, source, since, mark, lastBar, published, uncovered>>
<1>1. /\ task \in TaskOf(Item) /\ now \in Nat /\ task.when \in Nat /\ Reply \in SUBSET Item
  BY TaskParts, ReplyTyped
<1>2. PICK S : S = Reply
  OBVIOUS
<1>3. PICK w : w = IF source = "bars" THEN now ELSE task.when
  OBVIOUS
<1>4. w \in Nat /\ (source = "bars" => w = now)
  BY <1>1, <1>3
<1>5. task' = [task EXCEPT !.at = "answered", !.rows = S, !.when = w]
  BY <1>2, <1>3 DEF Answer
<1>6. /\ task' \in TaskOf(Item) /\ task'.at = "answered" /\ task'.rows = S /\ task'.when = w
      /\ task'.from = task.from /\ task'.upto = task.upto /\ task'.read = task.read
      /\ task'.seq = task.seq /\ task'.frame = task.frame /\ task'.queue = task.queue
  BY <1>1, <1>2, <1>4, <1>5 DEF TaskOf
<1>7. QED
  BY <1>2, <1>4, <1>6 DEF Answer

LEMMA AnswerKeeps == ASSUME FeedInv, Answer PROVE FeedInv'
<1>1. /\ task.at = "asked" /\ task' \in TaskOf(Item) /\ task'.at = "answered"
      /\ task'.rows = Reply
      /\ task'.seq = task.seq /\ task'.frame = task.frame /\ task'.queue = task.queue
      /\ UNCHANGED <<now, ahead, history, source, since, mark, lastBar, published, uncovered>>
  BY Answered
<1>2. IsFiniteSet(task'.rows)
  BY <1>1, ReplyTyped
<1>3. Placed'
  BY <1>1 DEF FeedInv, Placed
<1>4. QED
  BY <1>1, <1>2, <1>3, TaskMoves

LEMMA Listed ==
    ASSUME NEW S, NEW c \in Nat, NEW s \in [1..c -> S]
    PROVE  s \in Seq(S)
  OBVIOUS

(* A bar that goes out, and its row.                                       *)
OutOf(bar, row) ==
    /\ bar.opened = row.opened /\ bar.held = row.held /\ bar.waited = now - task.when
    /\ ~IsForming(row.opened)

(* The bars that are read.  bars is what goes out of them.                 *)
LEMMA BarsRead ==
    ASSUME FeedInv, ReadBars
    PROVE  \E bars \in Seq(BarOut) :
              /\ published' = published \o bars
              /\ \A n \in DOMAIN bars : \E b \in task.rows : OutOf(bars[n], b)
              /\ \A n \in DOMAIN bars : bars[n].opened > lastBar /\ bars[n].opened <= lastBar'
              /\ \A m, n \in DOMAIN bars : m < n => bars[m].opened < bars[n].opened
              /\ lastBar' \in Int /\ lastBar' >= lastBar
<1> DEFINE ready == {b \in task.rows : b.opened > lastBar /\ ~IsForming(b.opened)}
           S == {b.opened : b \in ready}
           opened == Sorted(S)
           row(n) == CHOOSE c \in ready : c.opened = opened[n]
           bar(n) == [opened |-> row(n).opened, held |-> row(n).held, waited |-> now - task.when]
           bars == [n \in DOMAIN opened |-> bar(n)]
<1>1. source = "bars" /\ task.rows \in SUBSET BarRow /\ IsFiniteSet(task.rows) /\ lastBar \in Int
  BY TaskParts DEF FeedInv, Typed, Item, ReadBars
<1>2. IsFiniteSet(S) /\ S \in SUBSET Int
  <2>1. IsFiniteSet(ready)
    BY <1>1, FS_Subset
  <2> DEFINE f == [b \in ready |-> b.opened]
  <2>2. DOMAIN f = ready /\ \A b \in ready : f[b] = b.opened
    OBVIOUS
  <2>3. S \in SUBSET Int
    BY <1>1 DEF BarRow
  <2>4. IsFiniteSet({f[b] : b \in ready})
    <3> HIDE DEF ready, f
    <3>1. QED
      BY <2>1, <2>2, ImageIsFinite
  <2>5. {f[b] : b \in ready} = S
    BY <2>2
  <2>6. QED
    BY <2>3, <2>4, <2>5
<1>3. Enumerates(opened, S) /\ Cardinality(S) \in Nat
  <2> HIDE DEF S
  <2>1. QED
    BY <1>2, SortedEnumerates, FS_CardinalityType
<1>4. PICK c \in Nat : c = Cardinality(S)
  BY <1>3
<1>5. /\ DOMAIN opened = 1..c
      /\ \A n \in 1..c : opened[n] \in S
      /\ \A m, n \in 1..c : m < n => opened[m] < opened[n]
  <2> HIDE DEF S, opened
  <2>1. QED
    BY <1>3, <1>4 DEF Enumerates
<1>6. \A n \in 1..c : row(n) \in ready /\ row(n).opened = opened[n]
  <2>1. SUFFICES ASSUME NEW n \in 1..c
                 PROVE  row(n) \in ready /\ row(n).opened = opened[n]
    OBVIOUS
  <2>2. \E b \in ready : b.opened = opened[n]
    BY <1>5
  <2> HIDE DEF ready, opened
  <2>3. QED
    BY <2>2
<1>7. PICK top : top = Max(S \cup {lastBar})
  OBVIOUS
<1>8. top \in S \cup {lastBar} /\ \A k \in S \cup {lastBar} : top >= k
  <2> DEFINE T == S \cup {lastBar}
  <2>1. IsFiniteSet(T) /\ T \in SUBSET Int /\ T # {}
    <3> HIDE DEF S
    <3>1. QED
      BY <1>1, <1>2, FS_AddElement
  <2>2. Max(T) \in T /\ \A k \in T : Max(T) >= k
    <3> HIDE DEF T
    <3>1. QED
      BY <2>1, MaxIsGreatest
  <2> HIDE DEF S
  <2>3. QED
    BY <1>7, <2>2
<1>9. published' = published \o bars /\ lastBar' = top
  BY <1>7 DEF ReadBars
<1> DEFINE w == now - task.when
<1>10. /\ DOMAIN bars = 1..c /\ bars \in Seq(BarOut)
       /\ \A n \in 1..c : bars[n] = bar(n) /\ bars[n].opened = opened[n]
  <2>1. DOMAIN bars = 1..c /\ bars = [n \in 1..c |-> bar(n)]
    <3> HIDE DEF opened
    <3>1. QED
      BY <1>5
  <2>2. ready \subseteq BarRow /\ w \in Int
    BY <1>1, TaskParts
  <2> HIDE DEF ready, opened, row, w
  <2>3. \A n \in 1..c : bar(n) \in BarOut /\ bar(n).opened = row(n).opened
    BY <1>6, <2>2 DEF BarRow, BarOut, w
  <2> HIDE DEF bar
  <2>4. \A n \in 1..c : bars[n] = bar(n) /\ bars[n].opened = opened[n]
    BY <1>6, <2>1, <2>3
  <2> HIDE DEF bars
  <2>5. bars \in [1..c -> BarOut]
    BY <2>1, <2>3
  <2>6. bars \in Seq(BarOut)
    BY <2>5, Listed, Zenon
  <2>7. QED
    BY <2>1, <2>4, <2>6, Zenon
<1>11. ASSUME NEW n \in 1..c
       PROVE  /\ \E b \in task.rows : OutOf(bars[n], b)
              /\ bars[n].opened > lastBar /\ bars[n].opened <= lastBar'
  <2>1. /\ row(n) \in ready /\ row(n).opened = opened[n] /\ opened[n] \in S
        /\ bars[n] = bar(n) /\ bars[n].opened = opened[n]
    <3> HIDE DEF bars, opened, row, bar, S, ready
    <3>1. QED
      BY <1>5, <1>6, <1>10
  <2>2. PICK b : b = row(n)
    OBVIOUS
  <2>3. bar(n) = [opened |-> b.opened, held |-> b.held, waited |-> now - task.when]
    BY <2>2
  <2>4. b \in task.rows /\ b.opened > lastBar /\ ~IsForming(b.opened) /\ b.opened \in S
        /\ b.opened = opened[n]
    <3>1. b \in ready /\ b.opened = opened[n] /\ opened[n] \in S
      <4> HIDE DEF ready, S, opened, row
      <4>1. QED
        BY <2>1, <2>2
    <3> HIDE DEF S, opened, row
    <3>2. QED
      BY <3>1
  <2> HIDE DEF bars, S, opened, row, bar
  <2>5. OutOf(bars[n], b)
    BY <2>1, <2>3, <2>4 DEF OutOf
  <2>6. top >= b.opened /\ bars[n].opened = b.opened
    BY <1>8, <2>1, <2>4
  <2>7. top \in Int /\ b.opened \in Int
    BY <1>1, <1>2, <1>8, <2>4
  <2>8. QED
    BY <1>9, <2>4, <2>5, <2>6, <2>7
<1>12. lastBar' \in Int /\ lastBar' >= lastBar
  <2> HIDE DEF S
  <2>1. QED
    BY <1>1, <1>2, <1>8, <1>9
<1>13. \A m, n \in DOMAIN bars : m < n => bars[m].opened < bars[n].opened
  <2> HIDE DEF bars, opened
  <2>1. QED
    BY <1>5, <1>10
<1> HIDE DEF bars
<1>14. QED
  BY <1>9, <1>10, <1>11, <1>12, <1>13

LEMMA JoinedAt ==
    ASSUME NEW S, NEW s \in Seq(S), NEW t \in Seq(S)
    PROVE  /\ s \o t \in Seq(S)
           /\ DOMAIN (s \o t) = 1..Len(s) + Len(t) /\ Len(s) \in Nat /\ Len(t) \in Nat
           /\ DOMAIN s = 1..Len(s) /\ DOMAIN t = 1..Len(t)
           /\ \A n \in DOMAIN (s \o t) :
                 \/ n \in DOMAIN s /\ (s \o t)[n] = s[n]
                 \/ n > Len(s) /\ n - Len(s) \in DOMAIN t /\ (s \o t)[n] = t[n - Len(s)]
  OBVIOUS

LEMMA ReadBarsKeeps == ASSUME FeedInv, ReadBars PROVE FeedInv'
<1>1. /\ task.at = "answered" /\ source = "bars" /\ UNCHANGED <<now, ahead, history, source, since, mark, uncovered>>
  BY DEF ReadBars
<1>2. PICK q : q = Stopped
  OBVIOUS
<1>3. /\ Newest \in Nat /\ Timed /\ Placed /\ Risen /\ lastBar \in Int
      /\ published \in Seq(BarOut) /\ Item = BarRow /\ Out = BarOut
      /\ Newest' = Newest /\ Item' = Item /\ Out' = Out /\ TaskOf(Item)' = TaskOf(Item)
      /\ ServerTime' = ServerTime
  BY <1>1, TaskParts DEF FeedInv, Typed, Item, Out, TaskOf, Newest, ServerTime
<1>4. /\ task' \in TaskOf(Item) /\ task'.at = "idle" /\ task'.rows = {} /\ task'.frame = 0
      /\ task'.seq = 0 /\ task'.queue = <<>>
  <2>1. <<>> \in Seq(1..Newest) /\ 0 \in 0..Newest /\ {} \in SUBSET Item
    BY <1>3
  <2>2. /\ q \in TaskOf(Item) /\ q.rows = {} /\ q.frame = 0 /\ q.seq = 0 /\ q.queue = <<>>
    BY <1>2, <2>1 DEF Stopped, TaskOf
  <2>3. task' = [q EXCEPT !.at = "idle"]
    BY <1>2 DEF ReadBars
  <2>4. QED
    BY <2>2, <2>3 DEF TaskOf
<1>5. PICK bars \in Seq(BarOut) :
              /\ published' = published \o bars
              /\ \A n \in DOMAIN bars : bars[n].opened > lastBar /\ bars[n].opened <= lastBar'
              /\ \A m, n \in DOMAIN bars : m < n => bars[m].opened < bars[n].opened
              /\ lastBar' \in Int /\ lastBar' >= lastBar
  BY BarsRead
<1>6. PICK s \in Seq(BarOut) : s = published \o bars
  BY <1>3, JoinedAt
<1>7. /\ Len(published) \in Nat /\ DOMAIN published = 1..Len(published)
      /\ DOMAIN bars = 1..Len(bars)
      /\ \A n \in DOMAIN s :
            \/ n \in DOMAIN published /\ s[n] = published[n]
            \/ n > Len(published) /\ n - Len(published) \in DOMAIN bars
               /\ s[n] = bars[n - Len(published)]
      /\ \A n \in DOMAIN s : n \in Int /\ s[n] \in BarOut
      /\ \A n \in DOMAIN bars : bars[n] \in BarOut
  BY <1>3, <1>6, JoinedAt, EntryIn
<1>8. /\ \A m, n \in DOMAIN published : m < n => published[m].opened < published[n].opened
      /\ \A n \in DOMAIN published : published[n].opened <= lastBar /\ published[n] \in BarOut
  BY <1>3, EntryIn DEF Risen
<1>9. \A b \in BarOut : b.opened \in Int
  BY DEF BarOut
<1>10. ASSUME NEW n \in DOMAIN s
       PROVE  s[n].opened <= lastBar'
  <2>1. CASE n \in DOMAIN published /\ s[n] = published[n]
    BY <1>3, <1>5, <1>8, <1>9, <2>1
  <2>2. CASE n - Len(published) \in DOMAIN bars /\ s[n] = bars[n - Len(published)]
    BY <1>5, <2>2
  <2>3. QED
    BY <1>7, <2>1, <2>2
<1>11. ASSUME NEW m \in DOMAIN s, NEW n \in DOMAIN s, m < n
       PROVE  s[m].opened < s[n].opened
  <2>1. m \in Int /\ n \in Int /\ Len(published) \in Int
    BY <1>7
  <2>2. CASE n \in DOMAIN published /\ s[n] = published[n]
    <3>1. ~(m > Len(published))
      BY <1>7, <1>11, <2>1, <2>2
    <3>2. m \in DOMAIN published /\ s[m] = published[m]
      BY <1>7, <3>1
    <3>3. QED
      BY <1>8, <1>11, <2>2, <3>2
  <2>3. CASE n - Len(published) \in DOMAIN bars /\ s[n] = bars[n - Len(published)]
    <3>1. CASE m \in DOMAIN published /\ s[m] = published[m]
      <4>1. /\ published[m].opened <= lastBar /\ published[m].opened \in Int
            /\ s[n].opened > lastBar /\ s[n].opened \in Int
        BY <1>5, <1>7, <1>8, <1>9, <2>3, <3>1
      <4>2. QED
        BY <1>3, <3>1, <4>1
    <3>2. CASE m - Len(published) \in DOMAIN bars /\ s[m] = bars[m - Len(published)]
      <4>1. m - Len(published) < n - Len(published)
        BY <1>11, <2>1
      <4>2. QED
        BY <1>5, <2>3, <3>2, <4>1
    <3>3. QED
      BY <1>7, <3>1, <3>2
  <2>4. QED
    BY <1>7, <2>2, <2>3
<1>12. published' = s /\ s \in Seq(BarOut)
  BY <1>5, <1>6
<1>13. Risen'
  BY <1>10, <1>11, <1>12 DEF Risen
<1>14. Timed'
  BY <1>1, <1>3 DEF Timed
<1>15. IsFiniteSet(task'.rows) /\ Len(task'.queue) <= STREAM_BACKLOG
  BY <1>4, FS_EmptySet, Lengths
<1>16. Typed'
  BY <1>1, <1>3, <1>4, <1>5, <1>12, <1>15 DEF FeedInv, Typed, Bounded
<1>17. Placed'
  BY <1>1, <1>4, <1>15 DEF Placed
<1>18. QED
  BY <1>1, <1>13, <1>14, <1>16, <1>17 DEF FeedInv

LEMMA FeedStarts == Init => FeedInv
<1>1. SUFFICES ASSUME Init
               PROVE  FeedInv
  OBVIOUS
<1>2. /\ now = Start /\ ahead \in Offsets /\ since = 0 /\ history = <<>> /\ source \in Sources /\ mark = NoMark
      /\ lastBar = -1 /\ published = <<>> /\ uncovered = {} /\ Newest = 0
  BY <1>1 DEF Init, Newest
<1>3. PICK q : q = Stopped
  OBVIOUS
<1>4. task \in TaskOf(Item) /\ task.rows = {} /\ task.at = "off" /\ task.frame = 0
      /\ task.seq = 0 /\ task.queue = <<>>
  <2>1. <<>> \in Seq(1..Newest) /\ 0 \in 0..Newest /\ {} \in SUBSET Item
    BY <1>2
  <2>2. task = q
    BY <1>1, <1>3 DEF Init
  <2>3. QED
    BY <1>3, <2>1, <2>2 DEF Stopped, TaskOf
<1>5. mark.msc = -1 /\ mark.seen = {} /\ mark \in [msc : Int, seen : SUBSET Quotes]
  BY <1>2 DEF NoMark
<1>6. now \in Start..MaxTime /\ ServerTime \in Int /\ ServerTime > 0 /\ Bounded(mark.msc)
  BY <1>2, <1>5, Lengths DEF ServerTime, Bounded
<1>7. Timed
  BY <1>2, <1>6 DEF Timed
<1>8. IsFiniteSet(task.rows) /\ Len(task.queue) <= STREAM_BACKLOG
  BY <1>4, FS_EmptySet, Lengths
<1>9. Typed
  <2>1. published \in Seq(Out) /\ uncovered \subseteq 1..Newest /\ lastBar \in Int
    BY <1>2
  <2>2. since \in Nat /\ since <= now
    BY <1>2, Lengths
  <2>3. mark \in [msc : Int, seen : SUBSET Quotes] /\ mark.msc >= -1 /\ Bounded(mark.msc)
    BY <1>5, <1>6
  <2>4. QED
    BY <1>2, <1>4, <1>8, <2>1, <2>2, <2>3 DEF Typed
<1>10. Placed
  BY <1>2, <1>4, <1>5, <1>8 DEF Placed
<1>11. Once(Feed)
  <2>1. Feed.out = <<>> /\ Feed.seen = {}
    BY <1>2, <1>5 DEF Feed
  <2>2. QED
    BY <2>1 DEF Once
<1>12. Risen
  BY <1>2 DEF Risen
<1>13. QED
  BY <1>7, <1>9, <1>10, <1>11, <1>12 DEF FeedInv

LEMMA TicksKeep == ASSUME FeedInv, NEW quote \in Quotes, Tick(quote) \/ TickUnsent(quote)
                   PROVE  FeedInv'
  BY TickKeeps DEF Tick, TickUnsent

LEMMA FeedSteps == FeedInv /\ [Next]_vars => FeedInv'
<1>1. SUFFICES ASSUME FeedInv, [Next]_vars
               PROVE  FeedInv'
  OBVIOUS
<1>2. CASE \E quote \in Quotes : Tick(quote) \/ TickUnsent(quote)
  BY <1>1, <1>2, TicksKeep
<1>3. CASE UNCHANGED vars
  BY <1>1, <1>3 DEF vars, FeedInv, Timed, Typed, Placed, Once, Risen, Feed, TaskOf, Item, Out,
                        Newest, Same, Bounded, ServerTime
<1>4. QED
  BY <1>1, <1>2, <1>3, ClockKeeps, SubscribeKeeps, StopsKeep, AskKeeps, AnswerKeeps, OpenKeeps,
     TakeFrameKeeps, ReadTicksKeeps, ReadBarsKeeps DEF Next, Round

LEMMA FeedAlways == Spec => []FeedInv
  BY FeedStarts, FeedSteps, PTL DEF Spec

LEMMA FeedIsSafe == FeedInv => Safe
<1>1. SUFFICES ASSUME FeedInv
               PROVE  Safe
  OBVIOUS
<1>2. TypeOK
  <2>1. Timed /\ Typed /\ Placed
    BY <1>1 DEF FeedInv
  <2>2. task.at \in {"off", "idle", "asked", "answered", "connect", "stream"}
    BY <1>1, TaskParts
  <2>3. mark.seen \subseteq Quotes
    BY <2>1 DEF Typed
  <2>4. mark.msc <= now \/ mark.msc <= ServerTime
    <3>1. mark.msc \in Int /\ Bounded(mark.msc) /\ since \in Nat /\ since <= now /\ now \in Nat
      BY <1>1, TaskParts
    <3>2. QED
      BY <3>1 DEF Bounded
  <2>5. QED
    BY <2>1, <2>2, <2>3, <2>4 DEF TypeOK, Timed, Typed, Placed
<1>3. PublishedOnce
  <2>1. CASE source = "bars"
    BY <1>1, <2>1 DEF FeedInv, Risen, PublishedOnce
  <2>2. CASE source # "bars"
    <3>1. Once(Feed) /\ Feed.out = published
      BY <1>1, <2>2 DEF FeedInv, Feed
    <3>2. QED
      BY <2>2, <3>1 DEF Once, PublishedOnce
  <2>3. QED
    BY <2>1, <2>2
<1>4. QED
  BY <1>2, <1>3 DEF Safe

(* The types, and: what the strategy is fed is in order of time and has    *)
(* nothing twice, and no bar is published again or behind a younger one    *)
(* (_publish_tick, _catch_up, _stream_quotes, _poll_bars).                 *)
THEOREM AlwaysSafe == Spec => []Safe
  BY FeedAlways, FeedIsSafe, PTL

-----------------------------------------------------------------------------
(* Nothing is skipped, over the feed.                                      *)
LEMMA SettledKept ==
    ASSUME FeedInv, source # "bars", NEW j \in 1..Newest, Settled(uncovered, Feed, j),
           \A i \in 1..Newest : history'[i] = history[i],
           UNCHANGED <<since, published>>, uncovered \subseteq uncovered'
    PROVE  Settled(uncovered, Feed, j)'
<1>1. Feed.out = published /\ Feed'.out = published
  BY DEF Feed
<1>2. CASE j \in uncovered \/ history[j].msc < since
  BY <1>2 DEF Settled
<1>3. ASSUME NEW n \in DOMAIN published, Same(published[n], j)
      PROVE  Settled(uncovered, Feed, j)'
  <2>1. published \in Seq(1..Newest)
    BY DEF FeedInv, Typed, Out
  <2>2. published[n] \in 1..Newest
    BY <2>1, EntryIn
  <2>3. Same(published[n], j)'
    BY <1>3, <2>2 DEF Same
  <2>4. QED
    BY <1>1, <2>3 DEF Settled
<1>4. QED
  BY <1>1, <1>2, <1>3 DEF Settled

LEMMA CompleteKept ==
    ASSUME FeedInv, source # "bars", Complete(uncovered, Feed),
           UNCHANGED <<history, since, mark, published, uncovered>>
    PROVE  Complete(uncovered, Feed)'
  BY DEF Complete, Settled, Same, Feed, Newest

(* A tick before another in time is before it in number.                   *)
LEMMA EarlierIsBefore ==
    ASSUME Timed, NEW i \in 1..Newest, NEW j \in 1..Newest, history[j].msc < history[i].msc
    PROVE  j < i
<1>1. history[i].msc \in Int /\ history[j].msc \in Int /\ Newest \in Nat
  BY TickTyped, NewestNat
<1>2. i <= j => history[i].msc <= history[j].msc
  BY DEF Timed
<1>3. i \in Int /\ j \in Int
  OBVIOUS
<1>4. QED
  BY <1>1, <1>2, <1>3

LEMMA MarkIsSet ==
    ASSUME FeedInv, source \in {"ticks", "push"}, task.at # "off"
    PROVE  mark.msc > 0 /\ source # "bars"
<1>1. mark.msc \in Int /\ mark.msc >= 0 /\ mark.msc # 0
  BY TaskParts DEF FeedInv, Placed
<1>2. QED
  BY <1>1

LEMMA TickCompletes ==
    ASSUME FeedInv, CompleteInv, NEW quote \in Quotes, Tick(quote) \/ TickUnsent(quote)
    PROVE  CompleteInv'
<1>1. SUFFICES ASSUME source \in {"ticks", "push"}
               PROVE  Complete(uncovered, Feed)' /\ Refilled'
  BY DEF CompleteInv, Tick, TickUnsent
<1>2. /\ history' = Append(history, [msc |-> ServerTime, quote |-> quote])
      /\ UNCHANGED <<now, ahead, source, since, mark, published, uncovered>>
      /\ task' = task \/ task' = [task EXCEPT !.queue = Received(Newest + 1)]
  BY DEF Tick, TickUnsent
<1>3. /\ Newest' = Newest + 1 /\ Newest \in Nat
      /\ \A i \in 1..Newest : history'[i] = history[i]
      /\ history'[Newest + 1].msc = ServerTime
  BY <1>2, HistoryGrows DEF FeedInv
<1>4. /\ task'.at = task.at /\ task'.rows = task.rows /\ task'.from = task.from
      /\ task'.upto = task.upto /\ task'.seq = task.seq /\ task'.frame = task.frame
      /\ task'.read = task.read
  BY <1>2, TaskParts DEF TaskOf
<1>5. /\ Complete(uncovered, Feed) /\ Refilled /\ source # "bars"
      /\ task.read \in 0..Newest /\ task.seq \in 0..Newest
      /\ task.rows \in SUBSET (1..Newest)
      /\ task.frame \in 0..Newest /\ mark.msc \in Int /\ Bounded(mark.msc) /\ ServerTime \in Int
  BY <1>1, TaskParts DEF CompleteInv, Item
<1>6. \A j \in 1..Newest : Settled(uncovered, Feed, j) => Settled(uncovered, Feed, j)'
  BY <1>2, <1>3, <1>5, SettledKept
<1>7. Complete(uncovered, Feed)'
  <2>1. Feed'.msc = mark.msc /\ Feed.msc = mark.msc
    BY <1>2 DEF Feed
  <2>2. ASSUME NEW i \in 1..Newest + 1, history'[i].msc < mark.msc
        PROVE  Settled(uncovered, Feed, i)'
    <3>1. CASE i = Newest + 1
      <4>1. history'[i].msc = ServerTime
        BY <1>3, <3>1
      <4>2. mark.msc = since
        BY <1>5, <2>2, <4>1 DEF Bounded
      <4>3. history'[i].msc < since'
        BY <1>2, <2>2, <4>2
      <4>4. QED
        BY <4>3 DEF Settled
    <3>2. CASE i # Newest + 1
      <4>1. i \in 1..Newest
        BY <1>3, <3>2
      <4>2. history[i].msc < mark.msc
        BY <1>3, <2>2, <4>1
      <4>3. QED
        BY <1>5, <1>6, <2>1, <4>1, <4>2 DEF Complete
    <3>3. QED
      BY <3>1, <3>2
  <2>3. QED
    BY <1>3, <2>1, <2>2 DEF Complete
<1>8. Refilled'
  <2>1. \A j \in 1..task.read : Settled(uncovered, Feed, j)'
    <3>1. \A j \in 1..task.read : j \in 1..Newest
      BY <1>3, <1>5
    <3>2. \A j \in 1..task.read : Settled(uncovered, Feed, j)
      BY <1>5 DEF Refilled
    <3>3. QED
      BY <1>6, <3>1, <3>2
  <2>2. task.at = "asked" =>
           /\ task.from * Second <= mark.msc
           /\ ahead <= 0 => \A j \in 1..task.frame : history'[j].msc <= task.upto * Second
    <3>1. \A j \in 1..task.frame : j \in 1..Newest
      BY <1>3, <1>5
    <3>2. QED
      BY <1>3, <1>5, <3>1 DEF Refilled
  <2>3. ASSUME task.at = "answered", NEW r \in task.rows, NEW j \in 1..r,
               history'[j].msc >= mark.msc
        PROVE  j \in task.rows
    <3>1. r \in 1..Newest
      BY <1>5
    <3>2. j \in 1..Newest
      BY <1>3, <3>1
    <3>3. history[j].msc >= mark.msc
      BY <1>3, <2>3, <3>2
    <3>4. QED
      BY <1>5, <2>3, <3>3 DEF Refilled
  <2>4. ASSUME task.at = "answered", NEW j \in 1..task.frame, history'[j].msc >= mark.msc
        PROVE  j \in task.rows \/ (ahead > 0 /\ ~InRange(j)')
    <3>1. j \in 1..Newest
      BY <1>3, <1>5
    <3>2. history[j].msc >= mark.msc
      BY <1>3, <2>4, <3>1
    <3>3. j \in task.rows \/ (ahead > 0 /\ ~InRange(j))
      BY <1>5, <2>4, <3>2 DEF Refilled
    <3>4. InRange(j)' <=> InRange(j)
      BY <1>3, <1>4, <3>1 DEF InRange
    <3>5. QED
      BY <3>3, <3>4
  <2>5. QED
    BY <1>2, <1>4, <1>5, <2>1, <2>2, <2>3, <2>4 DEF Refilled
<1>9. QED
  BY <1>7, <1>8

LEMMA StillCompletes ==
    ASSUME FeedInv, CompleteInv, Clock \/ Subscribe \/ Unsubscribe \/ Fails \/ Open
    PROVE  CompleteInv'
<1>1. SUFFICES ASSUME source \in {"ticks", "push"}
               PROVE  Complete(uncovered, Feed)' /\ Refilled'
  BY DEF CompleteInv, Clock, Subscribe, Unsubscribe, Fails, Open
<1>2. Complete(uncovered, Feed) /\ Refilled /\ source # "bars"
  BY <1>1 DEF CompleteInv
<1>3. CASE Clock
  <2>1. UNCHANGED <<ahead, history, task, since, mark, published, uncovered>>
    BY <1>3 DEF Clock
  <2>2. Refilled'
    BY <1>2, <2>1 DEF Refilled, InRange, Settled, Same, Feed
  <2>3. QED
    BY <1>2, <2>1, <2>2, CompleteKept
<1>4. CASE Unsubscribe \/ Fails
  <2>1. UNCHANGED <<ahead, history, since, mark, published, uncovered>>
    BY <1>4 DEF Unsubscribe, Fails
  <2>2. task'.at \in {"off", "idle"} /\ task'.read = task.read
    <3>1. CASE Unsubscribe
      BY <3>1 DEF Unsubscribe, Stopped
    <3>2. CASE Fails
      BY <3>2, StoppedTask DEF Fails
    <3>3. QED
      BY <1>4, <3>1, <3>2
  <2>3. \A k : Settled(uncovered, Feed, k)' <=> Settled(uncovered, Feed, k)
    BY <2>1 DEF Settled, Same, Feed
  <2>4. Refilled'
    BY <1>2, <2>2, <2>3 DEF Refilled
  <2>5. QED
    BY <1>2, <2>1, <2>4, CompleteKept
<1>5. CASE Subscribe
  <2>1. task'.at = "idle" /\ task'.read = task.read
    BY <1>5, StoppedTask DEF Subscribe
  <2>2. UNCHANGED <<history, published, uncovered>> /\ Newest' = Newest
    BY <1>5 DEF Subscribe, Newest
  <2>3. CASE UNCHANGED <<since, mark>>
    <3>1. \A k : Settled(uncovered, Feed, k)' <=> Settled(uncovered, Feed, k)
      BY <2>2, <2>3 DEF Settled, Same, Feed
    <3>2. Refilled'
      BY <1>2, <2>1, <3>1 DEF Refilled
    <3>3. QED
      BY <1>2, <2>2, <2>3, <3>2, CompleteKept
  <2>4. CASE since' = now /\ mark'.msc = now
    <3>1. ASSUME NEW k \in 1..Newest, Settled(uncovered, Feed, k)
          PROVE  Settled(uncovered, Feed, k)'
      <4>1. history[k].msc \in Int /\ since \in Nat /\ since <= now /\ now \in Nat
        BY TickTyped, TaskParts DEF FeedInv
      <4>2. history[k].msc < since => history'[k].msc < since'
        BY <2>2, <2>4, <4>1
      <4>3. Feed'.out = Feed.out
        BY <2>2 DEF Feed
      <4>4. QED
        BY <2>2, <3>1, <4>2, <4>3 DEF Settled, Same
    <3>2. task.read \in 0..Newest /\ Newest \in Nat
      BY TaskParts
    <3>3. \A k \in 1..task.read : Settled(uncovered, Feed, k)'
      BY <1>2, <3>1, <3>2 DEF Refilled
    <3>4. Refilled'
      BY <2>1, <3>3 DEF Refilled
    <3>5. Complete(uncovered, Feed)'
      BY <2>4 DEF Complete, Settled, Feed
    <3>6. QED
      BY <3>4, <3>5
  <2>5. QED
    BY <1>1, <1>5, <2>3, <2>4 DEF Subscribe
<1>6. CASE Open
  <2>1. /\ task.at = "connect" /\ task' = [task EXCEPT !.at = "stream"]
        /\ UNCHANGED <<now, ahead, history, source, since, mark, lastBar, published, uncovered>>
    BY <1>6 DEF Open
  <2>2. /\ task'.at = "stream" /\ task'.seq = task.seq /\ task'.read = task.read
        /\ task.seq = 0 /\ task.read \in 0..Newest /\ Newest \in Nat
    BY <2>1, TaskParts DEF TaskOf, FeedInv, Placed
  <2>3. \A j : Settled(uncovered, Feed, j)' <=> Settled(uncovered, Feed, j)
    BY <2>1 DEF Settled, Same, Feed
  <2>4. Refilled'
    BY <1>2, <2>2, <2>3 DEF Refilled
  <2>5. QED
    BY <1>2, <2>1, <2>4, CompleteKept
<1>7. QED
  BY <1>3, <1>4, <1>5, <1>6

(* A range that is asked for from the watermark on.                        *)
LEMMA AskingCompletes ==
    ASSUME FeedInv, CompleteInv, task.at # "off",
           NEW q \in TaskOf(Item), q.read = task.read, task' = AskRange(q),
           UNCHANGED <<now, ahead, history, source, since, mark, published, uncovered>>
    PROVE  CompleteInv'
<1>1. SUFFICES ASSUME source \in {"ticks", "push"}
               PROVE  Complete(uncovered, Feed)' /\ Refilled'
  BY DEF CompleteInv
<1>2. /\ Complete(uncovered, Feed) /\ Refilled /\ mark.msc > 0 /\ source # "bars"
      /\ Newest \in Nat /\ Timed /\ now \in Nat /\ ahead \in Int
  BY <1>1, MarkIsSet, TaskParts DEF CompleteInv, FeedInv
<1>3. /\ task'.at = "asked" /\ task'.frame = q.frame /\ task'.read = task.read
      /\ task'.from * Second <= mark.msc /\ now <= task'.upto * Second
      /\ task'.upto \in Nat /\ q.frame \in 0..Newest
  BY <1>2, RangeAsked DEF TaskOf
<1>4. ASSUME ahead <= 0, NEW j \in 1..task'.frame
      PROVE  history[j].msc <= task'.upto * Second
  <2>1. j \in 1..Newest
    BY <1>2, <1>3
  <2>2. history[j].msc \in Int /\ history[j].msc <= ServerTime /\ ServerTime <= now
    <3>1. history[j].msc \in Int /\ history[j].msc <= ServerTime
      BY <1>2, <2>1, TickTyped
    <3>2. ServerTime <= now
      BY <1>2, <1>4 DEF ServerTime
    <3>3. QED
      BY <3>1, <3>2
  <2>3. task'.upto * Second \in Int /\ ServerTime \in Int
    BY <1>2, <1>3, Lengths DEF ServerTime
  <2>4. QED
    BY <1>2, <1>3, <2>2, <2>3
<1>5. \A k : Settled(uncovered, Feed, k)' <=> Settled(uncovered, Feed, k)
  BY DEF Settled, Same, Feed
<1>6. Refilled'
  BY <1>2, <1>3, <1>4, <1>5 DEF Refilled
<1>7. QED
  BY <1>2, <1>6, CompleteKept

LEMMA AnswerCompletes == ASSUME FeedInv, CompleteInv, Answer PROVE CompleteInv'
<1>1. SUFFICES ASSUME source \in {"ticks", "push"}
               PROVE  Complete(uncovered, Feed)' /\ Refilled'
  BY DEF CompleteInv, Answer
<1>2. /\ task.at = "asked" /\ task'.at = "answered" /\ task'.rows = Reply
      /\ task'.frame = task.frame /\ task'.read = task.read
      /\ task'.from = task.from /\ task'.upto = task.upto
      /\ UNCHANGED <<now, ahead, history, source, since, mark, lastBar, published, uncovered>>
  BY <1>1, Answered
<1>3. /\ Complete(uncovered, Feed) /\ Refilled /\ source # "bars" /\ Newest \in Nat /\ Timed
      /\ task.from * Second <= mark.msc /\ mark.msc \in Int /\ ahead \in Int
      /\ task.from \in Nat /\ task.upto \in Nat /\ task.frame \in 0..Newest
      /\ ahead <= 0 => \A j \in 1..task.frame : history[j].msc <= task.upto * Second
  BY <1>1, <1>2, TaskParts DEF CompleteInv, FeedInv, Refilled
<1>4. PICK from \in Int : from = task.from * Second
  BY <1>3, Lengths
<1>5. PICK upto \in Int : upto = task.upto * Second
  BY <1>3, Lengths
<1>6. Reply = {i \in 1..Newest : InRange(i)}
  BY <1>1 DEF Reply
<1>7. \A i : InRange(i) <=> history[i].msc >= from /\ history[i].msc <= upto
  BY <1>4, <1>5 DEF InRange
<1>8. ASSUME NEW r \in Reply, NEW j \in 1..r, history[j].msc >= mark.msc
      PROVE  j \in Reply
  <2>1. r \in 1..Newest /\ history[r].msc <= upto
    BY <1>6, <1>7
  <2>2. j \in 1..Newest /\ j <= r
    BY <1>3, <2>1
  <2>3. history[j].msc <= history[r].msc
    BY <1>3, <2>1, <2>2 DEF Timed
  <2>4. history[j].msc \in Int /\ history[r].msc \in Int
    BY <1>3, <2>1, <2>2, TickTyped
  <2>5. history[j].msc >= from /\ history[j].msc <= upto
    BY <1>3, <1>4, <1>8, <2>1, <2>3, <2>4
  <2>6. QED
    BY <1>6, <1>7, <2>2, <2>5
<1>9. ASSUME NEW j \in 1..task.frame, history[j].msc >= mark.msc
      PROVE  j \in Reply \/ (ahead > 0 /\ ~InRange(j))
  <2>1. j \in 1..Newest
    BY <1>3
  <2>2. history[j].msc \in Int
    BY <1>3, <2>1, TickTyped
  <2>3. CASE ahead > 0
    BY <1>6, <2>1, <2>3
  <2>4. CASE ~(ahead > 0)
    <3>1. history[j].msc <= upto /\ history[j].msc >= from
      BY <1>3, <1>4, <1>5, <1>9, <2>2, <2>4
    <3>2. QED
      BY <1>6, <1>7, <2>1, <3>1
  <2>5. QED
    BY <2>3, <2>4
<1>10. \A k : Settled(uncovered, Feed, k)' <=> Settled(uncovered, Feed, k)
  BY <1>2 DEF Settled, Same, Feed
<1>11. \A k : InRange(k)' <=> InRange(k)
  BY <1>2 DEF InRange
<1>12. Refilled'
  BY <1>2, <1>3, <1>8, <1>9, <1>10, <1>11 DEF Refilled
<1>13. QED
  BY <1>2, <1>3, <1>12, CompleteKept

(* What is published leaves the ticks settled that it brings.              *)
LEMMA PublishLeaves ==
    ASSUME FeedInv, source # "bars", NEW numbers \in Seq(1..Newest), Publish(numbers),
           UNCHANGED <<now, ahead, history, source, since>>, Complete(uncovered', Feed),
           \A n \in 1..Len(numbers) : \A j \in 1..Newest :
              history[j].msc < history[numbers[n]].msc =>
                 Settled(uncovered', Feed, j) \/ \E m \in 1..n - 1 : numbers[m] = j
    PROVE  /\ Complete(uncovered, Feed)'
           /\ \A n \in 1..Len(numbers) : Settled(uncovered, Feed, numbers[n])'
           /\ \A j : Settled(uncovered', Feed, j) => Settled(uncovered, Feed, j)'
<1>1. PICK skipped : skipped = uncovered'
  OBVIOUS
<1>2. /\ Timed /\ Once(Feed) /\ Bounded(mark.msc) /\ mark.msc \in Int /\ mark.seen \in SUBSET Quotes
      /\ published \in Seq(1..Newest)
  BY DEF FeedInv, Typed, Out
<1>3. Feed \in FeedType
  BY <1>2 DEF Feed, FeedType
<1>4. Len(numbers) \in Nat
  OBVIOUS
<1>5. PICK h : /\ Offered(numbers, Len(numbers), h)
               /\ mark' = [msc |-> h[Len(numbers)].msc, seen |-> h[Len(numbers)].seen]
               /\ published' = h[Len(numbers)].out
  BY <1>4, PublishOffers, Zenon
<1>6. PICK st : st = h[Len(numbers)]
  OBVIOUS
<1>7. /\ Complete(skipped, st)
      /\ \A n \in 1..Len(numbers) : Settled(skipped, st, numbers[n])
      /\ \A j : Settled(skipped, Feed, j) => Settled(skipped, st, j)
  <2>1. Complete(skipped, Feed)
    BY <1>1
  <2>2. \A n \in 1..Len(numbers) : \A j \in 1..Newest :
           history[j].msc < history[numbers[n]].msc =>
              Settled(skipped, Feed, j) \/ \E m \in 1..n - 1 : numbers[m] = j
    BY <1>1
  <2>3. QED
    BY <1>2, <1>3, <1>5, <1>6, <2>1, <2>2, PublishSettles
<1>8. Feed'.out = st.out /\ Feed'.msc = st.msc
  BY <1>5, <1>6 DEF Feed
<1>9. \A j : Settled(skipped, st, j) => Settled(uncovered, Feed, j)'
  BY <1>1, <1>8 DEF Settled, Same
<1>10. Complete(uncovered, Feed)'
  <2>1. Newest' = Newest
    BY DEF Newest
  <2>2. QED
    BY <1>7, <1>8, <1>9, <2>1 DEF Complete
<1>11. QED
  BY <1>1, <1>7, <1>9, <1>10

LEMMA TakeFrameCompletes ==
    ASSUME FeedInv, CompleteInv, NEW numbered \in BOOLEAN, TakeFrame(numbered)
    PROVE  CompleteInv'
<1>1. /\ task.at = "stream" /\ task.queue # <<>>
      /\ UNCHANGED <<now, ahead, history, source, since, lastBar>>
  BY DEF TakeFrame
<1>2. PICK f : f = Head(task.queue)
  OBVIOUS
<1>3. PICK q : q = [task EXCEPT !.queue = Tail(@),
                                !.seq = IF numbered THEN Head(task.queue) ELSE @]
  OBVIOUS
<1>4. /\ f \in 1..Newest /\ q \in TaskOf(Item) /\ q.at = "stream"
      /\ q.seq = (IF numbered THEN f ELSE task.seq) /\ q.frame = task.frame
      /\ q.read = task.read
  BY <1>1, <1>2, <1>3, FrameTaken
<1>5. /\ source = "push" /\ task.frame = 0 /\ Newest \in Nat /\ task.read \in 0..Newest
      /\ task.seq \in 0..Newest /\ Complete(uncovered, Feed) /\ Refilled /\ Timed
      /\ task.seq <= task.read
  BY <1>1, TaskParts DEF FeedInv, Placed, CompleteInv, Refilled
<1>6. CASE numbered /\ Gap(f)
  <2>1. PICK p : p = [q EXCEPT !.frame = f]
    OBVIOUS
  <2>2. p \in TaskOf(Item) /\ p.read = task.read
    <3>1. f \in 0..Newest
      BY <1>4
    <3>2. QED
      BY <1>4, <2>1, <3>1 DEF TaskOf
  <2>3. task' = AskRange(p) /\ UNCHANGED <<mark, published, uncovered>>
    BY <1>2, <1>3, <1>6, <2>1 DEF TakeFrame
  <2>4. QED
    BY <1>1, <2>2, <2>3, AskingCompletes
<1>7. CASE ~(numbered /\ Gap(f))
  <2>1. /\ task' = [q EXCEPT !.read = Max({@, f})] /\ Publish(<<f>>)
        /\ uncovered' = IF numbered /\ task.seq # 0 THEN uncovered
                        ELSE uncovered \cup task.read + 1 .. f - 1
    BY <1>2, <1>3, <1>7 DEF TakeFrame
  <2>2. uncovered \subseteq uncovered'
    BY <2>1
  <2>3. \A j : Settled(uncovered, Feed, j) => Settled(uncovered', Feed, j)
    BY <2>2 DEF Settled
  <2>4. Complete(uncovered', Feed)
    BY <1>5, <2>3 DEF Complete
  <2>5. ASSUME NEW j \in 1..f - 1
        PROVE  Settled(uncovered', Feed, j)
    <3>1. CASE j <= task.read
      <4>1. j \in 1..task.read
        BY <1>4, <1>5, <3>1
      <4>2. QED
        BY <1>5, <2>3, <4>1 DEF Refilled
    <3>2. CASE ~(j <= task.read)
      <4>1. j \in task.read + 1 .. f - 1
        BY <1>4, <1>5, <3>2
      <4>2. CASE numbered /\ task.seq # 0
        <5>1. f = task.seq + 1
          BY <1>7, <4>2 DEF Gap
        <5>2. QED
          BY <1>4, <1>5, <3>2, <5>1
      <4>3. CASE ~(numbered /\ task.seq # 0)
        BY <2>1, <4>1, <4>3 DEF Settled
      <4>4. QED
        BY <4>2, <4>3
    <3>3. QED
      BY <3>1, <3>2
  <2>6. /\ <<f>> \in Seq(1..Newest) /\ Len(<<f>>) = 1 /\ \A n \in 1..1 : <<f>>[n] = f
    BY <1>4, <1>5, OneOfThem
  <2>7. PICK numbers : numbers = <<f>>
    OBVIOUS
  <2>8. ASSUME NEW n \in 1..Len(numbers), NEW j \in 1..Newest,
               history[j].msc < history[numbers[n]].msc
        PROVE  Settled(uncovered', Feed, j)
    <3>1. numbers[n] = f
      BY <2>6, <2>7, <2>8
    <3>2. j < f
      BY <1>4, <1>5, <2>8, <3>1, EarlierIsBefore
    <3>3. j \in 1..f - 1
      BY <1>4, <1>5, <3>2
    <3>4. QED
      BY <2>5, <3>3
  <2>9. /\ Complete(uncovered, Feed)'
        /\ \A n \in 1..Len(numbers) : Settled(uncovered, Feed, numbers[n])'
        /\ \A j : Settled(uncovered', Feed, j) => Settled(uncovered, Feed, j)'
    <3>1. numbers \in Seq(1..Newest) /\ Publish(numbers) /\ source # "bars"
      BY <1>5, <2>1, <2>6, <2>7
    <3>2. QED
      BY <1>1, <2>4, <2>8, <3>1, PublishLeaves
  <2>10. Settled(uncovered, Feed, f)'
    <3>1. 1 \in 1..Len(numbers) /\ numbers[1] = f
      BY <2>6, <2>7
    <3>2. QED
      BY <2>9, <3>1
  <2>11. ASSUME NEW j \in 1..f
         PROVE  Settled(uncovered, Feed, j)'
    <3>1. CASE j = f
      BY <2>10, <3>1
    <3>2. CASE j # f
      <4>1. j \in 1..f - 1
        BY <1>4, <3>2
      <4>2. QED
        BY <2>5, <2>9, <4>1
    <3>3. QED
      BY <3>1, <3>2
  <2>12. /\ task'.at = "stream" /\ task'.seq = q.seq
         /\ task'.read \in {task.read, f} /\ task'.read >= task.read /\ task'.read >= f
    BY <1>4, <2>1, FrameRead
  <2>13. ASSUME NEW j \in 1..task'.read
         PROVE  Settled(uncovered, Feed, j)'
    <3>1. CASE task'.read = task.read
      <4>1. Settled(uncovered, Feed, j)
        BY <1>5, <3>1 DEF Refilled
      <4>2. QED
        BY <2>3, <2>9, <4>1
    <3>2. CASE task'.read = f
      BY <2>11, <3>2
    <3>3. QED
      BY <2>12, <3>1, <3>2
  <2>14. task'.seq <= task'.read
    <3>1. task'.read \in Int /\ f \in Int /\ task.read \in Int /\ task.seq \in Int
      BY <1>4, <1>5, <2>12
    <3>2. QED
      BY <1>4, <1>5, <2>12, <3>1
  <2>15. Refilled'
    BY <2>12, <2>13, <2>14 DEF Refilled
  <2>16. QED
    BY <2>9, <2>15 DEF CompleteInv
<1>8. QED
  BY <1>6, <1>7

LEMMA ReadTicksCompletes == ASSUME FeedInv, CompleteInv, ReadTicks PROVE CompleteInv'
<1>1. SUFFICES ASSUME source \in {"ticks", "push"}
               PROVE  Complete(uncovered, Feed)' /\ Refilled'
  BY DEF CompleteInv, ReadTicks
<1>2. /\ task.at = "answered" /\ source # "bars" /\ Publish(Offers(task.rows, task.frame))
      /\ UNCHANGED <<now, ahead, history, source, since, lastBar>>
      /\ uncovered' = uncovered \cup Unasked
  BY DEF ReadTicks, Offers
<1>3. /\ task \in TaskOf(Item) /\ Newest \in Nat /\ task.frame \in 0..Newest
      /\ task.read \in 0..Newest /\ task.seq = task.frame
      /\ task.rows \in SUBSET (1..Newest) /\ Timed
      /\ Complete(uncovered, Feed) /\ Refilled /\ mark.msc \in Int
  BY <1>1, <1>2, TaskParts DEF FeedInv, Placed, Item, CompleteInv
<1>4. PICK N \in Nat : N = Newest
  BY <1>3
<1>5. PICK rows \in SUBSET (1..N) : rows = task.rows
  BY <1>3, <1>4
<1>6. PICK frame \in 0..N : frame = task.frame
  BY <1>3, <1>4
<1>7. PICK numbers : numbers = Offers(rows, frame)
  OBVIOUS
<1>8. /\ numbers \in Seq(1..N)
      /\ \A i \in rows \cup ({frame} \ {0}) : \E n \in 1..Len(numbers) : numbers[n] = i
      /\ \A n \in 1..Len(numbers) :
            \/ /\ numbers[n] \in rows
               /\ \A j \in rows : j < numbers[n] => \E m \in 1..n - 1 : numbers[m] = j
            \/ /\ numbers[n] = frame /\ frame # 0
               /\ \A j \in rows : \E m \in 1..n - 1 : numbers[m] = j
  <2>1. numbers \in Seq(1..N) /\ InOrder(numbers, rows, frame)
    BY <1>7, OffersInOrder
  <2>2. QED
    BY <2>1 DEF InOrder
<1>9. Publish(numbers)
  BY <1>2, <1>5, <1>6, <1>7, Zenon
<1>10. /\ Complete(uncovered', Feed)
       /\ \A k : Settled(uncovered, Feed, k) => Settled(uncovered', Feed, k)
  <2>1. uncovered \subseteq uncovered'
    BY <1>2
  <2>2. \A k : Settled(uncovered, Feed, k) => Settled(uncovered', Feed, k)
    BY <2>1 DEF Settled
  <2>3. QED
    BY <1>3, <2>2 DEF Complete
(* A tick older than the watermark is settled; a younger one is among the  *)
(* rows, or was not asked for.                                             *)
<1>11. ASSUME NEW j \in 1..Newest, history[j].msc < mark.msc
       PROVE  Settled(uncovered', Feed, j)
  BY <1>3, <1>10, <1>11 DEF Complete, Feed
<1>12. ASSUME NEW r \in rows, NEW j \in 1..r
       PROVE  Settled(uncovered', Feed, j) \/ j \in rows
  <2>1. r \in 1..Newest /\ j \in 1..Newest
    BY <1>4, <1>5
  <2>2. history[j].msc \in Int
    BY <1>3, <2>1, TickTyped
  <2>3. CASE history[j].msc >= mark.msc
    BY <1>2, <1>3, <1>5, <2>3 DEF Refilled
  <2>4. QED
    BY <1>3, <1>11, <2>1, <2>2, <2>3
<1>13. ASSUME NEW j \in 1..frame - 1
       PROVE  Settled(uncovered', Feed, j) \/ j \in rows
  <2>1. j \in 1..Newest /\ j \in 1..task.frame
    BY <1>4, <1>6
  <2>2. history[j].msc \in Int
    BY <1>3, <2>1, TickTyped
  <2>3. CASE j <= task.read
    <3>1. j \in 1..task.read
      BY <1>3, <2>1, <2>3
    <3>2. QED
      BY <1>3, <1>10, <3>1 DEF Refilled
  <2>4. CASE ~(j <= task.read) /\ history[j].msc >= mark.msc
    <3>1. j \in task.rows \/ (ahead > 0 /\ ~InRange(j))
      BY <1>2, <1>3, <2>1, <2>4 DEF Refilled
    <3>2. j \in task.read + 1 .. task.frame - 1
      BY <1>3, <1>6, <2>1, <2>4
    <3>3. CASE ahead > 0 /\ ~InRange(j)
      BY <1>2, <3>2, <3>3 DEF Unasked, Settled
    <3>4. QED
      BY <1>5, <3>1, <3>3
  <2>5. QED
    BY <1>3, <1>11, <2>1, <2>2, <2>3, <2>4
<1>14. ASSUME NEW n \in 1..Len(numbers), NEW j \in 1..Newest,
              history[j].msc < history[numbers[n]].msc
       PROVE  Settled(uncovered', Feed, j) \/ \E m \in 1..n - 1 : numbers[m] = j
  <2>1. PICK i : i = numbers[n]
    OBVIOUS
  <2>2. i \in 1..Newest
    BY <1>4, <1>5, <1>6, <1>8, <1>14, <2>1
  <2>3. j < i
    BY <1>3, <1>14, <2>1, <2>2, EarlierIsBefore
  <2>4. CASE i \in rows /\ \A k \in rows : k < i => \E m \in 1..n - 1 : numbers[m] = k
    <3>1. j \in 1..i
      BY <1>3, <2>2, <2>3
    <3>2. Settled(uncovered', Feed, j) \/ j \in rows
      BY <1>12, <2>4, <3>1
    <3>3. QED
      BY <2>3, <2>4, <3>2
  <2>5. CASE i = frame /\ frame # 0 /\ \A k \in rows : \E m \in 1..n - 1 : numbers[m] = k
    <3>1. j \in 1..frame - 1
      BY <1>3, <2>2, <2>3, <2>5
    <3>2. Settled(uncovered', Feed, j) \/ j \in rows
      BY <1>13, <3>1
    <3>3. QED
      BY <2>5, <3>2
  <2>6. QED
    BY <1>8, <1>14, <2>1, <2>4, <2>5
<1>15. /\ Complete(uncovered, Feed)'
       /\ \A n \in 1..Len(numbers) : Settled(uncovered, Feed, numbers[n])'
       /\ \A j : Settled(uncovered', Feed, j) => Settled(uncovered, Feed, j)'
  <2>1. numbers \in Seq(1..Newest)
    BY <1>4, <1>8
  <2>2. QED
    BY <1>2, <1>9, <1>10, <1>14, <2>1, PublishLeaves
<1>16. \A k \in rows \cup ({frame} \ {0}) : Settled(uncovered, Feed, k)'
  BY <1>8, <1>15
<1>17. ASSUME NEW r \in rows \cup ({frame} \ {0}) \cup ({task.read} \ {0}), NEW j \in 1..r
       PROVE  Settled(uncovered, Feed, j)'
  <2>1. CASE r \in rows
    BY <1>12, <1>15, <1>16, <1>17, <2>1
  <2>2. CASE r = frame
    <3>1. j = frame \/ j \in 1..frame - 1
      BY <1>6, <1>17, <2>2
    <3>2. CASE j = frame
      BY <1>16, <1>17, <2>2, <3>2
    <3>3. CASE j \in 1..frame - 1
      BY <1>13, <1>15, <1>16, <3>3
    <3>4. QED
      BY <3>1, <3>2, <3>3
  <2>3. CASE r = task.read
    <3>1. Settled(uncovered, Feed, j)
      BY <1>3, <1>17, <2>3 DEF Refilled
    <3>2. QED
      BY <1>10, <1>15, <3>1
  <2>4. QED
    BY <1>17, <2>1, <2>2, <2>3
<1>18. /\ task'.at \in {"idle", "connect", "stream"} /\ task'.seq = task.seq
       /\ task'.read \in rows \cup {task.read, frame}
       /\ task'.at = "stream" => task'.seq <= task'.read
  <2>1. source = "push" => task'.read >= task.frame /\ task'.read \in task.rows \cup {task.read, task.frame}
    BY TicksRead
  <2>2. source # "push" => task'.read = task.read /\ task'.at = "idle"
    BY TicksRead
  <2>3. task'.at \in {"idle", "connect", "stream"} /\ task'.seq = task.seq
    BY TicksRead
  <2>4. QED
    BY <1>3, <1>5, <1>6, <2>1, <2>2, <2>3
<1>19. \A j \in 1..task'.read : Settled(uncovered, Feed, j)'
  <2>1. CASE task'.read = 0
    BY <2>1
  <2>2. CASE task'.read # 0
    <3>1. task'.read \in rows \cup ({frame} \ {0}) \cup ({task.read} \ {0})
      BY <1>18, <2>2
    <3>2. QED
      BY <1>17, <3>1
  <2>3. QED
    BY <2>1, <2>2
<1>20. Refilled'
  BY <1>18, <1>19 DEF Refilled
<1>21. QED
  BY <1>15, <1>20

LEMMA FeedCompletes == FeedInv /\ CompleteInv /\ [Next]_vars => CompleteInv'
<1>1. SUFFICES ASSUME FeedInv, CompleteInv, [Next]_vars
               PROVE  CompleteInv'
  OBVIOUS
<1>2. CASE \E quote \in Quotes : Tick(quote) \/ TickUnsent(quote)
  BY <1>1, <1>2, TickCompletes
<1>3. CASE Ask
  <2>1. task \in TaskOf(Item)
    BY <1>1, TaskParts
  <2>2. QED
    BY <1>1, <1>3, <2>1, AskingCompletes DEF Ask
<1>4. CASE ReadBars
  BY <1>4 DEF ReadBars, CompleteInv
<1>5. CASE UNCHANGED vars
  BY <1>1, <1>5 DEF vars, CompleteInv, Complete, Refilled, InRange, Settled, Same, Feed, Newest
<1>6. QED
  BY <1>1, <1>2, <1>3, <1>4, <1>5, StillCompletes, AnswerCompletes, TakeFrameCompletes,
     ReadTicksCompletes DEF Next, Round

(* Once a tick went out no older one was passed over, however the clocks   *)
(* differ, but for those lost before a frame without a number or the first *)
(* of a stream, and those a server whose clock is ahead stamped after the  *)
(* range a refill asked for (_catch_up, _stream_quotes).                   *)
THEOREM NothingIsSkipped == Spec => []NothingSkipped
<1>1. Init => CompleteInv
  BY DEF Init, CompleteInv, Complete, Refilled, Stopped, Newest
<1>2. FeedInv /\ CompleteInv => NothingSkipped
  <2>1. SUFFICES ASSUME FeedInv, CompleteInv, source \in {"ticks", "push"}, NEW i \in 1..Newest,
                        Owed(i), history[i].msc < mark.msc
                 PROVE  WentOut(i)
    BY DEF NothingSkipped
  <2>2. Settled(uncovered, Feed, i) /\ Feed.out = published
    BY <2>1 DEF CompleteInv, Complete, Feed
  <2>3. history[i].msc \in Int /\ since \in Nat
    BY <2>1, TickTyped, TaskParts DEF FeedInv
  <2>4. ~(history[i].msc < since) /\ i \notin uncovered
    BY <2>1, <2>3 DEF Owed
  <2>5. QED
    BY <2>2, <2>4 DEF Settled, WentOut
<1>3. QED
  BY <1>1, <1>2, FeedAlways, FeedCompletes, PTL DEF Spec

-----------------------------------------------------------------------------
(* A published bar holds every tick of its time.                           *)
LEMMA BarsKept ==
    ASSUME FeedInv, BarsInv, UNCHANGED <<now, ahead, history, source, published>>,
           task'.at # "answered"
    PROVE  BarsInv'
  BY DEF BarsInv, Over, Lasting, Whole, Held, BarOf, Newest, ServerTime

(* Time goes on, and a bar that is over stays so.                          *)
LEMMA OverStays ==
    ASSUME NEW k \in Nat, NEW t \in Int, NEW u \in Int, t <= u, Over(k, t)
    PROVE  Over(k, u)
<1>1. PICK e \in Int : e = (k + 1) * BarLength
  BY Lengths
<1>2. QED
  BY <1>1 DEF Over

(* A tick adds to no bar that is over.                                     *)
LEMMA TickKeepsBars ==
    ASSUME FeedInv, BarsInv, NEW quote \in Quotes, Tick(quote) \/ TickUnsent(quote)
    PROVE  BarsInv'
<1>1. SUFFICES ASSUME source = "bars"
               PROVE  /\ task'.at = "answered" =>
                            /\ task'.when <= now'
                            /\ \A b \in task'.rows : Exact(b, task.when + ahead)'
                      /\ \A n \in DOMAIN published : Lasting(published[n])'
  BY DEF BarsInv, Tick, TickUnsent
<1>2. /\ history' = Append(history, [msc |-> ServerTime, quote |-> quote])
      /\ UNCHANGED <<now, ahead, source, since, mark, published, uncovered>>
      /\ task' = task \/ task' = [task EXCEPT !.queue = Received(Newest + 1)]
  BY DEF Tick, TickUnsent
<1>3. /\ Newest' = Newest + 1 /\ Newest \in Nat
      /\ \A i \in 1..Newest : history'[i] = history[i]
      /\ history'[Newest + 1].msc = ServerTime
  BY <1>2, HistoryGrows DEF FeedInv
<1>4. task'.at = task.at /\ task'.rows = task.rows /\ task'.when = task.when
  BY <1>2, TaskParts DEF TaskOf
<1>5. PICK here \in Nat : here = ServerTime
  BY TaskParts
<1>6. /\ BarLength \in Nat /\ BarLength >= 1 /\ now \in Nat /\ ahead \in Int /\ task.when \in Nat
      /\ ServerTime = now + ahead /\ ServerTime' = ServerTime
  BY <1>2, TaskParts, Lengths DEF ServerTime
<1>7. ASSUME NEW k \in Nat, Over(k, here)
      PROVE  Held(k)' = Held(k)
  <2>1. here \div BarLength \in Nat /\ here < (here \div BarLength + 1) * BarLength
    BY <1>6, Quotient
  <2>2. here \div BarLength # k
    <3>1. (k + 1) * BarLength <= here /\ (k + 1) * BarLength \in Int
      BY <1>6, <1>7 DEF Over
    <3>2. SUFFICES ASSUME here \div BarLength = k
                   PROVE  FALSE
      OBVIOUS
    <3>3. here < (k + 1) * BarLength
      BY <2>1, <3>2
    <3>4. QED
      BY <3>1, <3>3
  <2>3. {i \in 1..Newest' : history'[i].msc \div BarLength = k}
          = {i \in 1..Newest : history[i].msc \div BarLength = k}
    <3>1. history'[Newest + 1].msc \div BarLength # k
      BY <1>3, <1>5, <2>2
    <3>2. \A i \in 1..Newest : history'[i].msc \div BarLength = history[i].msc \div BarLength
      BY <1>3
    <3>3. 1..Newest' = (1..Newest) \cup {Newest + 1}
      BY <1>3
    <3>4. QED
      BY <3>1, <3>2, <3>3
  <2>4. QED
    BY <2>3 DEF Held, BarOf
<1>8. task.rows \in SUBSET BarRow /\ published \in Seq(BarOut)
  BY <1>1, TaskParts DEF FeedInv, Typed, Item, Out
<1>9. ASSUME task'.at = "answered"
      PROVE  /\ task'.when <= now'
             /\ \A b \in task'.rows : Exact(b, task.when + ahead)'
  <2>1. task.when <= now /\ \A b \in task.rows : Exact(b, task.when + ahead)
    BY <1>1, <1>4, <1>9 DEF BarsInv
  <2>2. ASSUME NEW b \in task.rows, Over(b.opened, task.when + ahead)
        PROVE  Whole(b)'
    <3>1. b.opened \in Nat /\ b.held = Held(b.opened)
      BY <1>8, <2>1, <2>2 DEF BarRow, Exact, Whole
    <3>2. task.when + ahead \in Int /\ task.when + ahead <= here
      BY <1>5, <1>6, <2>1
    <3>3. Over(b.opened, here)
      BY <2>2, <3>1, <3>2, OverStays
    <3>4. QED
      BY <1>7, <3>1, <3>3 DEF Whole
  <2>3. \A b \in task'.rows : Over(b.opened, task.when + ahead)' => Whole(b)'
    BY <1>2, <1>4, <2>2 DEF Over
  <2>4. QED
    BY <1>2, <1>4, <2>1, <2>3 DEF Exact
<1>10. ASSUME NEW n \in DOMAIN published
       PROVE  Lasting(published[n])'
  <2>1. PICK b \in BarOut : b = published[n]
    BY <1>8, EntryIn
  <2>2. Lasting(b) /\ b.opened \in Nat
    BY <1>1, <2>1 DEF BarsInv, BarOut
  <2>3. ASSUME b.waited <= ahead
        PROVE  Over(b.opened, here) /\ b.held = Held(b.opened)'
    BY <1>5, <1>7, <2>2, <2>3 DEF Lasting, Whole
  <2>4. published'[n] = b
    BY <1>2, <2>1
  <2>5. QED
    BY <1>2, <1>5, <1>6, <2>3, <2>4 DEF Lasting, Whole, Over
<1>11. QED
  BY <1>9, <1>10

LEMMA ClockKeepsBars == ASSUME FeedInv, BarsInv, Clock PROVE BarsInv'
<1>1. SUFFICES ASSUME source = "bars"
               PROVE  /\ task'.at = "answered" =>
                            /\ task'.when <= now'
                            /\ \A b \in task'.rows : Exact(b, task.when + ahead)'
                      /\ \A n \in DOMAIN published : Lasting(published[n])'
  BY DEF BarsInv, Clock
<1>2. /\ now' = now + 1
      /\ UNCHANGED <<ahead, history, source, task, since, mark, lastBar, published, uncovered>>
  BY DEF Clock
<1>3. /\ now \in Nat /\ task.when \in Nat /\ ServerTime \in Int /\ ServerTime' = ServerTime + 1
      /\ published \in Seq(BarOut)
  BY <1>1, <1>2, TaskParts DEF ServerTime, FeedInv, Typed, Out
<1>4. \A k : Held(k)' = Held(k)
  BY <1>2 DEF Held, BarOf, Newest
<1>5. task.at = "answered" =>
         task.when <= now' /\ \A b \in task.rows : Exact(b, task.when + ahead)'
  BY <1>1, <1>2, <1>3, <1>4 DEF BarsInv, Exact, Over, Whole
<1>6. ASSUME NEW n \in DOMAIN published
      PROVE  Lasting(published[n])'
  <2>1. PICK b \in BarOut : b = published[n]
    BY <1>3, EntryIn
  <2>2. Lasting(b) /\ b.opened \in Nat
    BY <1>1, <2>1 DEF BarsInv, BarOut
  <2>3. Over(b.opened, ServerTime) => Over(b.opened, ServerTime + 1)
    <3>1. ServerTime + 1 \in Int /\ ServerTime <= ServerTime + 1
      BY <1>3
    <3>2. QED
      BY <1>3, <2>2, <3>1, OverStays
  <2>4. b.waited <= ahead => Over(b.opened, ServerTime + 1) /\ b.held = Held(b.opened)'
    BY <1>4, <2>2, <2>3 DEF Lasting, Whole
  <2>5. published'[n] = b
    BY <1>2, <2>1
  <2>6. QED
    BY <1>2, <1>3, <2>4, <2>5 DEF Lasting, Whole, Over
<1>7. QED
  BY <1>2, <1>5, <1>6

LEMMA AnswerKeepsBars == ASSUME FeedInv, BarsInv, Answer PROVE BarsInv'
<1>1. SUFFICES ASSUME source = "bars"
               PROVE  /\ task'.when <= now'
                      /\ \A b \in task'.rows : Exact(b, task.when + ahead)'
                      /\ \A n \in DOMAIN published : Lasting(published[n])'
  BY DEF BarsInv, Answer
<1>2. /\ task'.rows = Reply /\ task'.when = now /\ now \in Nat
      /\ UNCHANGED <<now, ahead, history, source, since, mark, lastBar, published, uncovered>>
  BY <1>1, Answered, TaskParts
<1>3. (\A k : Held(k)' = Held(k)) /\ ServerTime' = ServerTime
  BY <1>2 DEF Held, BarOf, Newest, ServerTime
<1>4. Reply \subseteq BarRows
  BY <1>1 DEF Reply
<1>5. \A b \in BarRows : b.held = Held(b.opened)
  BY DEF BarRows
<1>6. \A b \in task'.rows : Exact(b, task.when + ahead)'
  BY <1>2, <1>3, <1>4, <1>5 DEF Exact, Whole
<1>7. \A n \in DOMAIN published : Lasting(published[n])'
  BY <1>1, <1>2, <1>3 DEF BarsInv, Lasting, Whole, Over
<1>8. QED
  BY <1>2, <1>6, <1>7

LEMMA ReadBarsKeepsBars == ASSUME FeedInv, BarsInv, ReadBars PROVE BarsInv'
<1>1. /\ source = "bars" /\ task.at = "answered"
      /\ UNCHANGED <<now, ahead, history, source, since, mark, uncovered>>
      /\ task'.at # "answered"
  BY DEF ReadBars, Stopped
<1>2. PICK bars \in Seq(BarOut) :
        /\ published' = published \o bars
        /\ \A n \in DOMAIN bars : \E b \in task.rows : OutOf(bars[n], b)
  BY BarsRead
<1>3. /\ published \in Seq(BarOut) /\ now \in Nat /\ BarLength \in Nat /\ ahead \in Int
      /\ task.when \in Nat /\ task.rows \in SUBSET BarRow /\ ServerTime = now + ahead
  BY <1>1, TaskParts, Lengths DEF FeedInv, Typed, Item, Out, ServerTime
<1>4. PICK s \in Seq(BarOut) : s = published \o bars
  BY <1>3, JoinedAt
<1>5. \A n \in DOMAIN s :
         \/ n \in DOMAIN published /\ s[n] = published[n]
         \/ n - Len(published) \in DOMAIN bars /\ s[n] = bars[n - Len(published)]
  BY <1>3, <1>4, JoinedAt
<1>6. (\A k : Held(k)' = Held(k)) /\ ServerTime' = ServerTime
  BY <1>1 DEF Held, BarOf, Newest, ServerTime
<1>7. ASSUME NEW n \in DOMAIN s
      PROVE  Lasting(s[n])
  <2>1. CASE n \in DOMAIN published /\ s[n] = published[n]
    BY <1>1, <2>1 DEF BarsInv
  <2>2. CASE n - Len(published) \in DOMAIN bars /\ s[n] = bars[n - Len(published)]
    <3>1. PICK b \in task.rows : OutOf(s[n], b)
      BY <1>2, <2>2
    <3>2. /\ b.opened \in Nat /\ Exact(b, task.when + ahead) /\ task.when <= now
          /\ s[n].opened = b.opened /\ s[n].held = b.held /\ s[n].waited = now - task.when
          /\ ~IsForming(b.opened)
      BY <1>1, <1>3, <3>1 DEF BarsInv, BarRow, OutOf
    <3>3. PICK e \in Int : e = (b.opened + 1) * BarLength
      BY <1>3, <3>2
    <3>4. e <= now
      BY <1>3, <3>2, <3>3 DEF IsForming
    <3>5. SUFFICES ASSUME s[n].waited <= ahead
                   PROVE  Over(b.opened, ServerTime) /\ Whole(b)
      BY <3>2 DEF Lasting, Whole
    <3>6. e <= task.when + ahead /\ e <= now + ahead
      BY <1>3, <3>2, <3>4, <3>5
    <3>7. QED
      BY <1>3, <3>2, <3>3, <3>6 DEF Over, Exact
  <2>3. QED
    BY <1>5, <2>1, <2>2
<1>8. QED
  BY <1>1, <1>2, <1>4, <1>6, <1>7 DEF BarsInv, Lasting, Whole, Over

LEMMA BarsStep == FeedInv /\ BarsInv /\ [Next]_vars => BarsInv'
<1>1. SUFFICES ASSUME FeedInv, BarsInv, [Next]_vars
               PROVE  BarsInv'
  OBVIOUS
<1>2. CASE \E quote \in Quotes : Tick(quote) \/ TickUnsent(quote)
  BY <1>1, <1>2, TickKeepsBars
<1>3. CASE Subscribe \/ Unsubscribe \/ Fails
  <2>1. UNCHANGED <<now, ahead, history, source, published>>
    BY <1>3 DEF Subscribe, Unsubscribe, Fails
  <2>2. task'.at # "answered"
    BY <1>3 DEF Subscribe, Unsubscribe, Fails, Stopped
  <2>3. QED
    BY <1>1, <2>1, <2>2, BarsKept
<1>4. CASE Ask
  <2>1. task \in TaskOf(Item) /\ task' = AskRange(task)
    BY <1>1, <1>4, TaskParts DEF Ask
  <2>2. task'.at # "answered"
    BY <1>1, <2>1, RangeAsked
  <2>3. QED
    BY <1>1, <1>4, <2>2, BarsKept DEF Ask
<1>5. CASE Open \/ (\E numbered \in BOOLEAN : TakeFrame(numbered)) \/ ReadTicks
  <2>1. source # "bars" /\ source' = source
    BY <1>1, <1>5 DEF Open, TakeFrame, ReadTicks, FeedInv, Placed
  <2>2. QED
    BY <2>1 DEF BarsInv
<1>6. CASE UNCHANGED vars
  BY <1>1, <1>6 DEF vars, BarsInv, Over, Exact, Lasting, Whole, Held, BarOf, Newest, ServerTime
<1>7. QED
  BY <1>1, <1>2, <1>3, <1>4, <1>5, <1>6, ClockKeepsBars, AnswerKeepsBars, ReadBarsKeepsBars
  DEF Next, Round

(* A bar that is read no later after its answer than the server's clock is *)
(* ahead of the client's holds every tick of its time (_is_forming,        *)
(* _poll_bars).                                                            *)
THEOREM BarsAreClosed == Spec => []OnlyClosedBars
<1>1. Init => BarsInv
  BY DEF Init, BarsInv, Stopped
<1>2. BarsInv => OnlyClosedBars
  BY DEF BarsInv, Lasting, OnlyClosedBars
<1>3. QED
  BY <1>1, <1>2, BarsStep, FeedAlways, PTL DEF Spec
=============================================================================
