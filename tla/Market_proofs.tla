---------------------------- MODULE Market_proofs ----------------------------
(***************************************************************************)
(* Any number of threads, any names: each name of a batch is answered once,*)
(* and no quote is older than its TTL and its way to the cache, although   *)
(* the map and the cache under them are changed between any two statements.*)
(* A request keeps its names in three parts, those to do, those with a     *)
(* quote and those with an error, and every statement moves one from the   *)
(* first to one of the others.                                             *)
(***************************************************************************)
EXTENDS Market, TLAPS

Resolves == {"resolve", "info", "look", "age", "list", "clear", "update", "stamp", "reread"}
Fetches  == {"fetch", "entry", "delete", "terminal", "quote", "write"}

Telling == {"entry", "delete", "terminal", "quote", "write"}

Ticks == [name : Names, asof : Int, late : Int]
Runs  == [at : {"idle", "answered"} \cup Resolves \cup Fetches,
          todo : SUBSET Names, name : Names, found : BOOLEAN, fresh : SUBSET Symbols,
          ordered : SUBSET Names, ticks : SUBSET Ticks, errors : SUBSET Names, asof : Int,
          raced : BOOLEAN]

Told(r) == {k.name : k \in r.ticks}

(* The three parts of a batch. *)
Parted(r) ==
    /\ Told(r) \cup r.errors \cup r.todo = r.ordered
    /\ Told(r) \cap r.errors = {}
    /\ (Told(r) \cup r.errors) \cap r.todo = {}
    /\ \A k, l \in r.ticks : k.name = l.name => k = l

InOrder(r) ==
    /\ r.at \in Fetches \cup {"answered"} => Parted(r)
    /\ r.at \notin Fetches \cup {"answered"} => r.ticks = {} /\ r.errors = {}
    /\ r.at = "answered" => r.todo = {}
    /\ r.at \in (Resolves \cup Fetches) \ {"resolve", "fetch"} => r.name \in r.todo

Entries == [asof : Int, late : Int, expiry : Int]
EntryOK(e) ==
    e.asof <= now /\ e.expiry <= now + TTL /\ e.expiry <= e.asof + e.late + TTL

World ==
    /\ now \in 0..MaxTime /\ listed \subseteq Symbols /\ attached \in BOOLEAN
    /\ byUpper \subseteq listed /\ builtAt \in {Never} \cup 0..now
    /\ cache \in [Symbols -> Entries] /\ \A s \in Symbols : EntryOK(cache[s])
Requests ==
    /\ thread \in [Threads -> Runs]
    /\ \A t \in Threads : InOrder(thread[t]) /\ thread[t].fresh \subseteq listed


(* A quote on its way to the cache is no younger than the clock.           *)
OnTime == \A t \in Threads : thread[t].asof <= now

IInv == World /\ Requests /\ OnTime

USE DEF terminal, map, Never

LEMMA NoNameIsName == NoName \in Names
  BY MarketAssumption DEF NoName, Names

LEMMA WaitingInOrder ==
    Waiting \in Runs /\ InOrder(Waiting) /\ Waiting.fresh = {} /\ Waiting.asof = 0
  BY NoNameIsName DEF Waiting, Runs, InOrder, Resolves, Fetches

LEMMA InitIInv == Init => IInv
<1> SUFFICES ASSUME Init
             PROVE  IInv
  OBVIOUS
<1>1. World
  <2>1. /\ NoEntry \in Entries /\ NoEntry.asof <= 0 /\ NoEntry.expiry <= TTL
        /\ NoEntry.expiry <= NoEntry.asof + NoEntry.late + TTL
    BY MarketAssumption DEF NoEntry, Entries
  <2>2. now \in 0..MaxTime /\ now = 0
    BY MarketAssumption DEF Init
  <2>3. cache \in [Symbols -> Entries] /\ \A s \in Symbols : EntryOK(cache[s])
    BY <2>1, <2>2, MarketAssumption DEF Init, EntryOK, Entries
  <2>4. QED
    BY <2>2, <2>3 DEF Init, World
<1>2. Requests
  BY WaitingInOrder DEF Init, Requests
<1>3. OnTime
  BY WaitingInOrder DEF Init, OnTime
<1>4. QED
  BY <1>1, <1>2, <1>3 DEF IInv
-----------------------------------------------------------------------------
(* One statement of one thread. *)

(* A thread moved to a request that is in order. *)
Moves(t) ==
    /\ thread' \in [Threads -> Runs] /\ InOrder(thread'[t])
    /\ \A u \in Threads \ {t} : thread'[u] = thread[u]

LEMMA MovesKeep ==
    ASSUME Requests, NEW t \in Threads, Moves(t), listed \subseteq listed',
           thread'[t].fresh \subseteq listed'
    PROVE  Requests'
  BY DEF Requests, Moves, InOrder, Parted, Told

LEMMA MovesTo ==
    ASSUME Requests, NEW t \in Threads, NEW r \in Runs, InOrder(r),
           thread' = [thread EXCEPT ![t] = r]
    PROVE  Moves(t) /\ thread'[t] = r
  BY DEF Requests, Moves

LEMMA SettledInOrder ==
    ASSUME Requests, NEW t \in Threads, thread[t].at \in Resolves, NEW name \in Names
    PROVE  Settled(t, name) \in Runs /\ InOrder(Settled(t, name)) /\ Settled(t, name).fresh = {}
<1> DEFINE r == thread[t]
           rest == r.todo \ {r.name}
           settled == [r.name EXCEPT !.exact = @ \/ r.found \/ name.exact]
           ordered == r.ordered \cup {settled}
           todo == IF rest = {} THEN ordered ELSE rest
           at == IF rest = {} THEN "fetch" ELSE "resolve"
<1>1. r \in Runs
  BY DEF Requests
<1>2. settled \in Names
  BY <1>1 DEF Runs, Names
<1>3. ordered \in SUBSET Names /\ todo \in SUBSET Names /\ at \in {"fetch", "resolve"}
  BY <1>1, <1>2 DEF Runs
<1>4. Settled(t, name) = [Waiting EXCEPT !.at = at, !.todo = todo, !.ordered = ordered]
  BY DEF Settled
<1> DEFINE x == Settled(t, name)
<1>5. /\ x.at = at /\ x.todo = todo /\ x.ordered = ordered
      /\ x.ticks = {} /\ x.errors = {} /\ x.fresh = {}
  BY <1>4 DEF Waiting
<1>6. x \in Runs
  <2> HIDE DEF at, todo, ordered
  <2>1. at \in Resolves \cup Fetches
    BY <1>3 DEF Resolves, Fetches
  <2>2. QED
    BY <1>3, <1>4, <2>1, WaitingInOrder DEF Runs
<1>7. InOrder(x)
  BY <1>3, <1>5 DEF InOrder, Parted, Told, Resolves, Fetches
<1>8. QED
  BY <1>5, <1>6, <1>7

LEMMA TellsTyped ==
    ASSUME NEW r \in Runs, NEW news \in SUBSET Ticks, NEW failed \in SUBSET Names,
           NEW rest \in SUBSET Names, NEW at \in {"answered", "fetch"}
    PROVE  [r EXCEPT !.ticks = news, !.errors = failed, !.todo = rest, !.name = NoName,
                     !.asof = 0, !.at = at] \in Runs
<1>1. [r EXCEPT !.ticks = news, !.errors = failed, !.todo = rest] \in Runs
  BY DEF Runs
<1>2. ASSUME NEW q \in Runs, NEW name \in Names, NEW a \in Int
      PROVE  [q EXCEPT !.name = name, !.asof = a, !.at = at] \in Runs
  BY DEF Runs, Fetches
<1>3. PICK a \in Int : a = 0
  OBVIOUS
<1>4. PICK q \in Runs : q = [r EXCEPT !.ticks = news, !.errors = failed, !.todo = rest]
  BY <1>1
<1>5. [q EXCEPT !.name = NoName, !.asof = a, !.at = at] \in Runs
  BY <1>2, NoNameIsName
<1>6. QED
  BY <1>3, <1>4, <1>5

LEMMA TellsInOrder ==
    ASSUME NEW r \in Runs, InOrder(r), r.at \in Telling,
           NEW ticks \in SUBSET Ticks, NEW errors \in SUBSET Names,
           {k.name : k \in ticks} \cup errors = {r.name},
           {k.name : k \in ticks} \cap errors = {},
           \A k, l \in ticks : k = l
    PROVE  /\ Tells(r, ticks, errors) \in Runs /\ InOrder(Tells(r, ticks, errors))
           /\ Tells(r, ticks, errors).fresh = r.fresh
<1> DEFINE rest == r.todo \ {r.name}
           at == IF rest = {} THEN "answered" ELSE "fetch"
           names == {k.name : k \in ticks}
           x == [r EXCEPT !.ticks = @ \cup ticks, !.errors = @ \cup errors, !.todo = rest,
                          !.name = NoName, !.asof = 0, !.at = at]
<1>1. Tells(r, ticks, errors) = x
  BY DEF Tells
<1>2. /\ x.at = at /\ x.todo = rest /\ x.ordered = r.ordered /\ x.fresh = r.fresh
      /\ x.ticks = r.ticks \cup ticks /\ x.errors = r.errors \cup errors
  BY DEF Runs
<1>3. x \in Runs
  <2>1. at \in {"answered", "fetch"} /\ rest \in SUBSET Names
    BY DEF Runs
  <2> DEFINE news == r.ticks \cup ticks
             failed == r.errors \cup errors
  <2>2. news \in SUBSET Ticks /\ failed \in SUBSET Names
    BY DEF Runs
  <2>3. x = [r EXCEPT !.ticks = news, !.errors = failed, !.todo = rest, !.name = NoName,
                      !.asof = 0, !.at = at]
    OBVIOUS
  <2> HIDE DEF at, rest, news, failed, x
  <2>4. QED
    BY <2>1, <2>2, <2>3, TellsTyped
<1>4. Parted(r) /\ r.name \in r.todo
  BY DEF InOrder, Resolves, Fetches, Telling
<1>5. Told(x) = Told(r) \cup {k.name : k \in ticks}
  BY <1>2 DEF Told
<1>6. \A k, l \in x.ticks : k.name = l.name => k = l
  <2>1. \A k \in r.ticks : k.name # r.name
    BY <1>4 DEF Parted, Told
  <2>2. \A k \in ticks : k.name = r.name
    OBVIOUS
  <2>3. QED
    BY <1>2, <1>4, <2>1, <2>2 DEF Parted
<1>7. Parted(x)
  <2>1. /\ Told(r) \cup r.errors \cup r.todo = r.ordered /\ Told(r) \cap r.errors = {}
        /\ (Told(r) \cup r.errors) \cap r.todo = {}
    BY <1>4 DEF Parted
  <2>2. /\ (Told(r) \cup names) \cup (r.errors \cup errors) \cup rest
             = Told(r) \cup r.errors \cup r.todo
        /\ (Told(r) \cup names) \cap (r.errors \cup errors) = {}
        /\ ((Told(r) \cup names) \cup (r.errors \cup errors)) \cap rest = {}
    <3>1. r.name \in r.todo /\ names \cup errors = {r.name} /\ names \cap errors = {}
      BY <1>4
    <3> HIDE DEF names
    <3>2. QED
      BY <2>1, <3>1
  <2>3. QED
    BY <1>2, <1>5, <1>6, <2>1, <2>2 DEF Parted
<1>8. InOrder(x)
  BY <1>2, <1>7 DEF InOrder, Resolves, Fetches
<1>9. QED
  BY <1>1, <1>2, <1>3, <1>8

LEMMA FailsInOrder ==
    ASSUME NEW r \in Runs, InOrder(r), r.at \in Telling
    PROVE  Fails(r) \in Runs /\ InOrder(Fails(r)) /\ Fails(r).fresh = r.fresh
<1>1. {k.name : k \in {}} = {} /\ {r.name} \in SUBSET Names
  BY DEF Runs
<1>2. QED
  BY <1>1, TellsInOrder DEF Fails

LEMMA QuoteInOrder ==
    ASSUME NEW r \in Runs, InOrder(r), r.at \in Telling, NEW a \in Int, NEW b \in Int
    PROVE  /\ Tells(r, {[name |-> r.name, asof |-> a, late |-> b]}, {}) \in Runs
           /\ InOrder(Tells(r, {[name |-> r.name, asof |-> a, late |-> b]}, {}))
           /\ Tells(r, {[name |-> r.name, asof |-> a, late |-> b]}, {}).fresh = r.fresh
<1> DEFINE ticks == {[name |-> r.name, asof |-> a, late |-> b]}
<1>1. ticks \in SUBSET Ticks /\ {k.name : k \in ticks} = {r.name}
  BY DEF Ticks, Runs
<1>2. QED
  BY <1>1, TellsInOrder
-----------------------------------------------------------------------------
(* resolve_symbols. *)
Fresh(t) == thread'[t].fresh \subseteq listed

LEMMA RequestMoves ==
    ASSUME IInv, NEW t \in Threads, NEW names \in Batches, Request(t, names)
    PROVE  Moves(t) /\ Fresh(t)
<1> DEFINE x == [Waiting EXCEPT !.at = "resolve", !.todo = names]
<1>1. names \in SUBSET Names
  BY MarketAssumption
<1>2. x \in Runs /\ InOrder(x) /\ x.fresh = {}
  <2>1. x \in Runs
    BY <1>1, WaitingInOrder DEF Runs, Resolves
  <2>2. x.at = "resolve" /\ x.ticks = {} /\ x.errors = {} /\ x.fresh = {}
    BY DEF Waiting
  <2>3. QED
    BY <2>1, <2>2 DEF InOrder, Resolves, Fetches
<1>3. QED
  BY <1>2, MovesTo DEF IInv, Request, Fresh

LEMMA StampMoves ==
    ASSUME IInv, NEW t \in Threads, Stamp(t)
    PROVE  Moves(t) /\ Fresh(t)
<1> DEFINE r == thread[t]
           x == [r EXCEPT !.at = "reread"]
<1>1. r \in Runs /\ InOrder(r) /\ r.fresh \subseteq listed /\ r.at = "stamp"
  BY DEF IInv, Requests, Stamp
<1>2. x \in Runs
  BY <1>1 DEF Runs, Resolves
<1>3. InOrder(x) /\ x.fresh = r.fresh
  BY <1>1 DEF Runs, InOrder, Resolves, Fetches
<1>4. thread' = [thread EXCEPT ![t] = x]
  BY DEF Stamp
<1>5. QED
  BY <1>1, <1>2, <1>3, <1>4, MovesTo DEF IInv, Fresh

LEMMA ResolveMoves ==
    ASSUME IInv, NEW t \in Threads,
           AskExact(t) \/ LookUp(t) \/ List(t) \/ Update(t) \/ Stamp(t)
    PROVE  Moves(t) /\ Fresh(t)
<1> USE DEF IInv, Requests, Moves, Fresh, InOrder, Runs, Resolves, Fetches
<1>1. CASE AskExact(t)
  <2>1. PICK name \in thread[t].todo :
             thread' = [thread EXCEPT ![t] = [thread[t] EXCEPT !.name = name, !.at = "info"]]
    BY <1>1 DEF AskExact
  <2> DEFINE r == thread[t]
             x == [r EXCEPT !.name = name, !.at = "info"]
  <2>2. r \in Runs /\ name \in Names /\ r.at = "resolve" /\ r.fresh \subseteq listed
    BY <1>1 DEF AskExact
  <2>3. x \in Runs /\ InOrder(x) /\ x.fresh = r.fresh
    BY <2>2
  <2>4. QED
    BY <2>1, <2>2, <2>3, MovesTo
<1>2. CASE LookUp(t)
  BY <1>2 DEF LookUp
<1>3. CASE List(t)
  BY <1>3 DEF List, World
<1>4. CASE Update(t)
  BY <1>4 DEF Update
<1>5. CASE Stamp(t)
  BY <1>5, StampMoves
<1>6. QED
  BY <1>1, <1>2, <1>3, <1>4, <1>5

LEMMA BooleanIn == \A e, S : (e \in S) \in BOOLEAN
  OBVIOUS

LEMMA SettleMoves ==
    ASSUME IInv, NEW t \in Threads, Exact(t) \/ Age(t) \/ Reread(t)
    PROVE  Moves(t) /\ Fresh(t)
<1> DEFINE r == thread[t]
<1>1. r \in Runs /\ r.name \in Names /\ InOrder(r) /\ r.fresh \subseteq listed
  BY DEF IInv, Requests, Runs
<1>2. r.at \in {"info", "age", "reread"} /\ r.at \in Resolves
  BY DEF Exact, Age, Reread, Resolves
<1>3. ASSUME NEW name \in Names, thread' = [thread EXCEPT ![t] = Settled(t, name)]
      PROVE  Moves(t) /\ Fresh(t)
  BY <1>2, <1>3, SettledInOrder, MovesTo DEF IInv, Fresh
<1>4. ASSUME NEW x, x = [r EXCEPT !.at = "look", !.raced = \E u \in Threads : thread[u].at \in {"update", "stamp"}]
                    \/ x = [r EXCEPT !.at = "list"],
             thread' = [thread EXCEPT ![t] = x]
      PROVE  Moves(t) /\ Fresh(t)
  <2>1. x \in Runs /\ InOrder(x) /\ x.fresh = r.fresh
    BY <1>1, <1>2, <1>4 DEF Runs, InOrder, Resolves, Fetches
  <2>2. QED
    BY <1>1, <1>4, <2>1, MovesTo DEF IInv, Fresh
<1>5. CASE Exact(t)
  BY <1>1, <1>3, <1>4, <1>5 DEF Exact
<1>6. CASE Age(t)
  BY <1>1, <1>3, <1>4, <1>6 DEF Age
<1>7. CASE Reread(t)
  <2>1. \A b \in BOOLEAN : [r.name EXCEPT !.exact = b] \in Names
    BY <1>1 DEF Names
  <2> DEFINE spelled == [r.name EXCEPT !.exact = r.name.symbol \in byUpper]
  <2>2. spelled \in Names
    BY <2>1, BooleanIn, Zenon
  <2>3. thread' = [thread EXCEPT ![t] = Settled(t, spelled)]
    BY <1>7 DEF Reread
  <2> HIDE DEF spelled
  <2>4. QED
    BY <1>3, <2>2, <2>3
<1>8. QED
  BY <1>5, <1>6, <1>7

(* The rebuild that marks what others are reading. *)
LEMMA ClearKeeps ==
    ASSUME IInv, NEW t \in Threads, Clear(t)
    PROVE  Requests'
<1>1. thread' \in [Threads -> Runs]
  <2>1. \A u \in Threads : Resolving(u) \in BOOLEAN
    BY BooleanIn DEF Resolving
  <2>2. \A u \in Threads, b \in BOOLEAN : [thread[u] EXCEPT !.raced = b] \in Runs
    BY DEF IInv, Requests, Runs
  <2>3. [thread[t] EXCEPT !.at = "update"] \in Runs
    BY DEF IInv, Requests, Runs, Resolves
  <2>4. QED
    BY <2>1, <2>2, <2>3 DEF Clear
<1>2. ASSUME NEW u \in Threads
      PROVE  InOrder(thread'[u]) /\ thread'[u].fresh \subseteq listed
  <2>1. thread[u] \in Runs /\ InOrder(thread[u]) /\ thread[u].fresh \subseteq listed
    BY DEF IInv, Requests
  <2>2. CASE u = t
    BY <2>1, <2>2 DEF Clear, InOrder, Runs, Resolves, Fetches
  <2>3. CASE u # t
    <3>1. thread'[u] = [thread[u] EXCEPT !.raced = Resolving(u)]
      BY <2>3 DEF Clear
    <3>2. QED
      BY <2>1, <3>1 DEF InOrder, Parted, Told, Runs
  <2>4. QED
    BY <2>2, <2>3
<1>3. QED
  BY <1>1, <1>2 DEF Requests, Clear
-----------------------------------------------------------------------------
(* The cache and the terminal. *)
Fetching(t) ==
    Cached(t) \/ Entry(t) \/ Delete(t) \/ Initialize(t) \/ Quote(t) \/ Write(t)

LEMMA FetchMoves ==
    ASSUME IInv, NEW t \in Threads, Fetching(t)
    PROVE  Moves(t) /\ Fresh(t)
<1> DEFINE r == thread[t]
<1>1. r \in Runs /\ InOrder(r) /\ r.fresh \subseteq listed
  BY DEF IInv, Requests
<1>2. ASSUME r.at \in Telling, thread' = [thread EXCEPT ![t] = Fails(r)]
      PROVE  Moves(t) /\ Fresh(t)
  BY <1>1, <1>2, FailsInOrder, MovesTo DEF IInv, Fresh
<1>3. ASSUME r.at \in Telling, NEW a \in Int, NEW b \in Int,
             thread' = [thread EXCEPT ![t] = Tells(r, {[name |-> r.name, asof |-> a, late |-> b]}, {})]
      PROVE  Moves(t) /\ Fresh(t)
  <2> DEFINE x == Tells(r, {[name |-> r.name, asof |-> a, late |-> b]}, {})
  <2>1. x \in Runs /\ InOrder(x) /\ x.fresh = r.fresh
    BY <1>1, <1>3, QuoteInOrder
  <2> HIDE DEF x
  <2>2. thread' = [thread EXCEPT ![t] = x]
    BY <1>3 DEF x
  <2>3. QED
    BY <1>1, <2>1, <2>2, MovesTo DEF IInv, Fresh
<1>4. ASSUME r.at \in {"entry", "delete", "terminal"},
             NEW at \in {"delete", "terminal", "quote"},
             thread' = [thread EXCEPT ![t] = [r EXCEPT !.at = at]]
      PROVE  Moves(t) /\ Fresh(t)
  <2>1. [r EXCEPT !.at = at] \in Runs
    BY <1>1, <1>4 DEF Runs, Fetches
  <2>2. InOrder([r EXCEPT !.at = at]) /\ [r EXCEPT !.at = at].fresh = r.fresh
    BY <1>1, <1>4 DEF Runs, InOrder, Parted, Told, Resolves, Fetches
  <2>3. QED
    BY <1>1, <1>4, <2>1, <2>2, MovesTo DEF IInv, Fresh
<1>5. CASE Cached(t)
  <2>1. PICK name \in r.todo, at \in {"entry", "terminal"} :
             thread' = [thread EXCEPT ![t] = [r EXCEPT !.name = name, !.at = at]]
    BY <1>5 DEF Cached
  <2> DEFINE x == [r EXCEPT !.name = name, !.at = at]
  <2>2. name \in Names /\ x \in Runs
    BY <1>1, <2>1 DEF Runs, Fetches
  <2>3. r.at = "fetch" /\ Parted(r)
    BY <1>1, <1>5 DEF Cached, InOrder, Fetches
  <2>4. InOrder(x) /\ x.fresh = r.fresh
    BY <1>1, <2>3 DEF Runs, InOrder, Parted, Told, Resolves, Fetches
  <2>5. QED
    BY <1>1, <2>1, <2>2, <2>4, MovesTo DEF IInv, Fresh
<1>6. CASE Entry(t)
  <2>1. r.name.symbol \in Symbols
    BY <1>1 DEF Runs, Names
  <2>2. cache[r.name.symbol].asof \in Int /\ cache[r.name.symbol].late \in Int
    BY <2>1 DEF IInv, World, Entries
  <2>3. QED
    BY <1>2, <1>3, <1>4, <1>6, <2>2 DEF Entry, Telling
<1>7. CASE Delete(t)
  BY <1>2, <1>4, <1>7 DEF Delete, Telling
<1>8. CASE Initialize(t)
  BY <1>2, <1>4, <1>8 DEF Initialize, Telling
<1>9. CASE Quote(t)
  <2> DEFINE x == [r EXCEPT !.at = "write", !.asof = now]
  <2>1. x \in Runs
    <3>1. now \in Int
      BY DEF IInv, World
    <3>2. QED
      BY <1>1, <3>1 DEF Runs, Fetches
  <2>2. r.at = "quote" /\ InOrder(x) /\ x.fresh = r.fresh
    <3>1. r.at = "quote" /\ r.name \in r.todo /\ Parted(r)
      BY <1>1, <1>9 DEF Quote, InOrder, Resolves, Fetches
    <3>2. /\ x.at = "write" /\ x.name = r.name /\ x.todo = r.todo /\ x.ordered = r.ordered
          /\ x.ticks = r.ticks /\ x.errors = r.errors /\ x.fresh = r.fresh
      BY <1>1 DEF Runs
    <3> HIDE DEF x
    <3>3. Parted(x)
      BY <3>1, <3>2 DEF Parted, Told
    <3>4. QED
      BY <3>1, <3>2, <3>3 DEF InOrder, Fetches
  <2>3. CASE thread' = [thread EXCEPT ![t] = x]
    BY <1>1, <2>1, <2>2, <2>3, MovesTo DEF IInv, Fresh
  <2>4. QED
    BY <1>2, <1>9, <2>2, <2>3 DEF Quote, Telling
<1>10. CASE Write(t)
  <2>1. r.asof \in Int /\ now - r.asof \in Int
    BY <1>1 DEF IInv, World, Runs
  <2>2. QED
    BY <1>3, <1>10, <2>1 DEF Write, Telling
<1>11. QED
  BY <1>5, <1>6, <1>7, <1>8, <1>9, <1>10 DEF Fetching
-----------------------------------------------------------------------------
(* What the threads stand on. *)
LEMMA WorldSame == World /\ UNCHANGED <<terminal, map, cache>> => World'
  BY DEF World, EntryOK

LEMMA WorldStep == IInv /\ [Next]_vars => World' /\ listed \subseteq listed'
<1> SUFFICES ASSUME IInv, [Next]_vars
             PROVE  World' /\ listed \subseteq listed'
  OBVIOUS
<1> USE DEF IInv
<1>1. CASE Clock
  <2>1. now' \in 0..MaxTime /\ now <= now' /\ UNCHANGED <<listed, attached, map, cache>>
    BY <1>1, MarketAssumption DEF Clock, World
  <2>2. \A s \in Symbols : EntryOK(cache[s])'
    BY <1>1, <2>1, MarketAssumption DEF World, EntryOK, Entries
  <2>3. QED
    BY <2>1, <2>2 DEF World
<1>2. CASE Detach \/ \E s \in Symbols : ListSymbol(s)
  BY <1>2 DEF Detach, ListSymbol, World, EntryOK
<1>3. ASSUME NEW t \in Threads, Serve(t)
      PROVE  World' /\ listed \subseteq listed'
  <2>1. CASE AskExact(t) \/ Exact(t) \/ LookUp(t) \/ Age(t) \/ List(t) \/ Reread(t)
             \/ Cached(t) \/ Entry(t) \/ Quote(t)
    BY <2>1, WorldSame DEF AskExact, Exact, LookUp, Age, List, Reread, Cached, Entry, Quote
  <2>2. CASE Clear(t)
    BY <2>2 DEF Clear, World, EntryOK
  <2>3. CASE Update(t)
    BY <2>3 DEF Update, World, EntryOK, Requests
  <2>4. CASE Stamp(t)
    BY <2>4 DEF Stamp, World, EntryOK
  <2>5. CASE Delete(t)
    <3>1. NoEntry \in Entries /\ EntryOK(NoEntry)
      BY MarketAssumption DEF NoEntry, Entries, EntryOK, World
    <3>2. QED
      BY <2>5, <3>1 DEF Delete, World, EntryOK
  <2>6. CASE Initialize(t)
    BY <2>6 DEF Initialize, World, EntryOK
  <2>7. CASE Write(t)
    <3> DEFINE a == thread[t].asof
               late == now - a
               e == [asof |-> a, late |-> late, expiry |-> Expiry]
    <3>1. a \in Int /\ a <= now /\ now \in Int /\ TTL \in Nat
      BY MarketAssumption DEF Requests, OnTime, Runs, World
    <3>2. e \in Entries /\ EntryOK(e)
      BY <3>1 DEF Entries, EntryOK, Expiry
    <3> HIDE DEF e
    <3>3. cache' = [cache EXCEPT ![thread[t].name.symbol] = e] /\ UNCHANGED <<terminal, map>>
      BY <2>7 DEF Write, e
    <3>4. cache' \in [Symbols -> Entries] /\ \A s \in Symbols : EntryOK(cache'[s])
      BY <3>2, <3>3 DEF World
    <3>5. QED
      BY <3>3, <3>4 DEF World, EntryOK
  <2>8. QED
    BY <1>3, <2>1, <2>2, <2>3, <2>4, <2>5, <2>6, <2>7 DEF Serve
<1>4. ASSUME NEW t \in Threads, NEW names \in Batches, Request(t, names)
      PROVE  World' /\ listed \subseteq listed'
  BY <1>4, WorldSame DEF Request
<1>5. CASE UNCHANGED vars
  BY <1>5, WorldSame DEF vars
<1>6. QED
  BY <1>1, <1>2, <1>3, <1>4, <1>5 DEF Next

LEMMA ServeMoves ==
    ASSUME IInv, NEW t \in Threads, Serve(t), ~Clear(t)
    PROVE  Moves(t) /\ Fresh(t)
  BY ResolveMoves, SettleMoves, FetchMoves DEF Serve, Fetching

LEMMA RequestsStep == IInv /\ [Next]_vars => Requests'
<1> SUFFICES ASSUME IInv, [Next]_vars
             PROVE  Requests'
  OBVIOUS
<1>1. listed \subseteq listed'
  BY WorldStep
<1>2. CASE UNCHANGED thread
  BY <1>1, <1>2 DEF IInv, Requests, InOrder, Parted, Told
<1>3. ASSUME NEW t \in Threads, Moves(t), Fresh(t)
      PROVE  Requests'
  BY <1>1, <1>3, MovesKeep DEF IInv, Fresh
<1>4. ASSUME NEW t \in Threads, Serve(t)
      PROVE  Requests'
  BY <1>3, <1>4, ServeMoves, ClearKeeps
<1>5. ASSUME NEW t \in Threads, NEW names \in Batches, Request(t, names)
      PROVE  Requests'
  BY <1>3, <1>5, RequestMoves
<1>6. CASE Clock \/ Detach \/ (\E s \in Symbols : ListSymbol(s)) \/ UNCHANGED vars
  BY <1>2, <1>6 DEF Clock, Detach, ListSymbol, vars
<1>7. QED
  BY <1>4, <1>5, <1>6 DEF Next

(* Only symbol_info_tick brings a quote, and it is the clock's.            *)
LEMMA AsofKept ==
    ASSUME IInv, NEW t \in Threads, NEW u \in Threads, Serve(t)
    PROVE  thread'[u].asof \in {thread[u].asof, 0, now}
<1>1. thread \in [Threads -> Runs]
  BY DEF IInv, Requests
<1>2. ASSUME NEW name
      PROVE  Settled(t, name).asof = 0
  BY DEF Settled, Waiting
<1>3. ASSUME NEW ticks, NEW errors
      PROVE  Tells(thread[t], ticks, errors).asof = 0
  BY <1>1 DEF Tells, Runs
<1>4. Fails(thread[t]).asof = 0
  BY <1>3 DEF Fails
<1>5. CASE Exact(t)
  BY <1>1, <1>2, <1>5 DEF Exact, Runs
<1>6. CASE Age(t)
  BY <1>1, <1>2, <1>6 DEF Age, Runs
<1>7. CASE Reread(t)
  BY <1>1, <1>2, <1>7 DEF Reread, Runs
<1>8. CASE AskExact(t)
  <2>1. PICK name \in thread[t].todo :
             thread' = [thread EXCEPT ![t] = [thread[t] EXCEPT !.name = name, !.at = "info"]]
    BY <1>8 DEF AskExact
  <2>2. QED
    BY <1>1, <2>1 DEF Runs
<1>9. CASE LookUp(t)
  BY <1>1, <1>9 DEF LookUp, Runs
<1>10. CASE List(t)
  BY <1>1, <1>10 DEF List, Runs
<1>11. CASE Clear(t)
  BY <1>1, <1>11 DEF Clear, Runs
<1>12. CASE Update(t) \/ Stamp(t)
  BY <1>1, <1>12 DEF Update, Stamp, Runs
<1>13. CASE Cached(t)
  <2>1. PICK name \in thread[t].todo, at \in {"entry", "terminal"} :
             thread' = [thread EXCEPT ![t] = [thread[t] EXCEPT !.name = name, !.at = at]]
    BY <1>13 DEF Cached
  <2>2. QED
    BY <1>1, <2>1 DEF Runs
<1>14. CASE Entry(t)
  BY <1>1, <1>3, <1>4, <1>14 DEF Entry, Runs
<1>15. CASE Delete(t)
  BY <1>1, <1>4, <1>15 DEF Delete, Runs
<1>16. CASE Initialize(t)
  BY <1>1, <1>4, <1>16 DEF Initialize, Runs
<1>17. CASE Quote(t)
  BY <1>1, <1>4, <1>17 DEF Quote, Runs
<1>18. CASE Write(t)
  BY <1>1, <1>3, <1>18 DEF Write, Runs
<1>19. QED
  BY <1>5, <1>6, <1>7, <1>8, <1>9, <1>10, <1>11, <1>12, <1>13, <1>14, <1>15, <1>16, <1>17,
     <1>18 DEF Serve

LEMMA OnTimeStep == IInv /\ [Next]_vars => OnTime'
<1> SUFFICES ASSUME IInv, [Next]_vars, NEW u \in Threads
             PROVE  thread'[u].asof <= now'
  BY DEF OnTime
<1>1. /\ thread[u].asof \in Int /\ thread[u].asof <= now /\ now \in Int /\ 0 <= now
  BY DEF IInv, Requests, OnTime, Runs, World
<1>2. ASSUME NEW t \in Threads, Serve(t)
      PROVE  thread'[u].asof <= now'
  <2>1. now' = now
    BY <1>2 DEF Serve, AskExact, Exact, LookUp, Age, List, Clear, Update, Stamp, Reread, Cached,
       Entry, Delete, Initialize, Quote, Write
  <2>2. QED
    BY <1>1, <1>2, <2>1, AsofKept
<1>3. ASSUME NEW t \in Threads, NEW names \in Batches, Request(t, names)
      PROVE  thread'[u].asof <= now'
  <2>1. [Waiting EXCEPT !.at = "resolve", !.todo = names].asof = 0
    BY DEF Waiting
  <2>2. thread'[u].asof \in {thread[u].asof, 0} /\ now' = now
    BY <1>3, <2>1 DEF Request, IInv, Requests
  <2>3. QED
    BY <1>1, <2>2
<1>4. CASE Clock \/ Detach \/ (\E s \in Symbols : ListSymbol(s)) \/ UNCHANGED vars
  <2>1. thread' = thread /\ now' >= now /\ now' \in Int
    BY <1>1, <1>4 DEF Clock, Detach, ListSymbol, vars
  <2>2. QED
    BY <1>1, <2>1
<1>5. QED
  BY <1>2, <1>3, <1>4 DEF Next

LEMMA IInvStep == IInv /\ [Next]_vars => IInv'
  BY WorldStep, RequestsStep, OnTimeStep DEF IInv

LEMMA IInvSafe == IInv => Safe
<1> SUFFICES ASSUME IInv
             PROVE  Safe
  OBVIOUS
<1>1. \A s \in Symbols : cache[s].asof <= now /\ cache[s].expiry <= now + TTL
  BY MarketAssumption DEF IInv, World, EntryOK, Entries
<1>2. ASSUME NEW t \in Threads
      PROVE  LET r == thread[t] IN
             /\ r.todo \subseteq Names /\ r.name \in Names
             /\ r.ordered \subseteq Names /\ r.errors \subseteq r.ordered
             /\ r.fresh \subseteq listed /\ r.asof <= now
  BY DEF IInv, Requests, OnTime, Runs, InOrder, Parted
<1>3. ASSUME NEW t \in Threads, thread[t].at = "answered"
      PROVE  LET told == {k.name : k \in thread[t].ticks} IN
             /\ told \cup thread[t].errors = thread[t].ordered
             /\ told \cap thread[t].errors = {}
             /\ \A k, l \in thread[t].ticks : k.name = l.name => k = l
  BY <1>3 DEF IInv, Requests, InOrder, Parted, Told
<1>4. TypeOK
  BY <1>1, <1>2 DEF IInv, World, TypeOK
<1>5. QED
  BY <1>3, <1>4 DEF Safe, EachIsAnswered

(* For any number of threads, symbols and batches: every state has its     *)
(* types, and each name of an answered batch is among its quotes or its    *)
(* errors, once.                                                           *)
THEOREM AlwaysSafe == Spec => []Safe
  BY InitIInv, IInvStep, IInvSafe, PTL DEF Spec
-----------------------------------------------------------------------------
(* The quotes a statement of t adds to a request, its own or another's. *)
Added(u) == thread'[u].ticks \ thread[u].ticks

LEMMA OnlyFetchesAdd ==
    ASSUME IInv, NEW t \in Threads, NEW u \in Threads, Serve(t), ~Entry(t), ~Write(t)
    PROVE  Added(u) = {}
<1> USE DEF Added
<1>1. thread \in [Threads -> Runs]
  BY DEF IInv, Requests
<1>2. ASSUME NEW name
      PROVE  Settled(t, name).ticks = {}
  BY DEF Settled, Waiting
<1>3. CASE Exact(t)
  BY <1>1, <1>2, <1>3 DEF Exact, Runs
<1>4. CASE Age(t)
  BY <1>1, <1>2, <1>4 DEF Age, Runs
<1>5. CASE Reread(t)
  BY <1>1, <1>2, <1>5 DEF Reread, Runs
<1>6. CASE AskExact(t) \/ LookUp(t) \/ List(t)
  <2>1. CASE AskExact(t)
    <3>1. PICK name \in thread[t].todo :
               thread' = [thread EXCEPT ![t] = [thread[t] EXCEPT !.name = name, !.at = "info"]]
      BY <2>1 DEF AskExact
    <3>2. thread'[u].ticks = thread[u].ticks
      BY <1>1, <3>1 DEF Runs
    <3>3. QED
      BY <3>2
  <2>2. CASE LookUp(t)
    BY <1>1, <2>2 DEF LookUp, Runs
  <2>3. CASE List(t)
    BY <1>1, <2>3 DEF List, Runs
  <2>4. QED
    BY <1>6, <2>1, <2>2, <2>3
<1>7. CASE Clear(t)
  BY <1>1, <1>7 DEF Clear, Runs
<1>8. CASE Update(t) \/ Stamp(t)
  BY <1>1, <1>8 DEF Update, Stamp, Runs
<1>9. CASE Cached(t)
  BY <1>1, <1>9 DEF Cached, Runs
<1>10. CASE Delete(t)
  <2>1. Fails(thread[t]).ticks = thread[t].ticks
    BY <1>1 DEF Fails, Tells, Runs
  <2>2. thread'[u].ticks = thread[u].ticks
    BY <1>1, <1>10, <2>1 DEF Delete, Runs
  <2>3. QED
    BY <2>2
<1>11. CASE Initialize(t) \/ Quote(t)
  <2>1. Fails(thread[t]).ticks = thread[t].ticks
    BY <1>1 DEF Fails, Tells, Runs
  <2>2. CASE Initialize(t)
    BY <1>1, <2>1, <2>2 DEF Initialize, Runs
  <2>3. CASE Quote(t)
    BY <1>1, <2>1, <2>3 DEF Quote, Runs
  <2>4. QED
    BY <1>11, <2>2, <2>3
<1>12. QED
  BY <1>3, <1>4, <1>5, <1>6, <1>7, <1>8, <1>9, <1>10, <1>11 DEF Serve

LEMMA FetchAddsRecent ==
    ASSUME IInv, NEW t \in Threads, NEW u \in Threads, Entry(t) \/ Write(t),
           NEW k \in Added(u)
    PROVE  now - k.asof <= TTL + k.late
<1> DEFINE r == thread[t]
<1>1. r \in Runs /\ InOrder(r)
  BY DEF IInv, Requests
<1>2. u = t
  BY DEF IInv, Requests, Entry, Write, Added
<1>3. ASSUME NEW a, NEW b, a \in Int, b \in Int, now - a <= TTL + b,
             thread'[t] = Tells(r, {[name |-> r.name, asof |-> a, late |-> b]}, {})
      PROVE  now - k.asof <= TTL + k.late
  <2>1. thread'[t].ticks = r.ticks \cup {[name |-> r.name, asof |-> a, late |-> b]}
    BY <1>1, <1>3 DEF Tells, Runs
  <2>2. k = [name |-> r.name, asof |-> a, late |-> b]
    BY <1>2, <2>1 DEF Added
  <2>3. QED
    BY <1>3, <2>2
<1>4. ASSUME thread'[t].ticks = r.ticks
      PROVE  FALSE
  BY <1>2, <1>4 DEF Added
<1>5. Fails(r).ticks = r.ticks
  BY <1>1 DEF Fails, Tells, Runs
<1>6. CASE Entry(t)
  <2> DEFINE e == cache[r.name.symbol]
  <2>1. e \in Entries /\ EntryOK(e) /\ now \in Int
    BY <1>1 DEF IInv, World, Runs, Names
  <2>2. CASE thread' = [thread EXCEPT ![t] = Tells(r, {[name |-> r.name, asof |-> e.asof, late |-> e.late]}, {})]
             /\ now < e.expiry
    <3>1. thread'[t] = Tells(r, {[name |-> r.name, asof |-> e.asof, late |-> e.late]}, {})
      BY <2>2 DEF IInv, Requests
    <3>2. e.asof \in Int /\ e.late \in Int /\ now - e.asof <= TTL + e.late
      BY <2>1, <2>2, MarketAssumption DEF Entries, EntryOK
    <3>3. QED
      BY <1>3, <3>1, <3>2
  <2>3. CASE thread' = [thread EXCEPT ![t] = Fails(r)]
    <3>1. thread'[t] = Fails(r)
      BY <2>3 DEF IInv, Requests
    <3>2. QED
      BY <1>4, <1>5, <3>1
  <2>4. CASE thread' = [thread EXCEPT ![t] = [r EXCEPT !.at = "delete"]]
    <3>1. thread'[t] = [r EXCEPT !.at = "delete"]
      BY <2>4 DEF IInv, Requests
    <3>2. QED
      BY <1>1, <1>4, <3>1 DEF Runs
  <2>5. QED
    BY <1>6, <2>2, <2>3, <2>4 DEF Entry
<1>7. CASE Write(t)
  <2> DEFINE late == now - r.asof
  <2>1. thread'[t] = Tells(r, {[name |-> r.name, asof |-> r.asof, late |-> late]}, {})
    BY <1>7 DEF Write, IInv, Requests
  <2>2. r.asof \in Int /\ late \in Int /\ now - r.asof <= TTL + late
    BY <1>1, MarketAssumption DEF IInv, World, Runs
  <2>3. QED
    BY <1>3, <2>1, <2>2
<1>8. QED
  BY <1>6, <1>7

LEMMA AddedIsRecent ==
    ASSUME IInv, [Next]_vars, NEW u \in Threads, NEW k \in Added(u)
    PROVE  now - k.asof <= TTL + k.late
<1>1. CASE \E t \in Threads : Serve(t)
  BY <1>1, OnlyFetchesAdd, FetchAddsRecent
<1>2. ASSUME NEW t \in Threads, NEW names \in Batches, Request(t, names)
      PROVE  FALSE
  BY <1>2 DEF Request, Waiting, IInv, Requests, Added, Runs
<1>3. CASE Clock \/ Detach \/ (\E s \in Symbols : ListSymbol(s)) \/ UNCHANGED vars
  BY <1>3 DEF Clock, Detach, ListSymbol, vars, Added
<1>4. QED
  BY <1>1, <1>2, <1>3 DEF Next

(* For any number of threads and any TTL, whoever fetched it and however   *)
(* entries are set and deleted meanwhile: a quote a request is answered    *)
(* with was the terminal's at most TTL before, and as long as it took from *)
(* there to the cache.                                                     *)
THEOREM QuotesAlwaysRecent == Spec => QuotesAreRecent
<1>1. IInv /\ [Next]_vars =>
        \A t \in Threads : \A k \in thread'[t].ticks \ thread[t].ticks :
          now - k.asof <= TTL + k.late
  BY AddedIsRecent DEF Added
<1>2. QED
  BY InitIInv, IInvStep, <1>1, PTL DEF Spec, QuotesAreRecent, JustTold
-----------------------------------------------------------------------------
(* The map.  What the last rebuild put into it is in it, except while a    *)
(* thread is between its clear and its update; and such a thread has told  *)
(* every other that reads the map.                                         *)
Reading == {"look", "age", "list", "clear", "update", "stamp", "reread"}

Unraced(t) ==
    thread[t].at \in Reading /\ ~thread[t].raced =>
       \A u \in Threads \ {t} : thread[u].at # "update"
NotThere(t) ==
    thread[t].at = "age" /\ ~thread[t].raced /\ ~thread[t].found =>
       thread[t].name.symbol \notin lastBuild.held
WasBuilt(t) == thread[t].at = "reread" => lastBuild.at # -1
Spelled(r) == r.at \in Resolves => \A n \in r.ordered : ~n.exact => n \notin r.todo

Reads(t) == Unraced(t) /\ NotThere(t) /\ WasBuilt(t) /\ Spelled(thread[t])

Map ==
    /\ lastBuild \in [at : Int, held : SUBSET Symbols] /\ builtAt = lastBuild.at
    /\ (\A u \in Threads : thread[u].at # "update") => lastBuild.held \subseteq byUpper

Rebuilds == Map /\ \A t \in Threads : Reads(t)

LEMMA InitRebuilds == Init => Rebuilds
  BY DEF Init, Rebuilds, Map, Reads, Unraced, NotThere, WasBuilt, Spelled, Waiting, Reading,
     Resolves

(* A statement that leaves the map alone, and what it leaves to show. *)
LEMMA QuietKeeps ==
    ASSUME IInv, Rebuilds, NEW t \in Threads, Moves(t), UNCHANGED map,
           thread[t].at # "update", thread'[t].at # "update", Reads(t)'
    PROVE  Rebuilds'
<1>1. \A u \in Threads : thread'[u].at = "update" <=> thread[u].at = "update"
  BY DEF Moves
<1>2. Map'
  BY <1>1 DEF Rebuilds, Map
<1>3. ASSUME NEW u \in Threads, u # t
      PROVE  Reads(u)'
  <2>1. thread'[u] = thread[u] /\ Reads(u) /\ lastBuild' = lastBuild
    BY <1>3 DEF Moves, Rebuilds
  <2>2. QED
    BY <1>1, <2>1 DEF Reads, Unraced, NotThere, WasBuilt, Spelled
<1>4. QED
  BY <1>2, <1>3 DEF Rebuilds

(* A thread that is not reading has nothing to show but its spellings. *)
LEMMA IdleReads ==
    ASSUME NEW t \in Threads, thread'[t].at \notin Reading, Spelled(thread'[t])
    PROVE  Reads(t)'
  BY DEF Reads, Unraced, NotThere, WasBuilt, Reading, Spelled

LEMMA SettledSpelled ==
    ASSUME Requests, NEW t \in Threads, thread[t].at \in Resolves, NEW name \in Names,
           Spelled(thread[t])
    PROVE  /\ Spelled(Settled(t, name)) /\ Settled(t, name).at \in {"resolve", "fetch"}
           /\ \A n \in Settled(t, name).ordered : ~n.exact =>
                 n \in thread[t].ordered \/ (n = thread[t].name /\ ~thread[t].found /\ ~name.exact)
<1> DEFINE r == thread[t]
           rest == r.todo \ {r.name}
           settled == [r.name EXCEPT !.exact = @ \/ r.found \/ name.exact]
           ordered == r.ordered \cup {settled}
           todo == IF rest = {} THEN ordered ELSE rest
           at == IF rest = {} THEN "fetch" ELSE "resolve"
           x == Settled(t, name)
<1>1. r \in Runs /\ r.name \in Names
  BY DEF Requests, Runs
<1>2. x.at = at /\ x.todo = todo /\ x.ordered = ordered
  BY DEF Settled, Waiting
<1>3. ~settled.exact => settled = r.name /\ ~r.found /\ ~name.exact
  BY <1>1 DEF Names, Runs
<1>4. Spelled(x)
  BY <1>2, <1>3 DEF Spelled, Resolves
<1>5. QED
  BY <1>2, <1>3, <1>4
-----------------------------------------------------------------------------
LEMMA RequestReads ==
    ASSUME IInv, Rebuilds, NEW t \in Threads, NEW names \in Batches, Request(t, names)
    PROVE  Rebuilds'
<1>1. Moves(t) /\ thread[t].at # "update" /\ UNCHANGED map
  BY RequestMoves DEF Request
<1>2. thread'[t] = [Waiting EXCEPT !.at = "resolve", !.todo = names]
  BY DEF IInv, Requests, Request
<1>3. thread'[t].at = "resolve" /\ thread'[t].ordered = {}
  BY <1>2 DEF Waiting
<1>4. Reads(t)'
  BY <1>3, IdleReads DEF Reading, Spelled
<1>5. QED
  BY <1>1, <1>3, <1>4, QuietKeeps

LEMMA FetchReads ==
    ASSUME IInv, Rebuilds, NEW t \in Threads, Fetching(t)
    PROVE  Rebuilds'
<1>1. thread[t].at \in Fetches /\ UNCHANGED map
  BY DEF Fetching, Cached, Entry, Delete, Initialize, Quote, Write, Fetches
<1>2. thread'[t].at \in Fetches \cup {"answered"}
  <2>1. thread[t] \in Runs
    BY DEF IInv, Requests
  <2>2. \A ticks, errors : Tells(thread[t], ticks, errors).at \in {"answered", "fetch"}
    BY <2>1 DEF Tells, Runs
  <2>3. Fails(thread[t]).at \in {"answered", "fetch"}
    BY <2>2 DEF Fails
  <2>4. CASE Cached(t)
    <3>1. PICK name \in thread[t].todo, at \in {"entry", "terminal"} :
               thread' = [thread EXCEPT ![t] = [thread[t] EXCEPT !.name = name, !.at = at]]
      BY <2>4 DEF Cached
    <3>2. QED
      BY <2>1, <3>1 DEF Fetches, Runs, IInv, Requests
  <2>5. CASE Entry(t)
    BY <2>1, <2>2, <2>3, <2>5 DEF Entry, Fetches, Runs, IInv, Requests
  <2>6. CASE Delete(t)
    BY <2>1, <2>3, <2>6 DEF Delete, Fetches, Runs, IInv, Requests
  <2>7. CASE Initialize(t)
    BY <2>1, <2>3, <2>7 DEF Initialize, Fetches, Runs, IInv, Requests
  <2>8. CASE Quote(t)
    BY <2>1, <2>3, <2>8 DEF Quote, Fetches, Runs, IInv, Requests
  <2>9. CASE Write(t)
    BY <2>2, <2>9 DEF Write, Fetches, IInv, Requests
  <2>10. QED
    BY <2>4, <2>5, <2>6, <2>7, <2>8, <2>9 DEF Fetching
<1>3. Moves(t)
  BY FetchMoves
<1>4. Reads(t)'
  BY <1>2, IdleReads DEF Fetches, Resolves, Reading, Spelled
<1>5. QED
  BY <1>1, <1>2, <1>3, <1>4, QuietKeeps DEF Fetches

LEMMA SettleReads ==
    ASSUME IInv, Rebuilds, NEW t \in Threads, NEW name \in Names,
           thread[t].at \in {"info", "age", "reread"}, UNCHANGED map,
           thread' = [thread EXCEPT ![t] = Settled(t, name)]
    PROVE  Rebuilds'
<1> DEFINE x == Settled(t, name)
<1>1. Spelled(thread[t]) /\ thread[t].at \in Resolves
  BY DEF Rebuilds, Reads, Resolves
<1>2. Spelled(x) /\ x.at \in {"resolve", "fetch"}
  BY <1>1, SettledSpelled DEF IInv
<1>3. x \in Runs /\ InOrder(x)
  BY <1>1, SettledInOrder DEF IInv
<1> HIDE DEF x
<1>4. thread' = [thread EXCEPT ![t] = x]
  BY DEF x
<1>5. Moves(t) /\ thread'[t] = x
  BY <1>3, <1>4, MovesTo DEF IInv
<1>6. Reads(t)'
  BY <1>2, <1>5, IdleReads DEF Reading
<1>7. QED
  BY <1>2, <1>5, <1>6, QuietKeeps

(* The statements that read the map. *)
LEMMA ReadReads ==
    ASSUME IInv, Rebuilds, NEW t \in Threads,
           AskExact(t) \/ Exact(t) \/ LookUp(t) \/ Age(t) \/ List(t) \/ Reread(t)
    PROVE  Rebuilds'
<1> DEFINE r == thread[t]
<1>1. /\ r \in Runs /\ r.name \in Names /\ Reads(t) /\ Moves(t)
      /\ thread \in [Threads -> Runs] /\ UNCHANGED map
  BY ResolveMoves, SettleMoves DEF IInv, Requests, Rebuilds, Runs, AskExact, Exact, LookUp, Age,
     List, Reread
<1>2. CASE AskExact(t)
  <2>1. PICK name \in r.todo : thread' = [thread EXCEPT ![t] = [r EXCEPT !.name = name, !.at = "info"]]
    BY <1>2 DEF AskExact
  <2>2. /\ thread'[t].at = "info" /\ thread'[t].ordered = r.ordered
        /\ thread'[t].todo = r.todo /\ r.at = "resolve"
    BY <1>1, <1>2, <2>1 DEF AskExact, Runs
  <2>3. Reads(t)'
    BY <1>1, <2>2, IdleReads DEF Reads, Reading, Spelled, Resolves
  <2>4. QED
    BY <1>1, <2>2, <2>3, QuietKeeps
<1>3. CASE Exact(t)
  <2>1. CASE thread' = [thread EXCEPT ![t] = Settled(t, r.name)]
    BY <1>1, <1>3, <2>1, SettleReads DEF Exact
  <2> DEFINE raced == \E u \in Threads : thread[u].at \in {"update", "stamp"}
             x == [r EXCEPT !.at = "look", !.raced = raced]
  <2>2. CASE thread' = [thread EXCEPT ![t] = x]
    <3>1. /\ thread'[t].at = "look" /\ thread'[t].ordered = r.ordered
          /\ thread'[t].todo = r.todo /\ r.at = "info"
          /\ ~thread'[t].raced => ~raced
      <4>1. thread'[t] = x
        BY <1>1, <2>2
      <4> HIDE DEF raced
      <4>2. QED
        BY <1>1, <1>3, <4>1 DEF Exact, Runs
    <3>2. Reads(t)'
      BY <1>1, <3>1 DEF Reads, Unraced, NotThere, WasBuilt, Spelled, Resolves, Moves
    <3>3. QED
      BY <1>1, <3>1, <3>2, QuietKeeps
  <2>3. QED
    BY <1>3, <2>1, <2>2 DEF Exact
<1>4. CASE LookUp(t)
  <2>1. /\ thread'[t].at = "age" /\ thread'[t].ordered = r.ordered /\ thread'[t].todo = r.todo
        /\ thread'[t].raced = r.raced /\ thread'[t].name = r.name /\ r.at = "look"
        /\ ~thread'[t].found => r.name.symbol \notin byUpper
    BY <1>1, <1>4 DEF LookUp, Runs
  <2>2. ~r.raced => \A u \in Threads : thread[u].at # "update"
    BY <1>1, <2>1 DEF Reads, Unraced, Reading
  <2>3. Reads(t)'
    BY <1>1, <2>1, <2>2 DEF Rebuilds, Map, Reads, Unraced, NotThere, WasBuilt, Spelled, Reading,
       Resolves, Moves
  <2>4. QED
    BY <1>1, <2>1, <2>3, QuietKeeps
<1>5. CASE Age(t) \/ List(t)
  <2>1. CASE thread' = [thread EXCEPT ![t] = Settled(t, r.name)] /\ r.at = "age"
    BY <1>1, <2>1, SettleReads
  <2>2. CASE /\ r.at \in {"age", "list"} /\ thread'[t].at \in {"list", "clear"}
             /\ thread'[t].raced = r.raced
             /\ thread'[t].ordered = r.ordered /\ thread'[t].todo = r.todo
    <3>1. Reads(t)'
      BY <1>1, <2>2 DEF Reads, Unraced, NotThere, WasBuilt, Spelled, Reading, Resolves, Moves
    <3>2. QED
      BY <1>1, <2>2, <3>1, QuietKeeps
  <2>3. CASE Age(t)
    BY <1>1, <2>1, <2>2, <2>3 DEF Age, Runs
  <2>4. CASE List(t)
    BY <1>1, <2>2, <2>4 DEF List, Runs
  <2>5. QED
    BY <1>5, <2>3, <2>4
<1>6. CASE Reread(t)
  <2> DEFINE spelled == [r.name EXCEPT !.exact = r.name.symbol \in byUpper]
  <2>1. \A b \in BOOLEAN : [r.name EXCEPT !.exact = b] \in Names
    BY <1>1 DEF Names
  <2>2. spelled \in Names
    BY <2>1, BooleanIn, Zenon
  <2>3. thread' = [thread EXCEPT ![t] = Settled(t, spelled)]
    BY <1>6 DEF Reread
  <2> HIDE DEF spelled
  <2>4. QED
    BY <1>1, <1>6, <2>2, <2>3, SettleReads DEF Reread
<1>7. QED
  BY <1>2, <1>3, <1>4, <1>5, <1>6

(* The statements of a rebuild. *)
LEMMA ClearReads ==
    ASSUME IInv, Rebuilds, NEW t \in Threads, Clear(t)
    PROVE  Rebuilds'
<1> DEFINE r == thread[t]
<1>1. /\ thread \in [Threads -> Runs] /\ r.at = "clear"
      /\ thread'[t].at = "update" /\ UNCHANGED <<builtAt, lastBuild>>
      /\ \A u \in Threads \ {t} : thread'[u] = [thread[u] EXCEPT !.raced = Resolving(u)]
  BY DEF IInv, Requests, Clear, Runs
<1>2. Map'
  BY <1>1 DEF Rebuilds, Map
<1>3. ASSUME NEW u \in Threads, u # t
      PROVE  Reads(u)'
  <2> DEFINE b == Resolving(u)
  <2>1. /\ b = (thread[u].at \in Reading)
        /\ thread'[u] = [thread[u] EXCEPT !.raced = b] /\ thread[u] \in Runs
    BY <1>1, <1>3 DEF Resolving, Reading
  <2> HIDE DEF b
  <2>2. /\ thread'[u].at = thread[u].at /\ thread'[u].raced = b
        /\ thread'[u].ordered = thread[u].ordered /\ thread'[u].todo = thread[u].todo
    BY <2>1 DEF Runs
  <2>3. thread'[u].at \in Reading => thread'[u].raced
    BY <2>1, <2>2
  <2>4. WasBuilt(u) /\ Spelled(thread[u])
    BY DEF Rebuilds, Reads
  <2>5. QED
    BY <1>1, <2>2, <2>3, <2>4 DEF Reads, Unraced, NotThere, WasBuilt, Spelled, Reading
<1>4. Reads(t)'
  <2>1. /\ thread'[t].raced = r.raced
        /\ thread'[t].ordered = r.ordered /\ thread'[t].todo = r.todo
    BY <1>1 DEF Clear, Runs
  <2>2. \A u \in Threads \ {t} : thread'[u].at = thread[u].at
    BY <1>1 DEF Runs
  <2>3. Reads(t)
    BY DEF Rebuilds
  <2>4. QED
    BY <1>1, <2>1, <2>2, <2>3 DEF Reads, Unraced, NotThere, WasBuilt, Spelled, Reading, Resolves
<1>5. QED
  BY <1>2, <1>3, <1>4 DEF Rebuilds

LEMMA UpdateReads ==
    ASSUME IInv, Rebuilds, NEW t \in Threads, Update(t)
    PROVE  Rebuilds'
<1> DEFINE r == thread[t]
<1>1. /\ thread \in [Threads -> Runs] /\ r.at = "update" /\ UNCHANGED builtAt
      /\ thread'[t].at = "stamp" /\ thread'[t].raced = r.raced
      /\ thread'[t].ordered = r.ordered /\ thread'[t].todo = r.todo
      /\ \A u \in Threads \ {t} : thread'[u] = thread[u]
      /\ byUpper' = byUpper \cup r.fresh
  BY DEF IInv, Requests, Update, Runs
<1>2. lastBuild' = [lastBuild EXCEPT !.held = r.fresh] /\ r.fresh \in SUBSET Symbols
  BY <1>1 DEF Update, Runs
<1>3. /\ lastBuild' \in [at : Int, held : SUBSET Symbols] /\ lastBuild'.at = lastBuild.at
      /\ lastBuild'.held = r.fresh
  BY <1>2 DEF Rebuilds, Map
<1>4. Map'
  BY <1>1, <1>3 DEF Rebuilds, Map
<1>5. ASSUME NEW u \in Threads, u # t
      PROVE  Reads(u)'
  <2>1. thread'[u] = thread[u] /\ Reads(u)
    BY <1>1, <1>5 DEF Rebuilds
  <2>2. thread[u].at \in Reading => thread[u].raced
    BY <1>1, <1>5, <2>1 DEF Reads, Unraced
  <2>3. QED
    BY <1>3, <2>1, <2>2 DEF Reads, Unraced, NotThere, WasBuilt, Spelled, Reading
<1>6. Reads(t)'
  <2>1. Reads(t)
    BY DEF Rebuilds
  <2>2. QED
    BY <1>1, <2>1 DEF Reads, Unraced, NotThere, WasBuilt, Spelled, Reading, Resolves
<1>7. QED
  BY <1>4, <1>5, <1>6 DEF Rebuilds

LEMMA StampReads ==
    ASSUME IInv, Rebuilds, NEW t \in Threads, Stamp(t)
    PROVE  Rebuilds'
<1> DEFINE r == thread[t]
<1>1. /\ thread \in [Threads -> Runs] /\ r.at = "stamp" /\ builtAt' = now /\ UNCHANGED byUpper
      /\ thread'[t].at = "reread" /\ thread'[t].raced = r.raced
      /\ thread'[t].ordered = r.ordered /\ thread'[t].todo = r.todo
      /\ \A u \in Threads \ {t} : thread'[u] = thread[u]
  BY DEF IInv, Requests, Stamp, Runs
<1>2. now \in Int /\ now # -1
  BY DEF IInv, World
<1>3. /\ lastBuild' \in [at : Int, held : SUBSET Symbols] /\ lastBuild'.at = now
      /\ lastBuild'.held = lastBuild.held
  BY <1>2 DEF Rebuilds, Map, Stamp
<1>4. Map'
  <2>1. \A u \in Threads : thread'[u].at = "update" <=> thread[u].at = "update"
    BY <1>1
  <2>2. QED
    BY <1>1, <1>3, <2>1 DEF Rebuilds, Map
<1>5. ASSUME NEW u \in Threads
      PROVE  Reads(u)'
  <2>1. Reads(u)
    BY DEF Rebuilds
  <2>2. QED
    BY <1>1, <1>2, <1>3, <2>1 DEF Reads, Unraced, NotThere, WasBuilt, Spelled, Reading, Resolves
<1>6. QED
  BY <1>4, <1>5 DEF Rebuilds

LEMMA RebuildsStep == IInv /\ Rebuilds /\ [Next]_vars => Rebuilds'
<1> SUFFICES ASSUME IInv, Rebuilds, [Next]_vars
             PROVE  Rebuilds'
  OBVIOUS
<1>1. ASSUME NEW t \in Threads, Serve(t)
      PROVE  Rebuilds'
  BY <1>1, ReadReads, ClearReads, UpdateReads, StampReads, FetchReads DEF Serve, Fetching
<1>2. ASSUME NEW t \in Threads, NEW names \in Batches, Request(t, names)
      PROVE  Rebuilds'
  BY <1>2, RequestReads
<1>3. CASE UNCHANGED <<thread, map>>
  BY <1>3 DEF Rebuilds, Map, Reads, Unraced, NotThere, WasBuilt, Spelled
<1>4. CASE Clock \/ Detach \/ (\E s \in Symbols : ListSymbol(s)) \/ UNCHANGED vars
  BY <1>3, <1>4 DEF Clock, Detach, ListSymbol, vars
<1>5. QED
  BY <1>1, <1>2, <1>4 DEF Next

(* A name settled in a spelling the map does not have was looked up in the *)
(* map as the last rebuild left it.                                        *)
LEMMA MissedOnlyIfNotThere ==
    ASSUME IInv, Rebuilds, [Next]_vars, NEW t \in Threads, Misses(t)
    PROVE  /\ lastBuild.at # -1
           /\ thread[t].at = "reread" \/ now - lastBuild.at <= REBUILD_AFTER_S
           /\ thread[t].name.symbol \notin lastBuild.held
<1> DEFINE r == thread[t]
<1>1. /\ thread \in [Threads -> Runs] /\ r.name \in Names /\ Reads(t)
      /\ r.at \in Resolves /\ r.name \in r.todo /\ r.name \notin r.ordered
  <2>1. r \in Runs /\ InOrder(r) /\ Reads(t) /\ r.at \in {"age", "reread"} /\ ~r.name.exact
    BY DEF IInv, Requests, Rebuilds, Misses
  <2>2. r.at \in Resolves /\ r.name \in r.todo
    BY <2>1 DEF InOrder, Resolves, Fetches
  <2>3. QED
    BY <2>1, <2>2 DEF IInv, Requests, Runs, Reads, Spelled
<1>2. ASSUME NEW u \in Threads, u # t, Serve(u)
      PROVE  FALSE
  <2>1. thread'[t].at = thread[t].at
    BY <1>2, ServeMoves DEF Moves, Clear, IInv, Requests, Runs
  <2>2. QED
    BY <2>1 DEF Misses
<1>3. ASSUME NEW u \in Threads, NEW names \in Batches, Request(u, names)
      PROVE  FALSE
  <2>1. u # t => thread'[t] = thread[t]
    BY <1>3, RequestMoves DEF Moves
  <2>2. QED
    BY <1>3, <2>1 DEF Misses, Request
<1>4. Serve(t)
  BY <1>2, <1>3 DEF Next, Clock, Detach, ListSymbol, vars, Misses
<1>5. Age(t) \/ Reread(t)
  BY <1>4 DEF Serve, AskExact, Exact, LookUp, List, Clear, Update, Stamp, Cached, Entry, Delete,
     Initialize, Quote, Write, Misses
<1>6. CASE Age(t)
  <2>1. thread' = [thread EXCEPT ![t] = Settled(t, r.name)] /\ (r.found \/ ~Stale)
    <3>1. thread' = [thread EXCEPT ![t] = [r EXCEPT !.at = "list"]] => thread'[t].at = "list"
      BY <1>1 DEF Runs
    <3>2. QED
      BY <1>6, <3>1 DEF Age, Misses
  <2>2. thread'[t] = Settled(t, r.name)
    BY <1>1, <2>1
  <2>3. ~r.found
    BY <1>1, <2>2, SettledSpelled DEF IInv, Misses, Reads
  <2>4. builtAt # -1 /\ now - builtAt <= REBUILD_AFTER_S
    BY <2>1, <2>3, MarketAssumption DEF Stale, IInv, World
  <2>5. r.name.symbol \notin lastBuild.held
    BY <1>1, <1>6, <2>3 DEF Misses, Reads, NotThere, Age
  <2>6. QED
    BY <2>4, <2>5 DEF Rebuilds, Map
<1>7. CASE Reread(t)
  <2> DEFINE spelled == [r.name EXCEPT !.exact = r.name.symbol \in byUpper]
  <2>1. thread'[t] = Settled(t, spelled)
    BY <1>1, <1>7 DEF Reread
  <2>2. \A b \in BOOLEAN : [r.name EXCEPT !.exact = b] \in Names
    BY <1>1 DEF Names
  <2>3. spelled \in Names
    BY <2>2, BooleanIn, Zenon
  <2>4. spelled.exact = (r.name.symbol \in byUpper)
    BY <1>1 DEF Names
  <2> HIDE DEF spelled
  <2>5. r.name.symbol \notin byUpper
    BY <1>1, <2>1, <2>3, <2>4, SettledSpelled DEF IInv, Misses, Reads
  <2>6. \A u \in Threads : thread[u].at # "update"
    BY <1>1, <1>7 DEF Reread, Misses, Reads, Unraced, Reading
  <2>7. QED
    BY <1>1, <1>7, <2>5, <2>6 DEF Rebuilds, Map, Reads, WasBuilt, Reread
<1>8. QED
  BY <1>5, <1>6, <1>7

(* A listed symbol is missed by a request that no other thread rebuilt     *)
(* under only if the map was rebuilt within the minute, from a listing     *)
(* that did not have it, however threads rebuilt before.                   *)
THEOREM AlwaysFound == Spec => FoundWithinTheMinute
<1>1. IInv /\ Rebuilds /\ [Next]_vars =>
        \A t \in Threads : Misses(t) =>
          /\ lastBuild.at # -1
          /\ thread[t].at = "reread" \/ now - lastBuild.at <= REBUILD_AFTER_S
          /\ thread[t].name.symbol \notin lastBuild.held
  BY MissedOnlyIfNotThere
<1>2. QED
  BY InitIInv, InitRebuilds, IInvStep, RebuildsStep, <1>1, PTL DEF Spec, FoundWithinTheMinute
=============================================================================
