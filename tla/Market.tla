------------------------------- MODULE Market -------------------------------
(***************************************************************************)
(* The symbol map and the cache of quotes that requests for quotes share   *)
(* (services/market_data.py, utils/cache.py), as threads of the API's pool *)
(* serve batches of names (routers/symbols.py) over them.  A name is a     *)
(* symbol in the terminal's spelling (exact) or in another one.  Nothing   *)
(* locks: a thread may be overtaken between any two statements.            *)
(***************************************************************************)
EXTENDS Integers, FiniteSets

CONSTANTS Threads, Symbols,
          Batches,             \* sets of names a request may be for
          REBUILD_AFTER_S, TTL,
          MaxTime              \* bound: the clock

Names == [symbol : Symbols, exact : BOOLEAN]

ASSUME MarketAssumption ==
    /\ Symbols # {} /\ Batches \subseteq (SUBSET Names) \ {{}}
    /\ REBUILD_AFTER_S \in Nat /\ TTL \in Nat \ {0} /\ MaxTime \in Nat

VARIABLES
    now,        \* seconds since boot, as time.monotonic and time.time count
    listed,     \* symbols the terminal has
    attached,   \* the API is attached to the terminal
    byUpper,    \* _BY_UPPER: the symbols whose spelling is known
    builtAt,    \* _BUILT_AT
    cache,      \* [Symbols -> the entry of symbol_tick_<symbol>]
    thread,     \* [Threads -> one request]
    lastBuild   \* history: from what the map was last filled, and when stamped

vars == <<now, listed, attached, byUpper, builtAt, cache, thread, lastBuild>>
terminal == <<now, listed, attached>>
map == <<byUpper, builtAt, lastBuild>>

NoEntry == [asof |-> -1, late |-> 0, expiry |-> -1]
NoName == [symbol |-> CHOOSE s \in Symbols : TRUE, exact |-> TRUE]
Waiting == [at |-> "idle", todo |-> {}, name |-> NoName, found |-> FALSE,
            fresh |-> {}, ordered |-> {}, ticks |-> {}, errors |-> {}, asof |-> 0,
            raced |-> FALSE]

Never == -1

Init ==
    /\ now = 0 /\ listed \in SUBSET Symbols /\ attached = FALSE
    /\ byUpper = {} /\ builtAt = Never
    /\ cache = [s \in Symbols |-> NoEntry]
    /\ thread = [t \in Threads |-> Waiting]
    /\ lastBuild = [at |-> -1, held |-> {}]
-----------------------------------------------------------------------------
(* The terminal and the clock.                                             *)

Clock ==
    /\ now < MaxTime /\ now' = now + 1
    /\ UNCHANGED <<listed, attached, map, cache, thread>>

ListSymbol(s) ==
    /\ s \notin listed /\ listed' = listed \cup {s}
    /\ UNCHANGED <<now, attached, map, cache, thread>>

(* The link to the terminal is lost, until initialize finds it again.      *)
Detach ==
    /\ attached /\ attached' = FALSE
    /\ UNCHANGED <<now, listed, map, cache, thread>>

Known(name) == attached /\ name.exact /\ name.symbol \in listed
-----------------------------------------------------------------------------
(* resolve_symbols, a name at a time, a statement at a time.               *)

Request(t, names) ==
    /\ thread[t].at \in {"idle", "answered"}
    /\ thread' = [thread EXCEPT ![t] =
          [Waiting EXCEPT !.at = "resolve", !.todo = names]]
    /\ UNCHANGED <<terminal, map, cache>>

(* One name is settled; after the last the quotes are fetched.             *)
Settled(t, name) ==
    LET r == thread[t]
        rest == r.todo \ {r.name}
        ordered == r.ordered \cup {[r.name EXCEPT !.exact = @ \/ r.found \/ name.exact]}
    IN  [Waiting EXCEPT !.at = IF rest = {} THEN "fetch" ELSE "resolve",
                        !.todo = IF rest = {} THEN ordered ELSE rest, !.ordered = ordered]

(* The exact name is tried first.                                          *)
AskExact(t) ==
    /\ thread[t].at = "resolve"
    /\ \E name \in thread[t].todo :
         thread' = [thread EXCEPT ![t].name = name, ![t].at = "info"]
    /\ UNCHANGED <<terminal, map, cache>>

Exact(t) ==
    /\ thread[t].at = "info"
    /\ thread' = [thread EXCEPT ![t] =
          IF Known(@.name) THEN Settled(t, @.name)
          ELSE [@ EXCEPT !.at = "look",
                         !.raced = \E u \in Threads : thread[u].at \in {"update", "stamp"}]]
    /\ UNCHANGED <<terminal, map, cache>>

LookUp(t) ==
    /\ thread[t].at = "look"
    /\ thread' = [thread EXCEPT ![t].found = thread[t].name.symbol \in byUpper, ![t].at = "age"]
    /\ UNCHANGED <<terminal, map, cache>>

(* Fault: never built is spelled 0.0, the time of boot. *)
StaleSinceBoot == now - (IF builtAt = Never THEN 0 ELSE builtAt) > REBUILD_AFTER_S
Stale == builtAt = Never \/ now - builtAt > REBUILD_AFTER_S

Age(t) ==
    /\ thread[t].at = "age"
    /\ thread' = [thread EXCEPT ![t] =
          IF ~@.found /\ Stale THEN [@ EXCEPT !.at = "list"] ELSE Settled(t, @.name)]
    /\ UNCHANGED <<terminal, map, cache>>

(* symbols_get answers None when it fails, which is read as no symbol.     *)
List(t) ==
    /\ thread[t].at = "list"
    /\ \E fresh \in {{}, IF attached THEN listed ELSE {}} :
         thread' = [thread EXCEPT ![t].fresh = fresh, ![t].at = "clear"]
    /\ UNCHANGED <<terminal, map, cache>>

(* Two threads may be at it together: what the other reads is marked.      *)
Resolving(u) == thread[u].at \in {"look", "age", "list", "clear", "update", "stamp", "reread"}
Clear(t) ==
    /\ thread[t].at = "clear"
    /\ byUpper' = {}
    /\ thread' = [u \in Threads |->
          IF u = t THEN [thread[t] EXCEPT !.at = "update"]
          ELSE [thread[u] EXCEPT !.raced = Resolving(u)]]
    /\ UNCHANGED <<terminal, builtAt, lastBuild, cache>>

Update(t) ==
    /\ thread[t].at = "update"
    /\ byUpper' = byUpper \cup thread[t].fresh
    /\ lastBuild' = [lastBuild EXCEPT !.held = thread[t].fresh]
    /\ thread' = [thread EXCEPT ![t].at = "stamp"]
    /\ UNCHANGED <<terminal, builtAt, cache>>

Stamp(t) ==
    /\ thread[t].at = "stamp"
    /\ builtAt' = now
    /\ lastBuild' = [lastBuild EXCEPT !.at = now]
    /\ thread' = [thread EXCEPT ![t].at = "reread"]
    /\ UNCHANGED <<terminal, byUpper, cache>>

Reread(t) ==
    /\ thread[t].at = "reread"
    /\ thread' = [thread EXCEPT ![t] =
          Settled(t, [@.name EXCEPT !.exact = thread[t].name.symbol \in byUpper])]
    /\ UNCHANGED <<terminal, map, cache>>
-----------------------------------------------------------------------------
(* get_symbol_info_tick over CacheManager.get and set, for each name.      *)

Tells(r, ticks, errors) ==
    LET rest == r.todo \ {r.name} IN
    [r EXCEPT !.ticks = @ \cup ticks, !.errors = @ \cup errors, !.todo = rest, !.name = NoName,
              !.asof = 0,
              !.at = IF rest = {} THEN "answered" ELSE "fetch"]

(* Fault: only an unknown symbol is an error of its own; the rest is a 500.*)
FailsBatch(r) == [r EXCEPT !.at = "answered", !.todo = {}]

(* Whatever is raised is told of its name alone.                           *)
Fails(r) == Tells(r, {}, {r.name})

Cached(t) ==
    /\ thread[t].at = "fetch"
    /\ \E name \in thread[t].todo :
         thread' = [thread EXCEPT ![t].name = name, ![t].at =
            IF name.exact /\ cache[name.symbol] # NoEntry THEN "entry" ELSE "terminal"]
    /\ UNCHANGED <<terminal, map, cache>>

(* Between the key's test and its use another thread may have deleted it.  *)
Entry(t) ==
    LET r == thread[t]
        e == cache[r.name.symbol]
    IN  /\ r.at = "entry"
        /\ thread' = [thread EXCEPT ![t] =
              IF e = NoEntry THEN Fails(r)
              ELSE IF now < e.expiry
              THEN Tells(r, {[name |-> r.name, asof |-> e.asof, late |-> e.late]}, {})
              ELSE [r EXCEPT !.at = "delete"]]
        /\ UNCHANGED <<terminal, map, cache>>

Delete(t) ==
    LET r == thread[t] IN
    /\ r.at = "delete"
    /\ cache' = [cache EXCEPT ![r.name.symbol] = NoEntry]
    /\ thread' = [thread EXCEPT ![t] =
          IF cache[r.name.symbol] = NoEntry THEN Fails(r) ELSE [r EXCEPT !.at = "terminal"]]
    /\ UNCHANGED <<terminal, map>>

(* initialize, which may raise.                                            *)
Initialize(t) ==
    LET r == thread[t] IN
    /\ r.at = "terminal"
    /\ \/ attached' = TRUE /\ thread' = [thread EXCEPT ![t].at = "quote"]
       \/ ~attached /\ thread' = [thread EXCEPT ![t] = Fails(r)] /\ UNCHANGED attached
    /\ UNCHANGED <<now, listed, map, cache>>

(* symbol_info_tick: nothing for a symbol or a terminal that is not there. *)
Quote(t) ==
    LET r == thread[t] IN
    /\ r.at = "quote"
    /\ thread' = [thread EXCEPT ![t] =
          IF Known(r.name) THEN [r EXCEPT !.at = "write", !.asof = now] ELSE Fails(r)]
    /\ UNCHANGED <<terminal, map, cache>>

(* Fault: an entry never expires. *)
ExpiryNever == MaxTime + 1
Expiry == now + TTL

(* CacheManager.set, whatever another thread set meanwhile.  late is how   *)
(* long the quote was on its way here.                                     *)
Write(t) ==
    LET r == thread[t]
        late == now - r.asof
    IN  /\ r.at = "write"
        /\ cache' = [cache EXCEPT ![r.name.symbol] =
              [asof |-> r.asof, late |-> late, expiry |-> Expiry]]
        /\ thread' = [thread EXCEPT ![t] =
              Tells(r, {[name |-> r.name, asof |-> r.asof, late |-> late]}, {})]
        /\ UNCHANGED <<terminal, map>>
-----------------------------------------------------------------------------
Serve(t) ==
    \/ AskExact(t) \/ Exact(t) \/ LookUp(t) \/ Age(t) \/ List(t) \/ Clear(t) \/ Update(t)
    \/ Stamp(t) \/ Reread(t) \/ Cached(t) \/ Entry(t) \/ Delete(t) 
    \/ Initialize(t) \/ Quote(t) \/ Write(t)

Next ==
    \/ Clock \/ Detach
    \/ \E s \in Symbols : ListSymbol(s)
    \/ \E t \in Threads : Serve(t) \/ \E names \in Batches : Request(t, names)

Spec == Init /\ [][Next]_vars
-----------------------------------------------------------------------------
(* Properties.                                                             *)

TypeOK ==
    /\ now \in 0..MaxTime /\ listed \subseteq Symbols /\ attached \in BOOLEAN
    /\ byUpper \subseteq listed /\ builtAt \in {Never} \cup 0..now
    /\ \A s \in Symbols : cache[s].asof <= now /\ cache[s].expiry <= now + TTL
    /\ \A t \in Threads :
         LET r == thread[t] IN
         /\ r.todo \subseteq Names /\ r.name \in Names
         /\ r.ordered \subseteq Names /\ r.errors \subseteq r.ordered
         /\ r.fresh \subseteq listed /\ r.asof <= now

(* "Each symbol succeeds or fails on its own and both are reported": what  *)
(* the shared cache and the terminal do under a batch, every name of it    *)
(* ends among the ticks or the errors, and not in both.                    *)
EachIsAnswered ==
    \A t \in Threads : thread[t].at = "answered" =>
       LET told == {k.name : k \in thread[t].ticks} IN
       /\ told \cup thread[t].errors = thread[t].ordered
       /\ told \cap thread[t].errors = {}
       /\ \A k, l \in thread[t].ticks : k.name = l.name => k = l

Safe == TypeOK /\ EachIsAnswered

(* A request that resolved without another's rebuild under it misses a     *)
(* listed symbol only when the map was rebuilt, by itself or within the    *)
(* minute, from a listing that did not have it: "a symbol listed since the *)
(* last build is still found within the minute" (market_data.py).          *)
Misses(t) ==
    LET r == thread[t] IN
    /\ r.at \in {"age", "reread"} /\ thread'[t].at \in {"resolve", "fetch"}
    /\ ~r.name.exact /\ r.name \in thread'[t].ordered
    /\ ~r.raced /\ r.name.symbol \in listed

FoundWithinTheMinute ==
    [][\A t \in Threads : Misses(t) =>
         /\ lastBuild.at # -1
         /\ thread[t].at = "reread" \/ now - lastBuild.at <= REBUILD_AFTER_S
         /\ thread[t].name.symbol \notin lastBuild.held]_vars

(* Whoever fetched it and whatever was set or deleted meanwhile, a quote   *)
(* that is told was the terminal's at most TTL before, and as long as it   *)
(* took from the terminal to the cache ("the cache holds a tick for a      *)
(* second", get_symbol_info_tick): the time of the quote is not looked at, *)
(* and a request that is overtaken writes an old one over a newer.         *)
JustTold(t) == thread'[t].ticks \ thread[t].ticks
QuotesAreRecent ==
    [][\A t \in Threads : \A k \in JustTold(t) : now - k.asof <= TTL + k.late]_vars

(* What was set is not replaced by something older.  It is, when a request *)
(* is overtaken on its way (MCMarket_older.cfg).                           *)
NeverOlder ==
    [][\A s \in Symbols : cache'[s] # NoEntry => cache'[s].asof >= cache[s].asof]_vars
=============================================================================
