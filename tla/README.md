# A verification project for the MetaTrader bridge

The repository runs a MetaTrader 5 terminal in a container, puts an HTTP and
WebSocket API in front of it, and trades through that API from a Nautilus
adapter and an MCP server.  This directory holds TLA+ models of the parts of it
that behave over time, the TLC configurations that check them on small
instances, and TLAPS proofs of their safety properties for every instance.

Paths below are relative to the root of the repository.

## 1. The system

| Part | State it keeps | Operations | Talks to |
|---|---|---|---|
| Container start: `MT5/assets/entrypoint.sh`, `run-mt5.sh`, `auto_login_wrapper.sh`, `auto_login.py`, `run-server.sh`, `supervisord.conf` | the marker `/tmp/login_complete`, the login's log, `common.ini`, the terminal process | settle the ini, keep a terminal up, type the login, confirm AutoTrading, gate the API | files, VNC, the terminal |
| AutoTrading toggle: `MT5/api/app/services/algo.py`, `MT5/assets/toggle_algo.py`, `auto_login.py` | none of its own; the switch is the terminal's | look, press Ctrl+E, confirm, retry | the terminal's GUI over VNC |
| Connection to the terminal: `services/connector.py`, `routers/terminal.py` | `_initialized`, `_initializing`, `_last_error`, `_ipc_failures`, a lock, one background thread | `initialize`, `_start_init`, `_do_initialize`, `POST /terminal/disconnect` | every route; the process itself, which it kills to have it restarted |
| Tick feed: `MT5/ea/TillTickFeed.mq5`, `services/feed.py` | EA: socket and sequence; listener: last sequence, bounded queues, tally | connect, tick, timer; accept, fan out, subscribe, unsubscribe | TCP on loopback; `/stream` |
| Tick stream: `routers/stream.py` | per socket: symbols, last quotes, failed symbols | handshake, poll, relay, subscribe, unsubscribe | feed queue, terminal, the client |
| Order routes: `routers/trading.py`, `services/trade.py`, `utils/sent.py` | rows of trades in a database | place, close, modify, cancel, list | terminal, database |
| Trailing stop: `utils/trailing.py`, `utils/helpers.py`, `main.py` | none; reads positions every 20 s | move a stop | order routes |
| Symbols: `services/market_data.py`, `routers/symbols.py`, `utils/cache.py` | symbol table, a TTL cache | refresh, look up | terminal |
| One-terminal process: `services/terminal_server.py`, `terminal_transport.py`, `terminal_wire.py` | a socket and a session per client | call, answer, reconnect | the MetaTrader5 package |
| Nautilus execution client: `nautilus-mt5/nautilus_mt5/execution.py` with `bridge.py`, `proxy.py`, `transport.py` | the engine's cache (orders, ids, fills) | submit, cancel, cancel-all, modify, reports | either HTTP or rpyc to the terminal |
| Nautilus data client: `data.py`, `clocks.py`, `providers.py` | watermark, sequences, queue of pushed frames | subscribe, poll, refill | `/stream`, HTTP, rpyc |
| Container launcher of the adapter: `nautilus_mt5/terminal.py` | a container handle | start, wait, stop | docker |
| MCP server: `mcp-server/mt5_mcp` | an HTTP session | one request per tool, a fill policy per order | the API |
| Configuration, redaction, read routes, scripts, deployment | none over time | - | - |

What is hard here is nearly always one of these:

- a *toggle* used as a setter by three programs that see it late (AutoTrading);
- flags read and written *outside the lock* by a pool of threads, and a process
  that cures itself by dying (connector);
- *files that outlive* the process that wrote them (container start);
- two *connections of one sender* read at once, and bounded queues (feed);
- state read *before an await and used after it* (stream, execution);
- calls whose *answer is lost* or which arrive after their caller gave up
  (execution);
- two layers that classify *the same return code* differently, and codes that say
  nothing of the outcome (order routes, adapter, trailing stop);
- *several statements that are one step only in the author's mind*: an order and
  the two commits of its row, a map that is cleared and refilled, a container
  that is listed, stopped, removed and run again;
- a *snapshot acted on* after others have moved what it shows (trailing stop);
- the same ticks *coming from three sources* that overlap, and *two clocks* that are
  compared as one (data client).

`PROJECT.json` lists each of these hazards at its line with the properties that
would catch it going wrong.

What makes each part correct:

- start: the API serves only after this start's login; one terminal at a time;
  a terminal launched comes up with AutoTrading on; one that went away returns;
- toggle: unless other presses or a late one of its own meet it, it presses only
  where that moves the switch towards what was asked and what it reports stays so;
  and it always answers;
- connection: one init thread, no flag left set, a refusal is neither hammered
  nor believed for ever, no restart loop;
- feed: the newest frames are kept, in order, drops are counted, ticks of a run
  that had a number and were lost are named, an EA gets back in;
- stream: the client is shown the current quote again, whatever the source of a
  symbol does; a failing symbol is reported once;
- execution: what the engine is told (filled, cancelled, rejected) is so at the
  broker, a rejection at least where the answer was clear; a stop is not lost;
  every command is answered;
- data client: no tick twice, none passed over, none out of order across its
  sources; only closed bars; the latest tick arrives; all this though the ticks are
  stamped by another clock than the client's;
- tools and order rows: what a tool says was done was done; a row for every order
  answered as placed and none for an order that never stood;
- trailing stop: a stop moves towards the price, unless it was moved unseen since
  the job looked, and no recorded position is left out for good;
- symbol table and cache: a reader is never answered from a half filled table,
  every name of a batch is answered once, a quote is no older than its TTL and its
  way from the terminal to the cache;
- launcher and session: a terminal is stopped only where the look before showed it
  not running, one that is connected is used, an account is never reported flat
  because its listing failed, and an actor knows whether trading is allowed.

## 2. The modules

    FanOut               what the feed promises a subscriber (abstract)
      ^ refined by
    TickFeed             EA, connections, listener, queues
      TickFeed_proofs      invariants of TickFeed; it implements FanOut
    Connector            initialize and the threads it runs on
    AutoTrading          the three programs that press Ctrl+E
      Api_proofs           of both: one init thread, a refusal is held; presses
                           that are not misled are aimed and what they report lasts
    Boot                 the programs of the container's start
    Stream               one WebSocket of /stream
      Container_proofs     of both: who serves and launches when; a failing
                           symbol is reported once
    Market               symbol map and cache under batches of quotes
      Market_proofs        each name once, in time
    Desk                 MCP write tools, their routes, trade rows, trailing job
      Desk_proofs          what was told was done; the job loosens only unseen
    Execution            the adapter's commands, transports and the broker's book
      Execution_proofs     what the engine may rely on
    Launcher             the adapter's container of a terminal
      ^ extended by
    Session              a node's connection over a terminal that is launched
      Session_proofs       what is reported is the book; sessions are kept
    DataClient           one subscription of the adapter's data client
      DataClient_proofs    nothing twice, nothing passed over, bars whole
    MC<module>           model values and small sets for TLC

Module names follow the code; a definition's name is the function's or the
statement's it stands for.  `AutoTrading` and `Stream` carry their name in `Init`,
`Next`, `Spec` and the like (`ToggleSpec`, `StreamSpec`), so that one proof module
can extend two specifications of the same program without a clash.  Definitions commented `Fault:` are variants of the
definition below them, the way a plausible slip in that code would read; they
are no part of a specification and serve to see that a property can fail.

### TickFeed, FanOut

`run`, `sequence` and `socket` are the EA's globals, `conn` and `lines` the TCP
connections (a slot stays in use until the listener has read the end of it, so
two connections of one EA may be read at once), and the rest `Feed`'s fields.
`OnInit`, `OnDeinit`, `OnTimer`, `OnTick` are the handlers of the EA, each
with the `Connect` and `Disconnect` it calls.  `_serve` is `Serve` (a line) and
`ServeEnd` (the end of the connection); as `_accept` never awaits, a line with
its gap accounting and its fan-out is one step.  `Start` and `Stop` are the
listener's.  `SymbolInfoTick` may give `OnTick` nothing (`NotGiven`): it returns
before it counts, so the tick takes no number.  A stale source (`STALE_AFTER`) is
`GoStale`, at any moment.  `tick`, `unread`, `taken`, `reads`, `joined`, `lastIn` and
`settled` are history: no guard reads them but for a bound.  Left out: prices and times within a frame, and how a line is split off
the byte stream (a line too long ends its connection just as its close does).

`FanOut` has no queues: accepted frames are numbered, each subscriber has a
position in that log, and may be pushed forward, but only as far as to be
`Backlog` frames behind.  The mapping puts a subscriber's position before the
frames its queue holds.

### Connector

One place (`pc`) per statement of `initialize` and `_start_init` that reads or
writes a flag another thread can write, and one (`init`) per such statement of
`_do_initialize`; only `_start_init` holds the lock, as in the code.  The world
(`marker`, `terminal`, `wedged`, `loginValid`) moves at any time; `recent` is
"less than `FATAL_RETRY_AFTER` since `_last_error_at`", which `MinutePasses`
ends.  `Exit` is `os._exit`: every thread and the connection go with it.  Init
threads have identities so that "at most one" can be said at all.

### AutoTrading

Every program is `Look`, `Press`, `Confirm` (with `Retry` and `GiveUp`) on its
own reading: `terminal_info()` for the API and the break-glass script, the log
for the start-up login, which may be a line behind.  A press waits in `pending`
until the GUI acts on it (`Act`), at any time, or it is lost (`Lose`); a session
that raises may have delivered its key before or not (`PressRaises`).  All programs
may run at once.  `misled` is history: it marks a call that pressed not knowing the
state, read a log that lags, met the press of another program, or met one of its
own that the GUI acted on after `WAIT`.  Such a call cannot know what its press
does, and nothing in the code keeps it from being one.  The ways of coming by the
VNC password, and the pauses between key events, are left out.

### Boot

`loop` is where `run-mt5.sh` is, `login` and `wrapper` where the login and its
wrapper are, `log` what `/tmp/auto_login.log` says, `marker` the file the server
waits for.  A restart of the container is `Restart` followed by `EntryPoint`'s
effects: programs start over, files stay.  `wasted` counts launches that found a
terminal, `foreign` launches by the server's `mt5.initialize` (`InitLaunches`).
The X server, VNC and nginx are taken to be up.

### Stream

`PumpTicks` is split at its awaits: `BeginPass` (which reads `sources()`),
`Poll`, the thread's answer (`Ask`), `Polled`.  `_read_commands` is `Receive`,
and `Follow` or `Drop` after its await.  `_pump_pushed` is `Relay`.  A quote is
the number of its last move.  `_pump_state` is `PumpState`, with the digest that
keeps it from pushing twice what has not changed; a client that wants positions
follows no symbol and sends nothing (a bound), and the account's frames take the
same steps as the positions' and are not told apart from them.  The conversion
between a client's spelling and the terminal's is left out.

### Market

A thread of the API's pool serves a batch of names: `resolve_symbols` a statement
at a time (`AskExact`, `Exact`, `LookUp`, `Age`, `List`, `Clear`, `Update`,
`Stamp`, `Reread`), then `get_symbol_info_tick` over `CacheManager` (`Cached`,
`Entry`, `Delete`), and on a miss `initialize`, `symbol_info_tick` and `cache.set`
(`Initialize`, `Quote`, `Write`), between which other threads run and time passes.  Nothing in that code locks, so any other thread
may run between two of them.  A name is a symbol with or without its exact
spelling; a listing or the link to the terminal may fail.  Two histories are
kept: `lastBuild`, from which listing the map was last filled, and `raced`, which
marks a request that resolved while another rebuilt the map under it.  Prices are
left out: a quote is the moment it was read (`asof`), and `late` is how long it took
from there to the cache.

### Desk

Each write tool is an action that checks and sends; the route behind it goes on in
a pool thread when its caller gave up (`GiveUp`), and stops where it is when the
process dies (`Crash`).  `ReadTicket` is what a modify reads first, `Send` is
`order_send` with the check of its answer, `CreateTrade` and `MutateTrade` are what
`POST /order` does after it, each of which may raise (`SendFails`, `RowFails`);
`ListPositions` and `CloseEach` are `close_all_positions`.  Any tool's request may
be executed and answered 10012, which `retcodes.py` calls an unknown outcome
(`Unclear`).

The trailing job takes its listing with a profit for each position (`Scan`), then
for each one with a row the first step that would tighten its stop (`JobReads`).
What it sends is taken and recorded (`JobMoves`, `JobNotes`), refused without effect
(`JobRefused`), taken and answered with another code than DONE (`JobUnclear`), or
raises (`JobRaises`).  After any code but DONE it goes on to a lower step with the
row of its scan.  Prices are steps from the entry.  `unseen` notes the positions
whose stop a call, or an answer of unknown outcome, moved under the scan.  Position
1 is there from the start, opened by hand or by an earlier process.  A partial fill
is one of the codes the trade server may answer with, as the route tells it apart
only by that code.

### DataClient

One instrument under one of four sources: polled quotes, ranges of ticks, the
pushed stream, or bars.  A round of its task is `Ask`, `Answer` (from the
terminal's history at that moment) and `ReadTicks` or `ReadBars`, so whatever the
terminal does in between is seen.  There are two clocks: `now` is the client's, which
ends a range and tells a closed bar, and `ServerTime` (`now + ahead`) is what ticks
and bars are stamped with, hence the watermark too once a tick went out.  `PublishTick` is the watermark of
`_publish_tick`, `TakeFrame` the gap check with its refill, `Received` the bounded
queue of `Bridge.stream`.  Frames are lost before that queue too (`TickUnsent`).
A quote is a member of a small set, so that two ticks of one millisecond can be
the same or differ.  A frame may come without a number, which skips the gap check (`TakeFrame(FALSE)`).
`since` is where the watermark began.  `uncovered` are the ticks nobody asked for and
no number gave away: lost before the first frame of a stream or before a frame
without a number, or, in a gap, stamped after the end of the range its refill asks
for (`Unasked`).  A published bar keeps how long its answer `waited` to be read.

### Launcher, Session

`Launcher` is `DockerizedMT5Terminal.start` as the factories call it: look, ask
the health, stop, remove, run, wait.  Docker restarts a container that ends by
itself, and other processes remove and run one of the same name.  `Session` is
the execution client over it: `_connect` with either transport, `_refresh_account`
and the position and order reports.  Calls of the two tasks interleave, which over
rpyc matters for `last_error`: `overtaken` notes a report whose error another call
may have overwritten.  A start that fails ends the process, which is started again
(`NewProcess`); `elsewhere` is a node that launches no container.

### Execution

A command of the engine is a task; `at` is the await it waits in.  `Answer` is
the terminal serving a request with every code it may answer with, `TimeOut` the
caller giving up (the request then stays in `late` and may still arrive), and
`Market` the market filling a resting order.  `transport` decides what
the caller sees of a refusal: over HTTP a 400, hence an exception; over rpyc an
envelope.  An answer may be lost, or say nothing of the outcome ("unclear": 10012,
None, an empty envelope).  `engine` and `fills` are what the engine was told.

`_submit_order` rejects on a refusal, on an unclear answer (`SubmitRefused`) and on
one that confirms without a ticket (`SubmitUnticketed`); `doubted` is the history of
the last two, after which the order may stand.  A fill is named by its deal, or by
its order where the answer or the history names no deal (`TradeIds`); `Reconcile` is
a fill report the engine asks for and applies, which names the deal.  `described`
are the orders whose instrument is loaded: the cache of an earlier run may hold
others (`Carried`), and what loading raises leaves the command without an event
(`SubmitUndescribed`, `Describe`, `Explain`).

What is abstract: an order fills whole; a position is named after the order that
opened it; the choice of the filling mode is left out (section 6); reading the
position and sending the request, which the API does one after the other in one
handler, is one step; a 500 after the terminal has done what was asked counts as a
lost answer.  A listing may come back empty because it failed (`ReadsEmpty`): over
HTTP nobody can tell.

## 3. What is checked

Every run ends in about a minute and a half or less on two cores.

| Run | Question | Instance |
|---|---|---|
| `feed_live` | Are queues the newest unread frames, drops counted, losses named, `FanOut` implemented; does an EA get back in and a subscriber catch up? | 1 EA started twice, 2 connections, a queue of 1, 3 ticks given or not, a malformed line, the bridge restarted |
| `connector_live` | One init thread?  A refusal held its minute?  Is a terminal that can be reached connected in the end, unless the flag says it is (`connector_stuck`)?  No restart loop? | 2 requests, 2 init threads, a disconnect, a death of the terminal, a wedge of its pipe |
| `connector_stuck` | Does `initialize` ever report a connection that is gone, for good? | the same, disconnect only: it does |
| `algo_live` | Does a call that is not misled press only towards what was asked, and does what it reports last?  Does every call answer? | a call of the API for on or off, the script and the login, at any time beside each other, a press lost, a silence, presses acted on as late as it likes |
| `boot_live` | Is the login of *this* start awaited, is one terminal kept, with AutoTrading on? | 2 starts, 2 deaths of the terminal, 2 exits of supervised programs, a server that launches terminals |
| `stream_live` | Is the client shown the current quote and the current positions again, and told of a failure once? | a symbol the broker has and one it has not, or the positions, 2 moves, 2 commands, an outage, an EA that comes and goes |
| `exec_live` | Is what the engine is told so at the broker, is a stop kept, is each command answered? | a market order, new or carried from an earlier run, and a limit order, 2 tasks and 2 commands at once, either transport, a lost, late or unclear answer |
| `exec_stop` | Can a modify remove a stop it was not asked to remove? | two modifies at once: it can |
| `desk_live` | Was what a tool is told was done done?  Do rows and orders agree?  When does the trailing job loosen a stop, and does it get to a position beside one that is refused? | two calls at once, one that may open and one that rests an order or changes what is there, a caller that gives up; a recorded long at full profit that may be refused for ever, a short with a stop opened beside it, 2 trailing steps, a crash under a call |
| `data_live` | Is nothing fed twice, out of order or passed over, is a bar whole when it goes out, does the latest tick arrive? | each source, 3 ticks of 2 quotes, moments 2 to 4 in seconds of 2, a queue of 1, a server 1 moment behind the client's clock, at it, and 3 ahead |
| `market_live` | Is each name answered once, a listed symbol found within the minute, a quote no older than its TTL and its way to the cache? | 2 threads, 2 symbols, a batch of a name that needs the map and one that does not, a rebuild after 1 and a TTL of 1, a clock of 2 |
| `session_live` | Is a running terminal stopped only where the look showed it not running, a connected one used, the book reported as it is, the flag told? | either transport, a position of ours and one of another's, 2 containers, a wait of 2 polls |

**Bounds.** The counters in the guards (`Max...`) bound how often the
environment may do what it does; nothing in the code depends on the amount.
A queue of one frame overflows at the second of three ticks, before and after the
EA's second start.  Two requests are the fewest that can meet in `initialize`, two
init threads the fewest that can violate "one", two tasks the fewest for one
command to act on what the other has changed; as the order may be carried from
an earlier run, two commands are two modifies (or cancels) at once, and
`exec_stop` runs three; `MaxLevel` 2 tells the level a position was
opened with, one it was moved to and none.  One lost call is enough for a late
arrival to meet a later command.  In `AutoTrading` three programs with a call each
meet in every way two can and leave a third to be misled by them; three attempts
of each outlast a lost press and a silence.  In `Desk` two calls and the job are three
writers over one ticket; two steps let a higher one be refused and the lower
taken.  The long comes before the short in every listing and keeps its profit, so
what it is refused, or what it raises, is in the way of the short again and again;
only the short's profit goes up and down.  No long is opened in that run and none by
hand is held; `RowsAgree` and `LoosensOnlyUnseen` are proved for both sides.  In
`DataClient` three ticks over two quotes give two alike in one moment and one
between; a bar is one moment long there, so that bars open and close under every
answer; a server 3 moments ahead stamps ticks after the end of any range of one
second, and one behind stamps them before the client's start.  In `Market` a
third thread would add another rebuild under the same reader, which `raced`
already marks; a clock of two passes both the TTL and the minute once, and the
theorems of section 5 hold for any.  In `Session` the second container is the one
run after the first was removed.

**Deadlock** is not checked (`CHECK_DEADLOCK FALSE` in every run): with every
bound used up a behaviour may simply have nothing left to do, as the programs
have when nobody asks for anything.  That what must happen does is said by the
liveness properties.

**Fairness**, and why the code gives it:

- `TickFeed`: the timer fires every `RetryMs` whether or not a tick comes, so a
  reconnect that is possible again and again is made (`SF` on `OnTimer` where it
  connects); the event loop serves a readable connection and a woken consumer
  (`WF`).
- `Connector`: threads run; `trailing_stop_handler` asks every 20 seconds
  (`WF(Ask)`); a lock released again and again is had (`SF(TakeLock)`);
  supervisord restarts the server and `run-mt5.sh` the terminal; time passes.
  Nobody is assumed to fix a login, to end a wedge or to complete a login.
- `AutoTrading`: the GUI works through its presses, programs keep running.  Not
  assumed: that a silent terminal answers again, or that the GUI is as quick as
  `WAIT` supposes.
- `Boot`: only `run-mt5.sh` itself, whose sleeps are finite.
- `Stream`: the tasks of the socket run, an outage ends, and `STALE_AFTER` is
  reached for a symbol that does not move.  Quotes need not move.
- `Execution`: a task goes on when its call is answered or given up, and the
  terminal answers or the call times out.  Late requests need never arrive.
- `Desk`: the scheduler runs the job (`WF(Trailing)`).  What the job sends for a
  position is answered in the end with some code (`SF(JobAnswered)`): an answer of
  None raises and ends the scan for every position after it, and if one position
  did so for ever the ones behind it would never be trailed.  The broker takes in
  the end what is sent for the `Accepted` positions (`SF(JobMoves)`), and may refuse
  the others for ever.  Tools need not be called, and routes need not answer.
- `DataClient`: the loop runs the task (`WF(Round)`), and not every call of it
  fails (`SF(Answer)`).
- `Launcher`, `Session`: the process runs and is started again when it fails
  (`WF(Starts)`), docker does not refuse every listing (`SF(Look)`), the loop runs
  the refresh (`WF(Refreshing)`), and not every one of its reads fails (`SF`).
- `Market` states no liveness: a request there waits for nobody.

## 4. What the code does differently from what it says

Two of the runs end in a counterexample, each listed with the line it contradicts:

1. `connector_stuck`: a disconnect clears `_initialized` before the init thread
   sets it; `initialize` returns True from then on over a connection that is gone.
2. `exec_stop`: `_modify_order` fills the side it was not asked to change with
   what it saw before an await; two modifies at once undo each other, and the
   one that saw no stop removes it.

Eleven more configurations are kept beside them.  TLC ends each in a
counterexample too; run them by hand to see it.

| Configuration | Violated | What it shows |
|---|---|---|
| `MCAutoTrading_late.cfg` | `SetsIt` | one caller alone, over a GUI that acts on its press after `WAIT`: the next attempt's press takes it back once the call has reported success, where "calling it twice is the same as calling it once" (`algo.py`) |
| `MCBoot_gate.cfg` | `ServedIsConfirmed` | `auto_login.py` creates the marker itself, before the wrapper confirms AutoTrading, and `run-server.sh` believes the marker |
| `MCExecution_pending.cfg` | `TakenIsNotRefused` | `trade.py` takes only `TRADE_RETCODE_DONE` for success, so a limit order answered `PLACED` comes back as a 400 while it rests in the book; `nautilus_mt5/orders.py` lists `PLACED` among the successes |
| `MCExecution_twice.cfg` | `FilledOnce` | a fill told under its order, as the answer (`execution.py:731`) or the history (`:943`) named no deal, and again by reconciliation under its deal: two ids, so two fills of one order |
| `MCExecution_undescribed.cfg` | `EveryModifyAnswered` | `_instrument` raises (`execution.py:842`), which only `_Refusal` is caught for: no event, where "every path ends in an event" (`:831`) |
| `MCDesk_unreached.cfg` | `UnreachedIsUntouched` | an agent is told that its request "did not reach the trade server" (`retcodes.py`) when the tool timed out, or a step after `order_send` failed, over an order that stands |
| `MCDesk_loosens.cfg` | `NeverLoosens` | the trade server takes a step and answers 10012; `trailing.py` goes on to a lower step with the stop its scan saw, and sends it |
| `MCDataClient_forming.cfg` | `EveryBarClosed` | `_is_forming` judges by the clock after the await: a bar that was forming when it was answered is published as closed, where "only that one is published" (`data.py`) |
| `MCDataClient_ahead.cfg` | `GapsRefilled` | with the server's clock ahead, a refill asks for a range that ends, by the client's clock, before the gap: the ticks are skipped, where "the gap is refilled ... rather than ignored" (`data.py`) |
| `MCMarket_older.cfg` | `NeverOlder` | of two requests that fetch one symbol, the overtaken one writes its older quote over the newer, with a TTL of its own |
| `MCSession_flat.cfg` | `NeverFlatInError` | over HTTP a listing that failed is an account without positions, which `bridge.py` says "is how a desk opens a position it already holds" |

Others were met while modelling and are reported here without a run:

- feed: a tick `SymbolInfoTick` does not give takes no number
  (`TillTickFeed.mq5:125`), so nobody names it as lost; a restarted EA whose first
  ticks are lost may continue the old count by chance, so the loss goes unnamed
  (`feed.py:183`);
- connector: between the check of `_last_error` and its use another request may
  drop it (`connector.py:190-199`); a pipe wedge outlives `os._exit`, as
  the server restarts and the terminal does not (`connector.py:147`); over rpyc the
  API's own link to the terminal is dialled once, at import, and its loss leaves
  every request failing in a process that does not exit (`terminal_transport.py:189`);
- AutoTrading: callers at once take each other back; `apply`'s second attempt
  presses on an unknown state; a session that raises after its key went in reports
  a failure over a switch that moves; the start-up login reads the log, where its
  own press may not have shown yet, and presses again (all of them `misled`);
- start: `common.ini` is edited under a terminal the API launched after the check
  (`run-mt5.sh:121`); the wrapper greps the log of the previous start if it looks
  before the login opens it (`LogTruncatedFirst` FALSE);
- stream: one poll that fails during an outage silences the symbol for the rest
  of the socket (`stream.py:230`); the cap on symbols is per frame, not per socket
  (`stream.py:161`); `require=ea` is checked at the handshake only
  (`stream.py:375`); a queued push may be relayed after a newer poll (`Prompt`
  FALSE); a listing that failed is pushed as a flat account until the next one
  (`stream.py:264`);
- symbols: the map is cleared and then updated where the comment says "Swapped
  rather than cleared and refilled" (`market_data.py:77`), so a reader in between
  misses what is listed (`raced`); a failed `symbols_get` empties the map and stamps
  it for a minute, which the first batch before the terminal is attached does;
  outside a batch the entry two requests delete is a 500 (`cache.py:18-23`);
- orders: a partial fill is answered as a 400, without a row; `close_all` ends in a
  500 at a symbol without a tick, and its count is lost; the MCP server reads bit 4
  of the filling mask as RETURN (`tools.py`) and the API as BOC (`trade.py:11`), so a
  RETURN that was asked for and told goes out as FOK or IOC, where it is "never
  silently downgraded" (`tools.py:744`); the adapter's proxy closes with IOC whatever the symbol allows
  (`proxy.py`), and its `_filling_for` keeps the configured mode for good after one
  read that failed;
- trailing: a short without a stop is never given one (`trailing.py:45`); the job
  decides by its listing, and may take back a stop or a target a call moved since
  (`unseen` in `LoosensOnlyUnseen`); what one position raises ends the scan for all
  after it;
- data client: ticks between a refill and the first pushed frame, or before a frame
  without a number, are lost unnoticed (`uncovered`); a new subscription keeps the
  mark, so `ticks` replays what came in between; the watchdog says "No poll has run
  at all" of a `ticks` or `push` source that runs and is quiet.  Where the server's
  clock is ahead by `ahead`, `ticks` publishes a tick that much after it came, and a
  bar goes out that much after it closed, so that with two bars a reply a bar shorter
  than that is never published; where it is behind, the first watermark of `ticks`
  and `push` is ahead of the server and what it stamps below is refused;
- launcher and session: a container that is "restarting" is none of the states
  `start` knows and is removed; a wait that fails leaves its container running; an
  `initialize` that raises leaves a handle the next open takes for an open one; a
  lost rpyc link is not dialled again before a close; the proxy has no `can_trade`,
  so over rpyc nobody is told of the flag; a failed account read skips the flag;
- execution: an order is rejected, for good as far as the engine knows, on an
  answer that does not say whether it was placed (`execution.py:677`: 10012, None, an
  empty envelope) and on one that confirms it and names no ticket (`:692`), so that
  a rejected order may stand (`doubted`); over HTTP a refusal raises, so `_submit_order` sends no event and the
  order stays submitted, and the `AUTOTRADING_OFF` branch (`execution.py:681`) is
  unreachable; a cancel-all ends at an unknown order whose cancel raises; the HTTP
  listings turn a failed `orders_get` into an empty book (`trade.py:345`, `:377`),
  which `proxy.py` does not; a placement whose answer is lost stays unknown to the
  engine until it reconciles.

Properties that lean on an assumption say so by a constant: `LogTruncatedFirst` in
`Boot` and `Prompt` in `Stream`.  With the constant the other way round the property
fails, for the reason above.  Properties that hold of some calls only say so by a
history the model keeps (`misled`, `doubted`, `unseen`, `uncovered`, `raced`,
`overtaken`), and this section names what happens to the others.

## 5. What is proved

Every safety invariant and every action property of the passing runs, and that
the feed implements `FanOut`, for every value of the constants that satisfies the
module's ASSUMEs (`FeedAssumption`, `ConnsAssumption`; `RequestsAssumption`,
`BoundsAssumption`; `AutoTradingAssumption`; `BootAssumption`; `StreamAssumption`,
`SymbolsAssumption`; `MarketAssumption`; `DeskAssumption`; `DataAssumption`;
`ExecutionAssumption`; `LauncherAssumption`, `SessionAssumption`):

| Theorem | Module | States |
|---|---|---|
| `TypeCorrect` | `TickFeed_proofs` | `Spec => []TypeOK` |
| `QueueKeepsNewest` | `TickFeed_proofs` | `Spec => []QueueIsNewestUnread` |
| `GapsAreNamed` | `TickFeed_proofs` | `Spec => NamedWithinRun` |
| `FeedImplementsFanOut` | `TickFeed_proofs` | `Spec => KeepsPromise` |
| `DropsAlwaysCounted` | `TickFeed_proofs` | `Spec => []DropsAreCounted` |
| `OneInitAlways` | `Api_proofs` | `Spec => []OneInit` (`Connector`) |
| `RefusalAlwaysHeld` | `Api_proofs` | `Spec => RefusalIsHeld` (`Connector`) |
| `SuccessAlwaysLasts` | `Api_proofs` | `ToggleSpec => []ToggleSafe` (`AutoTrading`) |
| `PressesAreAimed` | `Api_proofs` | `ToggleSpec => PressesOnMismatch` (`AutoTrading`) |
| `AlwaysSafe` | `Container_proofs` | `Spec => []Safe` (`Boot`), with `LogTruncatedFirst` |
| `LaunchesTrade` | `Container_proofs` | `Spec => LaunchTrades` (`Boot`), with `LogTruncatedFirst` |
| `AlwaysReportedOnce` | `Container_proofs` | `StreamSpec => []StreamSafe` |
| `AlwaysSafe` | `Market_proofs` | `Spec => []Safe` |
| `QuotesAlwaysRecent` | `Market_proofs` | `Spec => QuotesAreRecent` |
| `AlwaysFound` | `Market_proofs` | `Spec => FoundWithinTheMinute` |
| `AlwaysSafe` | `Desk_proofs` | `Spec => []Safe` |
| `RowsAlwaysAgree` | `Desk_proofs` | `Spec => []RowsAgree` |
| `JobLoosensOnlyUnseen` | `Desk_proofs` | `Spec => LoosensOnlyUnseen` |
| `AlwaysSafe` | `DataClient_proofs` | `Spec => []Safe` |
| `NothingIsSkipped` | `DataClient_proofs` | `Spec => []NothingSkipped` |
| `BarsAreClosed` | `DataClient_proofs` | `Spec => []OnlyClosedBars` |
| `AlwaysSafe` | `Session_proofs` | `Spec => []Safe` |
| `SessionsAlwaysKept` | `Session_proofs` | `Spec => SessionsAreKept` |
| `TypeCorrect` | `Execution_proofs` | `Spec => []TypeOK` |
| `CanceledAlwaysGone` | `Execution_proofs` | `Spec => []CanceledIsGone` |
| `FillsAlwaysDeals` | `Execution_proofs` | `Spec => []FillsAreDeals` |
| `StopAlwaysKept` | `Execution_proofs` | `Spec => []StopKept` |
| `RejectedNeverPlaced` | `Execution_proofs` | `Spec => []RejectedIsNotPlaced` |

*Feed.*  `TypeOK` is inductive alone.  `QueueInv` adds to it, for each subscriber,
`QueueOK`: the queue holds the last frames accepted, numbered without a hole, and
is full if anything was pushed out of it; `Put`, the only operator on queues,
keeps that whether it drops or not.  `NumberInv` is what makes the gap rule
right: the number on a line is the tick's within its run, numbers on a connection
increase, and what the listener noted last is the number of the frame it accepted
last.  Without the second part a line from an old connection, read after one of
the new connection, would look like a gap of the wrong size.  The refinement then
needs only `QueueInv`: every action of the feed changes the mapped state as
`Publish`, `Join`, `Leave`, `Read` or `Restart` does, or not at all.
`DropsAreCounted` sums over the subscribers that are there.  `MapThenSumSet` is
unfolded once, as a function that sums over subsets (`Sums`), and two facts about
such functions carry the rest: equal summands give equal sums, and the sum over
everyone is one summand and the sum over the others, so that a frame accepted or
a subscriber that comes or goes changes the sum by what `dropped` changes.

*Connector.*  `OneInit` is not inductive: two requests past the check of
`_initializing` would each start a thread.  `IInv` adds that whoever is between
taking the lock and releasing it holds it (`Exclusive`), and that a request about
to launch, having rechecked under the lock, finds the flag still unset (`Unset`):
only the holder sets it.  For `RefusalIsHeld`, `Held`: while a refusal that met
nobody on the way holds, nobody sets out (`OnTheWay`), the error is still the fatal
one, and it is of the last minute, or the thread that met it has yet to note the
time and every request still finds `_initializing` set.

*AutoTrading.*  `Aimed` says of each program that nothing has misled where it stands
(`Sure`): about to look or press, nothing is queued, and what it looked at differs
from what it wants; waiting, at most its own press is queued, and that moves the
switch to what it wants; having reported success, nothing is queued and the switch
is there.  A step of another program, or of the terminal, leaves it standing so or
misleads it (`OthersStep`): a press does, whoever makes it, and so does the end of
`WAIT` over a press still queued.  Both theorems are read off `Aimed`; no hypothesis
on the environment is left.

*Boot.*  `Safe` says what the API may rely on when it serves and how often the
loop may waste a launch.  Neither is inductive.  `MarkedAfterLogin` and `LogIsOurs`
follow the marker and the log back to the program of this start that wrote them;
that a login has opened the log before its wrapper looks is where
`LogTruncatedFirst` is used.  `LaunchesPaired` relates the wasted launches to the
foreign ones and to a terminal that runs beside the loop.  `LaunchTrades` adds
`IniSettled`: from the loop's settling of `common.ini` to its launch nothing else
writes the file, unless somebody else made a terminal.

*Stream.*  `StreamInv`: a symbol has been reported at most once, and not at all
unless it is in `failed`; and the symbol a poll is about is not, so the answer
that fails is the first.  The pass reads `failed` before its await, which is why
the second part has to be kept through the commands that arrive meanwhile.

*Market.*  A thread's request is in three parts, what it still has to do, the
quotes and the errors, and every statement moves a name from the first to one of
the others (`Safe`).  An entry expires no later than TTL after it was written, which
is `late` after its quote was read (`EntryOK`), and a quote on its way to the cache is
not from the future (`OnTime`); nothing is told from an entry but before its expiry.
That gives `QuotesAreRecent`, though a slower request may write an older quote over a
newer one (`NeverOlder`, section 4).  `FoundWithinTheMinute` is about requests under
which nobody rebuilt the map; `raced` marks the others, which may miss what is
listed.  For
`FoundWithinTheMinute`, `Rebuilds`: outside a rebuild's clear and update the map is
at least what the last rebuild filled it with; a thread that clears tells every
reader under it (`raced`), so a request nobody told has read a whole map.

*Desk.*  `CallShape` says what a call has done by the place it is at: nothing up to
`order_send`, one order after it, for `close_all` exactly the ones it has counted,
which are none of those it has left.  `CallHeld` adds what it may rely on of the
book and the rows while others run: an order that was open is open or gone for good
(`BookMoves`), so a row may be written for it after any delay.  `JobOK` is the
trailing job's: a position left in its listing, unless it is among `unseen`, has the
stop it was listed with, so that every step the scan holds for it still tightens it
(`Tighter`) and the target read is its target.  A step taken under another code than
DONE puts its own position among them before the next lower one is tried.  The
least of a set of tickets exists because `<` is well founded on the naturals.

*Execution.*  `Typed` is `TypeOK` with the records of the commands spelled out: a
command past its start has an order, one that waits a request.  Three invariants
rest on it.

- `BookInv`: what the engine is told must be evidence.  A command waits for the
  answer to what its place says it asked (`Sent`), and an answer proves something
  about the book (`Evidence`): DONE for a cancel that the order is cancelled, DONE
  for a market order that it is held.  The evidence does not go stale while the
  command awaits something else, since held and cancelled are final (`BookStays`).
- `StopInv`: a stop is taken away by a request without one, so every request that
  is or may still be on its way carries one (`CarriesStop`), and so does what a
  modify saw of a position before it sends.
- `PlaceInv`: an order is put on its way once (`PutOnce`), by one command; until
  that command has given up no late request places the order; and while the engine
  has not submitted it, or had it rejected on a clear answer (`Unborn`), or it is
  unanswered, or refused where a refusal is the terminal's, the book has no such
  order.  Without the second part a placement that arrives late could follow the
  rejection.  A `doubted` order is exempt, and may well stand.

`PlaceInv` needs the refusal to come over RPyC: over HTTP a placement the
terminal took may read as refused (section 4), and the order is not rejected
only because there a refusal is an exception and the task ends without a word.

*Data client.*  `FeedInv` has the types, the clocks (`Timed`: the server stamps no tick
before the last one; `Bounded`: the watermark is the server's past, or where it
began), the places a task of each source can be in (`Placed`), and for what went
out: in order, nothing twice, and the quotes kept at the watermark are those that
went out in its millisecond (`Once`; `Risen` for bars).  `CompleteInv` is for
`NothingSkipped`.  A tick below the watermark is `Settled`: it went out, or it is from
before `since`, or `uncovered`.  `Refilled` is what a round counts on across its
awaits: the range asked for starts no later than the watermark, and ends after the
frame that showed the gap unless the server's clock is ahead; the rows answered have
every tick of the gap that is in the range; and back on the stream everything up to
the last frame read is settled.  So the watermark may rise over a tick only when the
tick is among the rows or settled.  `BarsInv` says of the rows answered, with the
moment of the answer (`when`), and of the bars published, with how long they waited,
that a bar that was over by the server's clock when it was answered holds what it
will ever hold; a bar over by the client's clock when read was over by the server's
when answered if it waited no longer than the server is ahead.  Publishing
goes over a sequence, and rows are sorted: the sequence a set is sorted into
exists by induction over finite sets (`SubsetsInduced`), what publishing it does by
induction over its length (`NatInduced`).  Both are stated over a set of the good
cases, and follow from the library's theorems on well-founded relations.

*Session.*  `ReportKept`: while a report is under way its client is up, so the one
other call that may leave its mark in `last_error` is the refresh, and `overtaken`
notes that.  Hence a listing read as empty is empty, or overtaken, or came over
HTTP, as `ReportIsTheBook` allows.  For `SessionsAreKept`, `StopsStopped`: between the
look and the stop the launcher remembers a container that did not run, whatever
others have made of it since.

*Only model-checked*: the liveness properties `Reconnects`, `CatchesUp`, `Connects`,
`NoRestartLoop`, `Answers`, `TerminalReturns`, `StaysCurrent`, `EveryCommandAnswered`,
`Trailed`, `LatestArrives`, `Launches` and `TradingIsTold`, since fairness and ENABLED are
out of the prover's reach.  Nothing is proved where a run ends in a counterexample.
Induction over data is used where it can be stated over sets, as above; a library
theorem that takes an operator cannot be instantiated.

## 6. Not modelled, and what is left

Part by part, with the reason, in `PROJECT.json`.  In short:

- **Terminal server, transport and wire.**  One request, one answer, in order, over
  one connection.  The calls are the library calls that the other modules take as
  atomic; what its codec does is a matter of types, not of time.  The one
  behaviour over time, a link that is not dialled again, is named in section 4.
- **MCP read tools, remaining read routes, configuration, factories, redaction.**
  One value or one call translated, nothing kept between two of them.
- **Scripts, nginx, deployment, examples.**  Outside the running system.
- **Partial fills** beyond their code: an order fills whole, in `Execution` and in
  `Desk`.  The code keeps no state of its own about the rest of such an order.
- **The filling mode** of an order, which the MCP server, the API and the adapter
  each resolve from a symbol's mask: a table without state.  Where the three differ
  is in section 4.
- **Closing a position through the adapter**, its request for history and its
  watchdog, which only logs; figures in a trade row and the listing of rows; bars
  and symbol information of the API, which share the cache's code with the quotes.

Next, in order:

1. The desk as the abstract specification of `Execution`'s broker, so that both
   writers of one book, adapter and tools, are checked over the same orders; and
   what a data client promises (a feed in order, without holes) as the abstract
   specification of `DataClient`.
2. The terminal's link over rpyc under `Connector`.
3. Partial fills in `Execution`, with the remainder of an order.
