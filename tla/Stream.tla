------------------------------- MODULE Stream -------------------------------
(***************************************************************************)
(* One WebSocket of /stream (routers/stream.py).  Four tasks of the event  *)
(* loop share it: _pump_pushed relays the frames of the EAs, _pump_ticks   *)
(* polls the symbols no EA feeds, _pump_state polls the positions and the  *)
(* account alike, and _read_commands changes what is followed.  They           *)
(* interleave where they await: a poll, or the resolution of a command,    *)
(* runs in a thread while the others go on.                                *)
(***************************************************************************)
EXTENDS Integers, Sequences, FiniteSets

CONSTANTS Symbols,        \* names a client may ask for, in the terminal's spelling
          Carried,        \* those the broker has, with a quote
          MaxSymbols,     \* MAX_SYMBOLS
          Prompt,         \* a frame is relayed before its chart can be closed
          MaxMoves,       \* bound: moves of one quote
          MaxCommands,    \* bound: subscribe and unsubscribe frames
          MaxOutages,     \* bound: times the terminal stops answering
          MaxAttached     \* bound: times an EA is attached

ASSUME StreamAssumption ==
    /\ Carried \subseteq Symbols
    /\ Prompt \in BOOLEAN
    /\ {MaxSymbols, MaxMoves, MaxCommands, MaxOutages, MaxAttached} \subseteq Nat

Nothing == "nothing"
ASSUME SymbolsAssumption == Nothing \notin Symbols

VARIABLES
  \* the terminal
    quote,      \* [Symbols -> Nat]  the quote now, by its number; 0 when there is none
    outage,     \* every call of the terminal raises
    attached,   \* symbols whose chart carries the EA
    sources,    \* feed.sources(): fed within STALE_AFTER
  \* the socket
    stage,      \* "new", "ready" or "closed"
    reading,    \* the client reads what it is sent
    symbols, lastQuote, failed,     \* Subscription
    command,    \* the command being resolved, <<>> when none is
    todo,       \* symbols this pass of _pump_ticks has left
    pushed,     \* sources() as this pass began
    polling,    \* the symbol a thread is asking about
    answer,     \* what it got: -1 nothing yet, 0 an exception
    queue,      \* frames of the EAs not yet relayed
    state,      \* _pump_state: [last, got], its digest and the listing under way
  \* the client
    shown,      \* [Symbols -> Nat]  the quote it was sent last
    errors,     \* [Symbols -> Nat]  errors it was sent since it last dropped it
    account,    \* [wants, held, shown]: positions, by their digest, 0 when flat
    commands, outages, attaches

terminalVars == <<quote, outage, attached, sources>>
stateVars    == <<state, account>>
subVars      == <<symbols, lastQuote, failed>>
pollVars     == <<todo, pushed, polling, answer>>
clientVars   == <<shown, errors>>
streamBounds == <<commands, outages, attaches>>
streamVars   == <<terminalVars, stage, reading, subVars, command, pollVars, queue,
                  clientVars, stateVars, streamBounds>>

Pending == -1
Raised  == 0
Unsaid  == -2   \* no digest yet

StreamInit ==
    /\ quote = [s \in Symbols |-> IF s \in Carried THEN 1 ELSE 0]
    /\ outage = FALSE /\ attached = {} /\ sources = {}
    /\ stage = "new" /\ reading = TRUE
    /\ symbols = {} /\ lastQuote = [s \in Symbols |-> 0] /\ failed = {}
    /\ command = <<>>
    /\ todo = {} /\ pushed = {} /\ polling = Nothing /\ answer = Pending
    /\ queue = <<>>
    /\ shown = [s \in Symbols |-> 0]
    /\ errors = [s \in Symbols |-> 0]
    /\ state = [last |-> Unsaid, got |-> Pending]
    /\ account \in [wants : BOOLEAN, held : {0}, shown : {Unsaid}]
    /\ commands = 0 /\ outages = 0 /\ attaches = 0
-----------------------------------------------------------------------------
(* The terminal and the EAs.                                               *)

(* A quote of an attached chart is pushed to whoever subscribed. *)
QuoteMoves(s) ==
    /\ s \in Carried /\ quote[s] < MaxMoves
    /\ quote' = [quote EXCEPT ![s] = @ + 1]
    /\ IF s \in attached
       THEN /\ sources' = sources \cup {s}
            /\ queue' = IF stage = "ready" THEN Append(queue, <<s, quote'[s]>>) ELSE queue
       ELSE UNCHANGED <<sources, queue>>
    /\ UNCHANGED <<stateVars, outage, attached, stage, reading, subVars, command, pollVars,
                   clientVars, streamBounds>>

Attach(s) ==
    /\ s \in Carried \ attached /\ attaches < MaxAttached
    /\ attaches' = attaches + 1
    /\ attached' = attached \cup {s}
    /\ UNCHANGED <<stateVars, quote, outage, sources, stage, reading, subVars, command,
                   pollVars, queue, clientVars, commands, outages>>

Detach(s) ==
    /\ s \in attached
    /\ Prompt => queue = <<>>
    /\ attached' = attached \ {s}
    /\ UNCHANGED <<stateVars, quote, outage, sources, stage, reading, subVars, command,
                   pollVars, queue, clientVars, streamBounds>>

(* STALE_AFTER without a frame, of a closed chart or a quiet symbol. *)
GoStale(s) ==
    /\ s \in sources
    /\ sources' = sources \ {s}
    /\ UNCHANGED <<stateVars, quote, outage, attached, stage, reading, subVars, command,
                   pollVars, queue, clientVars, streamBounds>>

OutageBegins ==
    /\ ~outage /\ outages < MaxOutages
    /\ outages' = outages + 1
    /\ outage' = TRUE
    /\ UNCHANGED <<stateVars, quote, attached, sources, stage, reading, subVars, command,
                   pollVars, queue, clientVars, commands, attaches>>

OutageEnds ==
    /\ outage
    /\ outage' = FALSE
    /\ UNCHANGED <<stateVars, quote, attached, sources, stage, reading, subVars, command,
                   pollVars, queue, clientVars, streamBounds>>
-----------------------------------------------------------------------------
(* The socket opens.                                                       *)

(* Names as resolve_symbols left them; follow takes MaxSymbols at most.    *)
Requests == {names \in SUBSET Symbols : Cardinality(names) <= MaxSymbols}

(* Bound: who is here for the positions names no symbol and sends nothing. *)
Open(names, ea) ==
    /\ stage = "new"
    /\ account.wants => names = {}
    /\ symbols' = names
    /\ stage' = IF ea /\ (names = {} \/ ~(names \subseteq sources)) THEN "closed" ELSE "ready"
    /\ UNCHANGED <<stateVars, terminalVars, reading, lastQuote, failed, command, pollVars,
                   queue, clientVars, streamBounds>>

HangUp ==
    /\ stage = "ready"
    /\ stage' = "closed"
    /\ UNCHANGED <<stateVars, terminalVars, reading, subVars, command, pollVars, queue,
                   clientVars, streamBounds>>

StopReading ==
    /\ stage = "ready" /\ reading
    /\ reading' = FALSE
    /\ UNCHANGED <<stateVars, terminalVars, stage, subVars, command, pollVars, queue,
                   clientVars, streamBounds>>
-----------------------------------------------------------------------------
(* _send: a client that does not read is disconnected after SEND_TIMEOUT.  *)
Send(s, number) ==
    IF reading
    THEN /\ shown' = [shown EXCEPT ![s] = number]
         /\ UNCHANGED <<stage, errors>>
    ELSE /\ stage' = "closed"
         /\ UNCHANGED clientVars

SendNothing == UNCHANGED <<stage, clientVars>>

(* _pump_pushed: relayed without a filter if followed by now. *)
Relay ==
    /\ stage = "ready" /\ queue # <<>>
    /\ queue' = Tail(queue)
    /\ LET frame == Head(queue) IN
         IF frame[1] \in symbols THEN Send(frame[1], frame[2]) ELSE SendNothing
    /\ UNCHANGED <<stateVars, terminalVars, reading, subVars, command, pollVars, streamBounds>>
-----------------------------------------------------------------------------
(* _pump_ticks.                                                            *)

(* Fault: the feeds are asked about once, as the socket opens. *)
BeginPassAsOpened ==
    /\ stage = "ready" /\ todo = {} /\ polling = Nothing
    /\ symbols # {}
    /\ pushed' = pushed \cup sources
    /\ todo' = symbols
    /\ UNCHANGED <<stateVars, terminalVars, stage, reading, subVars, command, polling,
                   answer, queue, clientVars, streamBounds>>

BeginPass ==
    /\ stage = "ready" /\ todo = {} /\ polling = Nothing
    /\ symbols # {}
    /\ pushed' = sources
    /\ todo' = symbols
    /\ UNCHANGED <<stateVars, terminalVars, stage, reading, subVars, command, polling,
                   answer, queue, clientVars, streamBounds>>

(* The symbol's turn: skipped if it failed before or an EA feeds it.       *)
Poll(s) ==
    /\ stage = "ready" /\ s \in todo /\ polling = Nothing
    /\ todo' = todo \ {s}
    /\ polling' = IF s \in failed \cup pushed THEN Nothing ELSE s
    /\ UNCHANGED <<stateVars, terminalVars, stage, reading, subVars, command, pushed,
                   answer, queue, clientVars, streamBounds>>

(* get_symbol_info_tick in its thread.  A symbol without a quote raises.   *)
Ask ==
    /\ polling # Nothing /\ answer = Pending
    /\ answer' = IF outage THEN Raised ELSE quote[polling]
    /\ UNCHANGED <<stateVars, terminalVars, stage, reading, subVars, command, todo, pushed,
                   polling, queue, clientVars, streamBounds>>

Polled ==
    /\ stage = "ready" /\ polling # Nothing /\ answer # Pending
    /\ polling' = Nothing /\ answer' = Pending

(* Fault: the failure is said and not remembered. *)
NoteFailureUnmarked ==
    /\ Polled /\ answer = Raised
    /\ errors' = [errors EXCEPT ![polling] = @ + (IF reading THEN 1 ELSE 0)]
    /\ UNCHANGED <<stateVars, terminalVars, stage, reading, subVars, command, todo, pushed,
                   queue, shown, streamBounds>>

(* The exception: said once, its result ignored, and the symbol is left.   *)
NoteFailure ==
    /\ Polled /\ answer = Raised
    /\ failed' = failed \cup {polling}
    /\ errors' = [errors EXCEPT ![polling] = @ + (IF reading THEN 1 ELSE 0)]
    /\ UNCHANGED <<stateVars, terminalVars, stage, reading, symbols, lastQuote, command,
                   todo, pushed, queue, shown, streamBounds>>

(* Only changes are sent. *)
SendQuote ==
    /\ Polled /\ answer # Raised
    /\ IF lastQuote[polling] = answer
       THEN /\ SendNothing
            /\ UNCHANGED lastQuote
       ELSE /\ lastQuote' = [lastQuote EXCEPT ![polling] = answer]
            /\ Send(polling, answer)
    /\ UNCHANGED <<stateVars, terminalVars, reading, symbols, failed, command, todo, pushed,
                   queue, streamBounds>>
-----------------------------------------------------------------------------
(* _pump_state.                                                            *)

PositionsMove ==
    /\ account.wants
    /\ account' = [account EXCEPT !.held = 1 - @]
    /\ UNCHANGED <<terminalVars, stage, reading, subVars, command, pollVars, queue,
                   clientVars, state, streamBounds>>

(* get_positions in its thread.  A terminal that does not answer raises, or*)
(* its None is read as no positions.                                       *)
AskPositions ==
    /\ stage = "ready" /\ account.wants /\ state.got = Pending
    /\ \E got \in IF outage THEN {Unsaid, 0} ELSE {account.held} :
          state' = [state EXCEPT !.got = got]
    /\ UNCHANGED <<terminalVars, stage, reading, subVars, command, pollVars, queue,
                   clientVars, account, streamBounds>>

News(got) == got # Unsaid /\ got # state.last

SendPositions ==
    /\ stage = "ready" /\ state.got # Pending
    /\ LET got == state.got IN
         /\ state' = [last |-> IF News(got) THEN got ELSE state.last, got |-> Pending]
         /\ IF ~News(got) THEN UNCHANGED <<stage, account>>
            ELSE IF reading THEN account' = [account EXCEPT !.shown = got] /\ UNCHANGED stage
            ELSE stage' = "closed" /\ UNCHANGED account
    /\ UNCHANGED <<terminalVars, reading, subVars, command, pollVars, queue,
                   clientVars, streamBounds>>
-----------------------------------------------------------------------------
(* _read_commands.                                                         *)

Receive(act, names) ==
    /\ stage = "ready" /\ command = <<>> /\ commands < MaxCommands /\ ~account.wants
    /\ commands' = commands + 1
    /\ command' = <<act, names>>
    /\ UNCHANGED <<stateVars, terminalVars, stage, reading, subVars, pollVars, queue,
                   clientVars, outages, attaches>>

Follow ==
    /\ stage = "ready" /\ command # <<>> /\ command[1] = "subscribe"
    /\ symbols' = symbols \cup command[2]
    /\ command' = <<>>
    /\ UNCHANGED <<stateVars, terminalVars, stage, reading, lastQuote, failed, pollVars,
                   queue, clientVars, streamBounds>>

(* The client forgets a symbol with the subscription it ends. *)
Drop ==
    /\ stage = "ready" /\ command # <<>> /\ command[1] = "unsubscribe"
    /\ symbols' = symbols \ command[2]
    /\ lastQuote' = [s \in Symbols |-> IF s \in command[2] THEN 0 ELSE lastQuote[s]]
    /\ failed' = failed \ command[2]
    /\ errors' = [s \in Symbols |-> IF s \in command[2] THEN 0 ELSE errors[s]]
    /\ shown' = [s \in Symbols |-> IF s \in command[2] THEN 0 ELSE shown[s]]
    /\ command' = <<>>
    /\ UNCHANGED <<stateVars, terminalVars, stage, reading, pollVars, queue, streamBounds>>
-----------------------------------------------------------------------------
Terminal ==
    \/ OutageBegins \/ OutageEnds
    \/ \E s \in Symbols : QuoteMoves(s) \/ Attach(s) \/ Detach(s) \/ GoStale(s)

Client ==
    \/ HangUp \/ StopReading
    \/ \E names \in Requests :
          \/ \E ea \in BOOLEAN : Open(names, ea)
          \/ \E act \in {"subscribe", "unsubscribe"} : Receive(act, names)

PumpTicks ==
    \/ BeginPass \/ Ask \/ NoteFailure \/ SendQuote
    \/ \E s \in Symbols : Poll(s)

PumpState == AskPositions \/ SendPositions

Commands == Follow \/ Drop

StreamNext ==
    \/ Terminal \/ PositionsMove
    \/ Client \/ Relay \/ PumpTicks \/ PumpState \/ Commands

StreamSpec == StreamInit /\ [][StreamNext]_streamVars

(* The event loop runs each of its tasks, an outage ends, and the clock    *)
(* reaches STALE_AFTER for a symbol that moves no more.                    *)
StreamFairSpec ==
    /\ StreamSpec
    /\ WF_streamVars(Relay) /\ WF_streamVars(PumpTicks)
    /\ WF_streamVars(PumpState) /\ WF_streamVars(Commands)
    /\ WF_streamVars(OutageEnds)
    /\ \A s \in Symbols : WF_streamVars(GoStale(s))
-----------------------------------------------------------------------------
(* Properties.                                                             *)

StreamTypeOK ==
    /\ quote \in [Symbols -> Nat] /\ outage \in BOOLEAN
    /\ attached \subseteq Symbols /\ sources \subseteq Symbols
    /\ stage \in {"new", "ready", "closed"}
    /\ reading \in BOOLEAN
    /\ symbols \subseteq Symbols /\ failed \subseteq Symbols
    /\ lastQuote \in [Symbols -> Nat]
    /\ command \in {<<>>} \cup ({"subscribe", "unsubscribe"} \X SUBSET Symbols)
    /\ command # <<>> => Cardinality(command[2]) <= MaxSymbols
    /\ todo \subseteq Symbols /\ pushed \subseteq Symbols
    /\ polling \in Symbols \cup {Nothing} /\ answer \in Int
    /\ queue \in Seq(Symbols \X Nat)
    /\ shown \in [Symbols -> Nat]
    /\ errors \in [Symbols -> Nat]
    /\ state.last \in {Unsaid, 0, 1} /\ state.got \in {Pending, Unsaid, 0, 1}
    /\ account \in [wants : BOOLEAN, held : {0, 1}, shown : {Unsaid, 0, 1}]
    /\ commands \in Nat /\ outages \in Nat /\ attaches \in Nat

(* A symbol that raises is reported once for each time it is subscribed    *)
(* ("reported once and skipped thereafter").                               *)
ReportedOnce == \A s \in Symbols : errors[s] <= 1

(* Both, as one invariant. *)
StreamSafe == StreamTypeOK /\ ReportedOnce

(* A client that stays is shown the current quote of what it follows, also *)
(* when its EA comes, falls quiet or goes ("the alternative is a symbol    *)
(* that falls silent when its EA goes away"), unless a poll ever raised.   *)
Behind(s) == stage = "ready" /\ reading /\ s \in symbols /\ shown[s] # quote[s]
StaysQuoted == \A s \in Carried : Behind(s) ~> ~Behind(s) \/ s \in failed

(* And the positions as they are, after every outage: a listing that failed*)
(* may be shown as a flat account, but not for good.                       *)
Misinformed == stage = "ready" /\ reading /\ account.wants /\ account.shown # account.held
StaysInformed == Misinformed ~> ~Misinformed

(* Both, as one property. *)
StaysCurrent == StaysQuoted /\ StaysInformed
=============================================================================
