--------------------------- MODULE Container_proofs ---------------------------
(***************************************************************************)
(* The start of the container, and the tick socket of the API it serves.   *)
(* The two specifications share no name; each theorem is of one of them.   *)
(*                                                                         *)
(* Boot.  However often the container starts, its terminal exits and its   *)
(* programs are restarted, the API serves only after this start's login    *)
(* has run its course, and the loop launches into a live terminal no more  *)
(* often than somebody else launched one.  The first rests on the log:     *)
(* what it says of an earlier start is gone before anyone reads it, so     *)
(* that "completed" is this login's word.                                  *)
(*                                                                         *)
(* Stream.  Whatever the terminal, the client and the pumps do, a symbol   *)
(* is in `failed` before its error is said and is not asked again until it *)
(* is dropped.                                                             *)
(***************************************************************************)
EXTENDS Boot, Stream, TLAPS

(* Whoever may create the marker, or has, comes after the keystrokes. *)
MarkedAfterLogin ==
    /\ server = "up" \/ marker => typed
    /\ wrapper \in {"confirm", "mark"} => typed
    /\ login \in {"typed", "marked"} => typed

(* What the log says, once this login has opened it. *)
LogIsOurs ==
    /\ wrapper = "vnc" <=> login = "none"
    /\ login = "typing" => log # "completed"
    /\ login = "done" /\ log = "completed" => typed

(* A launch that is under way will be wasted where a terminal runs. *)
Launching == loop \in {"settle", "launch", "launchAnyway"} /\ terminal
LaunchesPaired ==
    /\ wasted <= foreign
    /\ Launching => wasted < foreign

(* The two halves of TypeOK, one for each kind of prover. *)
Flags ==
    /\ terminal \in BOOLEAN /\ marker \in BOOLEAN
    /\ typed \in BOOLEAN /\ confirmed \in BOOLEAN
Places ==
    /\ switch \in States /\ ini \in States
    /\ loop \in {"check", "settle", "launch", "launchAnyway", "running", "returned"}
    /\ login \in {"none", "forked", "typing", "typed", "marked", "done"}
    /\ log \in {"nothing", "completed", "error"}
    /\ wrapper \in {"vnc", "watch", "confirm", "mark", "failed", "done"}
    /\ server \in {"waiting", "up"}
    /\ wasted \in Nat /\ foreign \in Nat
    /\ boots \in Nat /\ deaths \in Nat /\ exits \in Nat

IInv == Flags /\ Places /\ MarkedAfterLogin /\ LogIsOurs /\ LaunchesPaired

LEMMA TypeHalves == TypeOK <=> Flags /\ Places
  BY DEF TypeOK, Flags, Places

LEMMA InitIInv == Init => IInv
<1> SUFFICES ASSUME Init
             PROVE  IInv
  OBVIOUS
<1>1. Flags
  BY Zenon DEF Init, Flags
<1>2. Places
  BY DEF Init, Places, States
<1>3. MarkedAfterLogin /\ LogIsOurs
  BY DEF Init, MarkedAfterLogin, LogIsOurs
<1>4. LaunchesPaired
  BY <1>1 DEF Flags, Init, LaunchesPaired, Launching
<1>5. QED
  BY <1>1, <1>2, <1>3, <1>4 DEF IInv

USE DEF gui, logins, counts, bounds

LEMMA FlagsStep == Flags /\ [Next]_vars => Flags'
<1> SUFFICES ASSUME Flags, [Next]_vars
             PROVE  Flags'
  OBVIOUS
<1> USE DEF Flags
<1>1. CASE TerminalExits \/ LaunchElsewhere
  BY <1>1, Zenon DEF TerminalExits, LaunchElsewhere, StartTerminal
<1>2. CASE Keeper \/ LoopExits
  BY <1>2, Zenon DEF Keeper, Check, Settle, Launch, Return, LoopExits, StartTerminal
<1>3. CASE Login
  BY <1>3, Zenon DEF Login, OpenLog, TypeCredentials, LoginRaises, LoginMarks, LoginReports
<1>4. CASE Wrapper
  BY <1>4, Zenon DEF Wrapper, SpawnLogin, SeeCompleted, SeeNoLogin, Confirm, CannotConfirm,
     Mark, Watch
<1>5. CASE Serve \/ ServerExits \/ Restart
  BY <1>5, Zenon DEF Serve, ServerExits, Restart, EntryPoint
<1>6. CASE UNCHANGED vars
  BY <1>6, Zenon DEF vars
<1>7. QED
  BY <1>1, <1>2, <1>3, <1>4, <1>5, <1>6, Zenon DEF Next

LEMMA PlacesStep == Flags /\ Places /\ [Next]_vars => Places'
<1> SUFFICES ASSUME Flags, Places, [Next]_vars
             PROVE  Places'
  OBVIOUS
<1> USE DEF Flags, Places, States
<1>1. CASE TerminalExits \/ LaunchElsewhere
  BY <1>1 DEF TerminalExits, LaunchElsewhere, StartTerminal, LeftBehind
<1>2. CASE Keeper \/ LoopExits
  BY <1>2 DEF Keeper, Check, Settle, Launch, Return, LoopExits, StartTerminal
<1>3. CASE Login
  BY <1>3 DEF Login, OpenLog, TypeCredentials, LoginRaises, LoginMarks, LoginReports
<1>4. CASE Wrapper
  BY <1>4 DEF Wrapper, SpawnLogin, SeeCompleted, SeeNoLogin, Confirm, CannotConfirm, Mark,
     Watch
<1>5. CASE Serve \/ ServerExits \/ Restart
  BY <1>5 DEF Serve, ServerExits, Restart, EntryPoint, LeftBehind
<1>6. CASE UNCHANGED vars
  BY <1>6 DEF vars
<1>7. QED
  BY <1>1, <1>2, <1>3, <1>4, <1>5, <1>6, Zenon DEF Next

(* The marker: only a step of this start's login, or of a wrapper that has *)
(* read this login's log, leads to it.                                     *)
LEMMA MarkedStep ==
    ASSUME LogTruncatedFirst, MarkedAfterLogin, LogIsOurs, Flags, Places, [Next]_vars
    PROVE  MarkedAfterLogin'
<1> USE DEF Flags, MarkedAfterLogin
<1>1. CASE TerminalExits \/ LaunchElsewhere \/ LoopExits
  BY <1>1 DEF TerminalExits, LaunchElsewhere, LoopExits
<1>2. CASE Keeper
  BY <1>2 DEF Keeper, Check, Settle, Launch, Return
<1>3. CASE Login
  BY <1>3 DEF Login, OpenLog, TypeCredentials, LoginRaises, LoginMarks, LoginReports
<1>4. CASE SeeCompleted
  <2>1. typed
    BY <1>4 DEF SeeCompleted, LogIsOurs, Places
  <2>2. QED
    BY <1>4, <2>1 DEF SeeCompleted, Watch
<1>5. CASE SpawnLogin \/ SeeNoLogin \/ Confirm \/ CannotConfirm \/ Mark
  BY <1>5 DEF SpawnLogin, SeeNoLogin, Confirm, CannotConfirm, Mark, Watch
<1>6. CASE Serve \/ ServerExits
  BY <1>6 DEF Serve, ServerExits
<1>7. CASE Restart
  BY <1>7 DEF Restart, EntryPoint
<1>8. CASE UNCHANGED vars
  BY <1>8 DEF vars
<1>9. QED
  BY <1>1, <1>2, <1>3, <1>4, <1>5, <1>6, <1>7, <1>8 DEF Next, Wrapper

LEMMA LogStep ==
    ASSUME LogIsOurs, MarkedAfterLogin, Places, [Next]_vars
    PROVE  LogIsOurs'
<1> USE DEF LogIsOurs
<1>1. CASE TerminalExits \/ LaunchElsewhere \/ LoopExits
  BY <1>1 DEF TerminalExits, LaunchElsewhere, LoopExits
<1>2. CASE Keeper
  BY <1>2 DEF Keeper, Check, Settle, Launch, Return
<1>3. CASE Login
  BY <1>3 DEF Login, OpenLog, TypeCredentials, LoginRaises, LoginMarks, LoginReports,
     MarkedAfterLogin
<1>4. CASE Wrapper
  BY <1>4 DEF Wrapper, SpawnLogin, SeeCompleted, SeeNoLogin, Confirm, CannotConfirm, Mark,
     Watch
<1>5. CASE Serve \/ ServerExits
  BY <1>5 DEF Serve, ServerExits
<1>6. CASE Restart
  BY <1>6 DEF Restart
<1>7. CASE UNCHANGED vars
  BY <1>7 DEF vars
<1>8. QED
  BY <1>1, <1>2, <1>3, <1>4, <1>5, <1>6, <1>7 DEF Next

(* A launch: it looked and found none, so the terminal it meets is one     *)
(* more that somebody else launched.                                       *)
LEMMA LaunchesStep ==
    ASSUME LaunchesPaired, Flags, Places, [Next]_vars
    PROVE  LaunchesPaired'
<1> USE DEF Flags, Places, LaunchesPaired, Launching
<1>1. CASE TerminalExits
  BY <1>1 DEF TerminalExits
<1>2. CASE LaunchElsewhere
  BY <1>2 DEF LaunchElsewhere, StartTerminal
<1>3. CASE Keeper
  BY <1>3 DEF Keeper, Check, Settle, Launch, Return, StartTerminal
<1>4. CASE LoopExits
  BY <1>4 DEF LoopExits
<1>5. CASE Login
  BY <1>5 DEF Login, OpenLog, TypeCredentials, LoginRaises, LoginMarks, LoginReports
<1>6. CASE Wrapper
  BY <1>6 DEF Wrapper, SpawnLogin, SeeCompleted, SeeNoLogin, Confirm, CannotConfirm, Mark,
     Watch
<1>7. CASE Serve \/ ServerExits
  BY <1>7 DEF Serve, ServerExits
<1>8. CASE Restart
  BY <1>8 DEF Restart
<1>9. CASE UNCHANGED vars
  BY <1>9 DEF vars
<1>10. QED
  BY <1>1, <1>2, <1>3, <1>4, <1>5, <1>6, <1>7, <1>8, <1>9 DEF Next

LEMMA IInvStep == LogTruncatedFirst /\ IInv /\ [Next]_vars => IInv'
  BY FlagsStep, PlacesStep, MarkedStep, LogStep, LaunchesStep DEF IInv

LEMMA IInvSafe == IInv => Safe
  BY TypeHalves DEF IInv, Safe, ServedAfterLogin, RelaunchesAreBounded, MarkedAfterLogin,
     LaunchesPaired

(* For any number of starts, exits and deaths: the types, that the API     *)
(* serves only after this start's login, and that the launches wasted on a *)
(* live terminal are no more than those somebody else made.  The login     *)
(* opens its log before the wrapper first reads it.                        *)
THEOREM AlwaysSafe == ASSUME LogTruncatedFirst PROVE Spec => []Safe
  BY InitIInv, IInvStep, IInvSafe, PTL DEF Spec
-----------------------------------------------------------------------------
(* What was settled stays settled until the launch, as only a terminal     *)
(* that exits writes the file: and where nobody else launches, none runs.  *)
IniSettled == loop = "launch" /\ foreign = 0 => ini = "on"

LEMMA IniStep ==
    ASSUME IniSettled, IInv, [Next]_vars
    PROVE  IniSettled'
<1> USE DEF IniSettled
<1>1. CASE TerminalExits
  <2>1. loop = "launch" => foreign # 0
    BY <1>1 DEF TerminalExits, IInv, LaunchesPaired, Launching, Places
  <2>2. QED
    BY <1>1, <2>1 DEF TerminalExits
<1>2. CASE LaunchElsewhere
  BY <1>2 DEF LaunchElsewhere, IInv, Places
<1>3. CASE Keeper
  BY <1>3 DEF Keeper, Check, Settle, Launch, Return
<1>4. CASE LoopExits \/ Restart
  BY <1>4 DEF LoopExits, Restart
<1>5. CASE Login
  BY <1>5 DEF Login, OpenLog, TypeCredentials, LoginRaises, LoginMarks, LoginReports
<1>6. CASE Wrapper
  BY <1>6 DEF Wrapper, SpawnLogin, SeeCompleted, SeeNoLogin, Confirm, CannotConfirm, Mark,
     Watch
<1>7. CASE Serve \/ ServerExits
  BY <1>7 DEF Serve, ServerExits
<1>8. CASE UNCHANGED vars
  BY <1>8 DEF vars
<1>9. QED
  BY <1>1, <1>2, <1>3, <1>4, <1>5, <1>6, <1>7, <1>8 DEF Next

(* Of all steps only a launch of the loop makes it run. *)
LEMMA OnlyLaunchRuns ==
    ASSUME [Next]_vars, loop = "launch", loop' = "running"
    PROVE  Launch
<1>1. CASE TerminalExits \/ LaunchElsewhere \/ LoopExits
  BY <1>1 DEF TerminalExits, LaunchElsewhere, LoopExits
<1>2. CASE Keeper
  BY <1>2 DEF Keeper, Check, Settle, Return
<1>3. CASE Login
  BY <1>3 DEF Login, OpenLog, TypeCredentials, LoginRaises, LoginMarks, LoginReports
<1>4. CASE Wrapper
  BY <1>4 DEF Wrapper, SpawnLogin, SeeCompleted, SeeNoLogin, Confirm, CannotConfirm, Mark,
     Watch
<1>5. CASE Serve \/ ServerExits \/ Restart
  BY <1>5 DEF Serve, ServerExits, Restart
<1>6. CASE UNCHANGED vars
  BY <1>6 DEF vars
<1>7. QED
  BY <1>1, <1>2, <1>3, <1>4, <1>5, <1>6 DEF Next

LEMMA LaunchedOn ==
    ASSUME IInv, IniSettled, [Next]_vars
    PROVE  loop = "launch" /\ loop' = "running" /\ foreign = 0 => switch' = "on"
<1> SUFFICES ASSUME loop = "launch", loop' = "running", foreign = 0
             PROVE  switch' = "on"
  OBVIOUS
<1>1. Launch
  BY OnlyLaunchRuns
<1>2. QED
  BY <1>1 DEF Launch, StartTerminal, IniSettled

(* A launch after common.ini was settled comes up with AutoTrading on, for *)
(* any number of exits and restarts, where nobody else launches terminals. *)
THEOREM LaunchesTrade == ASSUME LogTruncatedFirst PROVE Spec => LaunchTrades
<1>1. Init => IInv /\ IniSettled
  BY InitIInv DEF Init, IniSettled
<1>2. IInv /\ IniSettled /\ [Next]_vars => (IInv /\ IniSettled)'
  BY IInvStep, IniStep
<1>3. IInv /\ IniSettled /\ [Next]_vars
         => (loop = "launch" /\ loop' = "running" /\ foreign = 0 => switch' = "on")
  BY LaunchedOn
<1>4. QED
  BY <1>1, <1>2, <1>3, PTL DEF Spec, LaunchTrades
-----------------------------------------------------------------------------
(* The tick stream socket.                                                 *)

(* What a socket has said of a symbol: nothing, or that it failed, once.   *)
StreamInv ==
    /\ StreamTypeOK
    /\ answer \in Nat \cup {Pending}
    /\ state \in [last : {Unsaid, 0, 1}, got : {Pending, Unsaid, 0, 1}]
    /\ polling \notin failed
    /\ \A s \in Symbols : errors[s] <= (IF s \in failed THEN 1 ELSE 0)

LEMMA StreamStarts == StreamAssumption /\ SymbolsAssumption /\ StreamInit => StreamInv
<1>1. SUFFICES ASSUME StreamInit
               PROVE  StreamInv
  OBVIOUS
<1>2. outage \in BOOLEAN /\ reading \in BOOLEAN
  BY <1>1, Zenon DEF StreamInit
<1>3. queue \in Seq(Symbols \X Nat)
  BY <1>1 DEF StreamInit
<1>4. /\ account \in [wants : BOOLEAN, held : {0, 1}, shown : {Unsaid, 0, 1}]
      /\ state \in [last : {Unsaid, 0, 1}, got : {Pending, Unsaid, 0, 1}]
      /\ state.last = Unsaid /\ state.got = Pending
  BY <1>1 DEF StreamInit, Unsaid, Pending
<1>5. /\ quote \in [Symbols -> Nat] /\ lastQuote \in [Symbols -> Nat]
      /\ shown \in [Symbols -> Nat] /\ errors \in [Symbols -> Nat]
      /\ \A s \in Symbols : errors[s] = 0
  BY <1>1 DEF StreamInit
<1>6. QED
  BY <1>1, <1>2, <1>3, <1>4, <1>5 DEF StreamInit, StreamInv, StreamTypeOK, Pending

(* The terminal moves on its own.                                          *)
LEMMA TerminalStreams ==
    ASSUME StreamInv, StreamAssumption, Terminal PROVE StreamInv'
<1>1. /\ StreamTypeOK /\ quote \in [Symbols -> Nat] /\ queue \in Seq(Symbols \X Nat)
      /\ Carried \subseteq Symbols
  BY DEF StreamInv, StreamTypeOK, StreamAssumption
<1>2. ASSUME UNCHANGED <<stateVars, stage, reading, subVars, command, pollVars, clientVars>>,
             outage' \in BOOLEAN, quote' \in [Symbols -> Nat],
             attached' \subseteq Symbols, sources' \subseteq Symbols,
             queue' \in Seq(Symbols \X Nat),
             commands' \in Nat, outages' \in Nat, attaches' \in Nat
      PROVE  StreamInv'
  <2>1. /\ UNCHANGED <<account, state, stage, reading, symbols, lastQuote, failed, command>>
        /\ UNCHANGED <<todo, pushed, polling, answer, shown, errors>>
    BY <1>2 DEF stateVars, subVars, pollVars, clientVars
  <2>2. /\ reading' \in BOOLEAN /\ stage' \in {"new", "ready", "closed"}
        /\ account' \in [wants : BOOLEAN, held : {0, 1}, shown : {Unsaid, 0, 1}]
    BY <1>1, <2>1, Zenon DEF StreamTypeOK
  <2>3. /\ state' \in [last : {Unsaid, 0, 1}, got : {Pending, Unsaid, 0, 1}]
        /\ state'.last \in {Unsaid, 0, 1} /\ state'.got \in {Pending, Unsaid, 0, 1}
    BY <2>1 DEF StreamInv, StreamTypeOK
  <2>4. /\ command' \in {<<>>} \cup ({"subscribe", "unsubscribe"} \X SUBSET Symbols)
        /\ command' # <<>> => Cardinality(command'[2]) <= MaxSymbols
    BY <1>1, <2>1 DEF StreamTypeOK
  <2>5. StreamTypeOK'
    <3>1. /\ symbols' \subseteq Symbols /\ failed' \subseteq Symbols
          /\ lastQuote' \in [Symbols -> Nat]
          /\ todo' \subseteq Symbols /\ pushed' \subseteq Symbols
          /\ polling' \in Symbols \cup {Nothing} /\ answer' \in Int
          /\ shown' \in [Symbols -> Nat] /\ errors' \in [Symbols -> Nat]
      BY <1>1, <2>1 DEF StreamTypeOK
    <3>2. QED
      BY <1>2, <2>2, <2>3, <2>4, <3>1, Zenon DEF StreamTypeOK
  <2>6. QED
    BY <2>1, <2>3, <2>5 DEF StreamInv, Pending
<1>3. CASE OutageBegins
  <2>1. outage' \in BOOLEAN
    BY <1>3, Zenon DEF OutageBegins
  <2>2. outages' \in Nat
    BY <1>1, <1>3 DEF OutageBegins, StreamTypeOK
  <2>3. QED
    BY <1>1, <1>2, <1>3, <2>1, <2>2 DEF OutageBegins, StreamTypeOK
<1>4. CASE OutageEnds
  <2>1. outage' \in BOOLEAN
    BY <1>4, Zenon DEF OutageEnds
  <2>2. QED
    BY <1>1, <1>2, <1>4, <2>1 DEF OutageEnds, StreamTypeOK, streamBounds
<1>5. ASSUME NEW s \in Symbols, QuoteMoves(s)
      PROVE  StreamInv'
  <2>1. quote' \in [Symbols -> Nat] /\ quote'[s] \in Nat
    BY <1>1, <1>5 DEF QuoteMoves
  <2>2. queue' \in Seq(Symbols \X Nat)
    <3>1. <<s, quote'[s]>> \in Symbols \X Nat
      BY <2>1
    <3>2. CASE queue' = queue
      BY <1>1, <3>2
    <3>3. CASE queue' = Append(queue, <<s, quote'[s]>>)
      BY <1>1, <3>1, <3>3
    <3>4. QED
      BY <1>5, <3>2, <3>3 DEF QuoteMoves
  <2>3. sources' \subseteq Symbols
    BY <1>1, <1>5 DEF QuoteMoves, StreamTypeOK
  <2>4. QED
    BY <1>1, <1>2, <1>5, <2>1, <2>2, <2>3 DEF QuoteMoves, StreamTypeOK, streamBounds
<1>6. ASSUME NEW s \in Symbols, Attach(s) \/ Detach(s) \/ GoStale(s)
      PROVE  StreamInv'
  <2>1. attached' \subseteq Symbols /\ sources' \subseteq Symbols /\ attaches' \in Nat
    <3>1. attached \subseteq Symbols /\ sources \subseteq Symbols /\ attaches \in Nat
      BY <1>1 DEF StreamTypeOK
    <3>2. CASE Attach(s)
      BY <3>1, <3>2 DEF Attach
    <3>3. CASE Detach(s)
      BY <3>1, <3>3 DEF Detach, streamBounds
    <3>4. CASE GoStale(s)
      BY <3>1, <3>4 DEF GoStale, streamBounds
    <3>5. QED
      BY <1>6, <3>2, <3>3, <3>4
  <2>2. /\ UNCHANGED <<stateVars, stage, reading, subVars, command, pollVars, clientVars>>
        /\ UNCHANGED <<quote, outage, queue, commands, outages>>
    BY <1>6 DEF Attach, Detach, GoStale, streamBounds
  <2>3. /\ outage' \in BOOLEAN /\ quote' \in [Symbols -> Nat]
        /\ queue' \in Seq(Symbols \X Nat) /\ commands' \in Nat /\ outages' \in Nat
    BY <1>1, <2>2, Zenon DEF StreamTypeOK
  <2>4. QED
    BY <1>2, <2>1, <2>2, <2>3
<1>7. QED
  BY <1>3, <1>4, <1>5, <1>6 DEF Terminal

(* What is sent leaves the errors as they are.                             *)
LEMMA SendKeeps ==
    ASSUME StreamInv, NEW s \in Symbols, NEW number \in Nat, stage = "ready",
           Send(s, number) \/ SendNothing
    PROVE  /\ stage' \in {"new", "ready", "closed"}
           /\ shown' \in [Symbols -> Nat] /\ errors' = errors
<1>1. stage \in {"new", "ready", "closed"} /\ shown \in [Symbols -> Nat]
  BY DEF StreamInv, StreamTypeOK
<1>2. QED
  BY <1>1 DEF Send, SendNothing, clientVars

LEMMA PumpsStream ==
    ASSUME StreamInv, SymbolsAssumption, Relay \/ PumpTicks
    PROVE  StreamInv'
<1>1. /\ StreamTypeOK /\ queue \in Seq(Symbols \X Nat) /\ answer \in Nat \cup {Pending}
      /\ polling \in Symbols \cup {Nothing} /\ Nothing \notin Symbols
      /\ quote \in [Symbols -> Nat] /\ lastQuote \in [Symbols -> Nat]
      /\ errors \in [Symbols -> Nat] /\ polling \notin failed /\ failed \subseteq Symbols
      /\ \A s \in Symbols : errors[s] <= (IF s \in failed THEN 1 ELSE 0)
  BY DEF StreamInv, StreamTypeOK, SymbolsAssumption
<1>2. CASE Relay
  <2>1. /\ stage = "ready" /\ queue # <<>> /\ queue' = Tail(queue)
        /\ UNCHANGED <<stateVars, terminalVars, reading, subVars, command, pollVars, streamBounds>>
    BY <1>2 DEF Relay
  <2> DEFINE F == Symbols \X Nat
             f == Head(queue)
  <2>2. f \in F /\ queue' \in Seq(F)
    <3>1. queue \in Seq(F)
      BY <1>1
    <3> HIDE DEF F
    <3>2. QED
      BY <2>1, <3>1
  <2>3. f[1] \in Symbols /\ f[2] \in Nat
    BY <2>2
  <2>4. Send(f[1], f[2]) \/ SendNothing
    BY <1>2 DEF Relay
  <2>5. /\ stage' \in {"new", "ready", "closed"}
        /\ shown' \in [Symbols -> Nat] /\ errors' = errors
    <3>1. PICK s \in Symbols : s = f[1]
      BY <2>3
    <3>2. PICK number \in Nat : number = f[2]
      BY <2>3
    <3>3. Send(s, number) \/ SendNothing
      BY <2>4, <3>1, <3>2
    <3>4. QED
      BY <2>1, <3>3, SendKeeps
  <2>6. queue' \in Seq(Symbols \X Nat)
    BY <2>2
  <2> HIDE DEF F, f
  <2>7. /\ UNCHANGED <<account, state, quote, outage, attached, sources, reading, symbols>>
        /\ UNCHANGED <<lastQuote, failed, command, todo, pushed, polling, answer>>
        /\ UNCHANGED <<commands, outages, attaches>>
    BY <2>1 DEF stateVars, terminalVars, subVars, pollVars, streamBounds
  <2>8. /\ outage' \in BOOLEAN /\ reading' \in BOOLEAN
        /\ account' \in [wants : BOOLEAN, held : {0, 1}, shown : {Unsaid, 0, 1}]
        /\ command' \in {<<>>} \cup ({"subscribe", "unsubscribe"} \X SUBSET Symbols)
        /\ command' # <<>> => Cardinality(command'[2]) <= MaxSymbols
    BY <1>1, <2>7, Zenon DEF StreamTypeOK
  <2>9. /\ quote' \in [Symbols -> Nat] /\ attached' \subseteq Symbols
        /\ sources' \subseteq Symbols /\ symbols' \subseteq Symbols
        /\ failed' \subseteq Symbols /\ lastQuote' \in [Symbols -> Nat]
        /\ todo' \subseteq Symbols /\ pushed' \subseteq Symbols
        /\ polling' \in Symbols \cup {Nothing} /\ answer' \in Int
        /\ commands' \in Nat /\ outages' \in Nat /\ attaches' \in Nat
        /\ errors' \in [Symbols -> Nat]
    BY <1>1, <2>5, <2>7, Zenon DEF StreamTypeOK
  <2>10. state'.last \in {Unsaid, 0, 1} /\ state'.got \in {Pending, Unsaid, 0, 1}
    BY <1>1, <2>7, Zenon DEF StreamTypeOK
  <2>11. StreamTypeOK'
    BY <2>5, <2>6, <2>8, <2>9, <2>10, Zenon DEF StreamTypeOK
  <2>12. QED
    BY <1>1, <2>5, <2>7, <2>11 DEF StreamInv
<1>3. CASE BeginPass
  BY <1>1, <1>3 DEF BeginPass, StreamInv, StreamTypeOK, stateVars, terminalVars, subVars,
                    clientVars, streamBounds
<1>4. ASSUME NEW s \in Symbols, Poll(s)
      PROVE  StreamInv'
  <2>1. polling' \in Symbols \cup {Nothing} /\ polling' \notin failed
    BY <1>1, <1>4 DEF Poll
  <2>2. QED
    BY <1>1, <1>4, <2>1 DEF Poll, StreamInv, StreamTypeOK, stateVars, terminalVars, subVars,
                            clientVars, streamBounds
<1>5. CASE Ask
  <2>1. answer' \in Nat
    BY <1>1, <1>5 DEF Ask, Raised
  <2>2. QED
    BY <1>1, <1>5, <2>1 DEF Ask, StreamInv, StreamTypeOK, stateVars, terminalVars, subVars,
                            clientVars, streamBounds
<1>6. CASE NoteFailure
  <2>1. polling \in Symbols /\ polling' = Nothing /\ answer' = Pending
    BY <1>1, <1>6 DEF NoteFailure, Polled
  <2>2. PICK s \in Symbols : s = polling
    BY <2>1
  <2>3. PICK d \in {0, 1} : errors' = [errors EXCEPT ![s] = @ + d]
    BY <1>6, <2>2 DEF NoteFailure
  <2>4. failed' = failed \cup {s} /\ errors[s] = 0
    BY <1>1, <1>6, <2>2 DEF NoteFailure
  <2>5. errors' \in [Symbols -> Nat] /\ errors'[s] <= 1
        /\ \A r \in Symbols \ {s} : errors'[r] = errors[r]
    BY <1>1, <2>3, <2>4
  <2>6. \A r \in Symbols : errors'[r] <= (IF r \in failed' THEN 1 ELSE 0)
    BY <1>1, <2>4, <2>5
  <2>7. polling' \notin failed' /\ failed' \subseteq Symbols
    BY <1>1, <2>1, <2>4
  <2>8. /\ UNCHANGED <<stateVars, terminalVars, stage, reading, symbols, lastQuote, command,
                       todo, pushed, queue, shown, streamBounds>>
    BY <1>6 DEF NoteFailure
  <2>9. QED
    BY <1>1, <2>1, <2>5, <2>6, <2>7, <2>8
       DEF StreamInv, StreamTypeOK, stateVars, terminalVars, streamBounds, Pending
<1>7. CASE SendQuote
  <2>1. /\ polling \in Symbols /\ polling' = Nothing /\ answer' = Pending
        /\ answer \in Nat /\ stage = "ready"
        /\ UNCHANGED <<stateVars, terminalVars, reading, symbols, failed, command, todo,
                       pushed, queue, streamBounds>>
    BY <1>1, <1>7 DEF SendQuote, Polled
  <2>2. lastQuote' \in [Symbols -> Nat]
    BY <1>1, <1>7, <2>1 DEF SendQuote
  <2>3. Send(polling, answer) \/ SendNothing
    BY <1>7 DEF SendQuote
  <2>4. /\ stage' \in {"new", "ready", "closed"}
        /\ shown' \in [Symbols -> Nat] /\ errors' = errors
    <3>1. PICK s \in Symbols : s = polling
      BY <2>1
    <3>2. PICK number \in Nat : number = answer
      BY <2>1
    <3>3. Send(s, number) \/ SendNothing
      BY <2>3, <3>1, <3>2
    <3>4. QED
      BY <2>1, <3>3, SendKeeps
  <2>5. QED
    BY <1>1, <2>1, <2>2, <2>4
       DEF StreamInv, StreamTypeOK, stateVars, terminalVars, streamBounds, Pending
<1>8. QED
  BY <1>2, <1>3, <1>4, <1>5, <1>6, <1>7 DEF PumpTicks

LEMMA AccountStreams ==
    ASSUME StreamInv, PositionsMove \/ PumpState
    PROVE  StreamInv'
<1> DEFINE Accounts == [wants : BOOLEAN, held : {0, 1}, shown : {Unsaid, 0, 1}]
           Digests == [last : {Unsaid, 0, 1}, got : {Pending, Unsaid, 0, 1}]
<1>1. /\ StreamTypeOK /\ account \in Accounts /\ state \in Digests
      /\ account.held \in {0, 1} /\ state.last \in {Unsaid, 0, 1}
      /\ state.got \in {Pending, Unsaid, 0, 1}
  BY DEF StreamInv, StreamTypeOK
<1>2. ASSUME account' \in Accounts, state' \in Digests, stage' \in {"new", "ready", "closed"},
             UNCHANGED <<terminalVars, reading, subVars, command, pollVars, queue, clientVars,
                         streamBounds>>
      PROVE  StreamInv'
  <2>1. state'.last \in {Unsaid, 0, 1} /\ state'.got \in {Pending, Unsaid, 0, 1}
    BY <1>2
  <2>2. QED
    BY <1>1, <1>2, <2>1
       DEF StreamInv, StreamTypeOK, terminalVars, subVars, pollVars, clientVars, streamBounds
<1>3. stage \in {"new", "ready", "closed"}
  BY <1>1 DEF StreamTypeOK
<1>4. CASE PositionsMove
  <2>1. PICK h \in {0, 1} : h = 1 - account.held
    BY <1>1
  <2>2. account' = [account EXCEPT !.held = h]
    BY <1>4, <2>1 DEF PositionsMove
  <2>3. account' \in Accounts
    BY <1>1, <2>2
  <2> HIDE DEF Accounts, Digests
  <2>4. QED
    BY <1>1, <1>2, <1>3, <1>4, <2>3 DEF PositionsMove
<1>5. CASE AskPositions
  <2>1. PICK got \in {Unsaid, 0, 1} : state' = [state EXCEPT !.got = got]
    BY <1>1, <1>5 DEF AskPositions
  <2>2. state' \in Digests
    BY <1>1, <2>1
  <2> HIDE DEF Accounts, Digests
  <2>3. QED
    BY <1>1, <1>2, <1>3, <1>5, <2>2 DEF AskPositions
<1>6. CASE SendPositions
  <2>1. PICK got \in {Unsaid, 0, 1} : got = state.got
    BY <1>1, <1>6 DEF SendPositions
  <2>2. PICK last \in {Unsaid, 0, 1} : last = IF News(got) THEN got ELSE state.last
    BY <1>1, <2>1
  <2>3. state' = [last |-> last, got |-> Pending]
    BY <1>6, <2>1, <2>2 DEF SendPositions
  <2>4. state' \in Digests
    BY <2>3
  <2>5. account' = account \/ account' = [account EXCEPT !.shown = got]
    BY <1>6, <2>1 DEF SendPositions
  <2>6. account' \in Accounts
    BY <1>1, <2>5
  <2>7. stage' \in {"new", "ready", "closed"}
    BY <1>3, <1>6 DEF SendPositions
  <2> HIDE DEF Accounts, Digests
  <2>8. QED
    BY <1>1, <1>2, <1>6, <2>4, <2>6, <2>7 DEF SendPositions
<1>7. QED
  BY <1>4, <1>5, <1>6 DEF PumpState

LEMMA ClientStreams ==
    ASSUME StreamInv, Client \/ Commands
    PROVE  StreamInv'
<1> DEFINE Acts == {<<>>} \cup ({"subscribe", "unsubscribe"} \X SUBSET Symbols)
<1>1. /\ StreamTypeOK /\ symbols \subseteq Symbols /\ failed \subseteq Symbols
      /\ lastQuote \in [Symbols -> Nat] /\ shown \in [Symbols -> Nat]
      /\ errors \in [Symbols -> Nat] /\ polling \notin failed
      /\ \A s \in Symbols : errors[s] <= (IF s \in failed THEN 1 ELSE 0)
      /\ command \in Acts
  BY DEF StreamInv, StreamTypeOK
<1>2. \A names \in Requests : names \in SUBSET Symbols /\ Cardinality(names) <= MaxSymbols
  BY DEF Requests
<1>3. CASE HangUp
  BY <1>1, <1>3 DEF HangUp, StreamInv, StreamTypeOK, stateVars, terminalVars, subVars, pollVars,
                    clientVars, streamBounds
<1>4. CASE StopReading
  <2>1. reading' \in BOOLEAN
    BY <1>4, Zenon DEF StopReading
  <2>2. QED
    BY <1>1, <1>4, <2>1 DEF StopReading, StreamInv, StreamTypeOK, stateVars, terminalVars, subVars,
                            pollVars, clientVars, streamBounds
<1>5. ASSUME NEW names \in Requests, NEW ea \in BOOLEAN, Open(names, ea)
      PROVE  StreamInv'
  <2>1. symbols' \subseteq Symbols /\ stage' \in {"new", "ready", "closed"}
    BY <1>2, <1>5 DEF Open
  <2>2. UNCHANGED <<stateVars, terminalVars, reading, lastQuote, failed, command, pollVars,
                    queue, clientVars, streamBounds>>
    BY <1>5 DEF Open
  <2> HIDE DEF Acts
  <2>3. QED
    BY <1>1, <2>1, <2>2 DEF StreamInv, StreamTypeOK, stateVars, terminalVars, pollVars,
                                  clientVars, streamBounds
<1>6. ASSUME NEW names \in Requests, NEW act \in {"subscribe", "unsubscribe"},
             Receive(act, names)
      PROVE  StreamInv'
  <2>1. names \in SUBSET Symbols /\ Cardinality(names) <= MaxSymbols
    BY <1>2
  <2>2. command' \in Acts /\ (command' # <<>> => Cardinality(command'[2]) <= MaxSymbols)
    <3>1. <<act, names>> \in {"subscribe", "unsubscribe"} \X SUBSET Symbols
      BY <2>1
    <3>2. command' = <<act, names>> /\ <<act, names>>[2] = names
      BY <1>6 DEF Receive
    <3>3. QED
      BY <2>1, <3>1, <3>2
  <2>3. /\ commands' \in Nat
        /\ UNCHANGED <<stateVars, terminalVars, stage, reading, subVars, pollVars, queue,
                       clientVars, outages, attaches>>
    BY <1>1, <1>6 DEF Receive, StreamTypeOK
  <2>4. /\ UNCHANGED <<account, state, quote, outage, attached, sources, reading, symbols>>
        /\ UNCHANGED <<lastQuote, failed, stage, todo, pushed, polling, answer, queue>>
        /\ UNCHANGED <<shown, errors, outages, attaches>>
    BY <2>3 DEF stateVars, terminalVars, subVars, pollVars, clientVars
  <2>5. StreamTypeOK'
    <3>1. /\ quote' \in [Symbols -> Nat] /\ outage' \in BOOLEAN
          /\ attached' \subseteq Symbols /\ sources' \subseteq Symbols
          /\ symbols' \subseteq Symbols /\ failed' \subseteq Symbols
          /\ lastQuote' \in [Symbols -> Nat]
      BY <1>1, <2>4, Zenon DEF StreamTypeOK
    <3>2. /\ stage' \in {"new", "ready", "closed"} /\ reading' \in BOOLEAN
          /\ todo' \subseteq Symbols /\ pushed' \subseteq Symbols
          /\ polling' \in Symbols \cup {Nothing} /\ answer' \in Int
          /\ queue' \in Seq(Symbols \X Nat)
      BY <1>1, <2>3, <2>4, Zenon DEF StreamTypeOK
    <3>3. /\ shown' \in [Symbols -> Nat] /\ errors' \in [Symbols -> Nat]
          /\ state'.last \in {Unsaid, 0, 1} /\ state'.got \in {Pending, Unsaid, 0, 1}
          /\ account' \in [wants : BOOLEAN, held : {0, 1}, shown : {Unsaid, 0, 1}]
      BY <1>1, <2>4, Zenon DEF StreamTypeOK
    <3>4. commands' \in Nat /\ outages' \in Nat /\ attaches' \in Nat
      BY <1>1, <2>3, <2>4, Zenon DEF StreamTypeOK
    <3>5. QED
      BY <2>2, <3>1, <3>2, <3>3, <3>4, Zenon DEF StreamTypeOK
  <2>6. QED
    BY <1>1, <2>4, <2>5 DEF StreamInv
<1>7. ASSUME command # <<>>
      PROVE  command[2] \subseteq Symbols
  BY <1>1, <1>7
<1>8. CASE Follow
  <2>1. symbols' \subseteq Symbols /\ command' = <<>>
    BY <1>1, <1>7, <1>8 DEF Follow
  <2>2. QED
    BY <1>1, <1>8, <2>1 DEF Follow, StreamInv, StreamTypeOK, stateVars, terminalVars, pollVars,
                            clientVars, streamBounds
<1>9. CASE Drop
  <2>1. PICK names \in SUBSET Symbols : names = command[2]
    BY <1>7, <1>9 DEF Drop
  <2>2. /\ symbols' = symbols \ names /\ failed' = failed \ names /\ command' = <<>>
        /\ lastQuote' = [s \in Symbols |-> IF s \in names THEN 0 ELSE lastQuote[s]]
        /\ errors' = [s \in Symbols |-> IF s \in names THEN 0 ELSE errors[s]]
        /\ shown' = [s \in Symbols |-> IF s \in names THEN 0 ELSE shown[s]]
        /\ UNCHANGED <<stateVars, terminalVars, stage, reading, pollVars, queue, streamBounds>>
    BY <1>9, <2>1 DEF Drop
  <2>3. /\ lastQuote' \in [Symbols -> Nat] /\ errors' \in [Symbols -> Nat]
        /\ shown' \in [Symbols -> Nat]
    BY <1>1, <2>2
  <2>4. \A s \in Symbols : errors'[s] <= (IF s \in failed' THEN 1 ELSE 0)
    BY <1>1, <2>2
  <2>5. QED
    BY <1>1, <2>2, <2>3, <2>4 DEF StreamInv, StreamTypeOK, stateVars, terminalVars, pollVars,
                                  streamBounds
<1>10. QED
  BY <1>3, <1>4, <1>5, <1>6, <1>8, <1>9 DEF Client, Commands

(* The types of a socket, and: it reports a symbol that raises once for    *)
(* each time it is followed (_pump_ticks, Subscription.drop).              *)
THEOREM AlwaysReportedOnce ==
    ASSUME StreamAssumption, SymbolsAssumption
    PROVE  StreamSpec => []StreamSafe
<1>1. StreamInit => StreamInv
  BY StreamStarts
<1>2. StreamInv /\ [StreamNext]_streamVars => StreamInv'
  <2>1. ASSUME StreamInv, UNCHANGED streamVars
        PROVE  StreamInv'
    BY <2>1 DEF StreamInv, StreamTypeOK, streamVars, stateVars, terminalVars, subVars, pollVars,
                clientVars, streamBounds
  <2>2. QED
    BY <2>1, TerminalStreams, PumpsStream, AccountStreams, ClientStreams DEF StreamNext
<1>3. StreamInv => StreamSafe
  <2>1. SUFFICES ASSUME StreamInv
                 PROVE  ReportedOnce
    BY DEF StreamSafe, StreamInv
  <2>2. /\ errors \in [Symbols -> Nat]
        /\ \A s \in Symbols : errors[s] <= (IF s \in failed THEN 1 ELSE 0)
    BY <2>1 DEF StreamInv, StreamTypeOK
  <2>3. QED
    BY <2>2 DEF ReportedOnce
<1>4. QED
  BY <1>1, <1>2, <1>3, PTL DEF StreamSpec
=============================================================================
