-------------------------------- MODULE Boot --------------------------------
(***************************************************************************)
(* The start of a container, until its API serves.                         *)
(*   entrypoint.sh          removes the marker, settles common.ini         *)
(*   run-mt5.sh             keeps one terminal up                          *)
(*   auto_login.py          types the credentials over VNC                 *)
(*   auto_login_wrapper.sh  follows it through its log, then confirms      *)
(*                          AutoTrading and creates the marker             *)
(*   run-server.sh          waits for the marker, then serves              *)
(* supervisord starts the last four at once, and restarts all of them but  *)
(* the login.  The terminal reads common.ini when it starts and may write  *)
(* it back when it exits.                                                  *)
(***************************************************************************)
EXTENDS Integers

CONSTANTS RequireAlgo,        \* MT5_REQUIRE_ALGO is not "0"
          InitLaunches,       \* mt5.initialize() starts a terminal that is down
          LogTruncatedFirst,  \* the login opens its log before the first grep of it
          MaxBoots,           \* bound: starts of the container
          MaxDeaths,          \* bound: exits of the terminal
          MaxExits            \* bound: exits of programs supervisord restarts

ASSUME BootAssumption ==
    /\ {RequireAlgo, InitLaunches, LogTruncatedFirst} \subseteq BOOLEAN
    /\ {MaxBoots, MaxDeaths, MaxExits} \subseteq Nat

VARIABLES
    terminal,   \* a terminal runs
    switch,     \* its AutoTrading
    ini,        \* [Experts] Enabled in common.ini
    loop,       \* where run-mt5.sh is
    login,      \* where auto_login.py is
    log,        \* what /tmp/auto_login.log says: "nothing", "completed" or "error"
    wrapper,    \* where auto_login_wrapper.sh is
    marker,     \* /tmp/login_complete exists
    server,     \* "waiting" for the marker or "up"
    typed,      \* history: this start's login has run its course
    confirmed,  \* history: this start's wrapper has seen AutoTrading on
    wasted,     \* launches of the loop that found a terminal
    foreign,    \* launches by the server's initialize
    boots, deaths, exits

gui    == <<terminal, switch>>
logins == <<login, log, wrapper, typed, confirmed>>
counts == <<wasted, foreign>>
bounds == <<boots, deaths, exits>>
vars   == <<gui, ini, loop, logins, marker, server, counts, bounds>>

States == {"on", "off"}

Init ==
    /\ terminal = FALSE /\ switch = "off" /\ ini \in States
    /\ loop = "check" /\ login = "none" /\ log = "nothing" /\ wrapper = "vnc"
    /\ marker = FALSE /\ server = "waiting"
    /\ typed = FALSE /\ confirmed = FALSE
    /\ wasted = 0 /\ foreign = 0
    /\ boots = 1 /\ deaths = 0 /\ exits = 0
-----------------------------------------------------------------------------
(* The terminal.                                                           *)

(* What the file may say once the terminal is gone: a clean exit writes    *)
(* the switch back, a kill does not.                                       *)
LeftBehind == IF terminal THEN {ini, switch} ELSE {ini}

StartTerminal ==
    /\ terminal' = TRUE
    /\ switch' = ini

TerminalExits ==
    /\ terminal /\ deaths < MaxDeaths
    /\ deaths' = deaths + 1
    /\ ini' \in LeftBehind
    /\ terminal' = FALSE
    /\ loop' = IF loop = "running" THEN "returned" ELSE loop
    /\ UNCHANGED <<switch, logins, marker, server, counts, boots, exits>>

(* A serving API initialises its library, which launches the executable.   *)
LaunchElsewhere ==
    /\ InitLaunches /\ server = "up" /\ ~terminal
    /\ StartTerminal
    /\ foreign' = foreign + 1
    /\ UNCHANGED <<ini, loop, logins, marker, server, wasted, bounds>>
-----------------------------------------------------------------------------
(* run-mt5.sh.                                                             *)

Check ==
    /\ loop = "check" /\ ~terminal
    /\ loop' = "settle"
    /\ UNCHANGED <<gui, ini, logins, marker, server, counts, bounds>>

(* Fault: the file is settled once, at the install. *)
SettledAlready ==
    /\ loop = "settle"
    /\ loop' = "launch"
    /\ UNCHANGED <<gui, ini, logins, marker, server, counts, bounds>>

(* ensure_algo_ini.py; its failure is never fatal. *)
Settle ==
    /\ loop = "settle"
    /\ \/ ini' = "on" /\ loop' = "launch"
       \/ UNCHANGED ini /\ loop' = "launchAnyway"
    /\ UNCHANGED <<gui, logins, marker, server, counts, bounds>>

(* A second instance exits at once, with the status of a clean shutdown.   *)
Launch ==
    /\ loop \in {"launch", "launchAnyway"}
    /\ IF terminal
       THEN /\ wasted' = wasted + 1
            /\ loop' = "returned"
            /\ UNCHANGED gui
       ELSE /\ StartTerminal
            /\ loop' = "running"
            /\ UNCHANGED wasted
    /\ UNCHANGED <<ini, logins, marker, server, foreign, bounds>>

(* Fault: after the login an exit of the terminal ends the loop. *)
ReturnOnce ==
    /\ loop = "returned" /\ ~marker
    /\ loop' = "check"
    /\ UNCHANGED <<gui, ini, logins, marker, server, counts, bounds>>

Return ==
    /\ loop = "returned"
    /\ loop' = "check"
    /\ UNCHANGED <<gui, ini, logins, marker, server, counts, bounds>>

(* supervisord starts the script again; its terminal lives on. *)
LoopExits ==
    /\ exits < MaxExits
    /\ exits' = exits + 1
    /\ loop' = "check"
    /\ UNCHANGED <<gui, ini, logins, marker, server, counts, boots, deaths>>
-----------------------------------------------------------------------------
(* auto_login.py.                                                          *)

OpenLog ==
    /\ login = "forked"
    /\ log' = "nothing" /\ login' = "typing"
    /\ UNCHANGED <<gui, ini, loop, wrapper, typed, confirmed, marker, server, counts,
                   bounds>>

(* Timed keystrokes: they end the same way whether anyone read them.  The  *)
(* account change may turn AutoTrading off and the presses may turn it.    *)
TypeCredentials ==
    /\ login = "typing"
    /\ login' = "typed" /\ typed' = TRUE
    /\ switch' \in IF terminal THEN States ELSE {switch}
    /\ UNCHANGED <<terminal, ini, loop, log, wrapper, confirmed, marker, server, counts,
                   bounds>>

(* The VNC session is lost; outside the try nothing is said of it. *)
LoginRaises ==
    /\ login = "typing"
    /\ login' = "done"
    /\ log' \in {"error", log}
    /\ UNCHANGED <<gui, ini, loop, wrapper, typed, confirmed, marker, server, counts,
                   bounds>>

LoginMarks ==
    /\ login = "typed"
    /\ marker' = TRUE /\ login' = "marked"
    /\ UNCHANGED <<gui, ini, loop, log, wrapper, typed, confirmed, server, counts, bounds>>

LoginReports ==
    /\ login = "marked"
    /\ log' = "completed" /\ login' = "done"
    /\ UNCHANGED <<gui, ini, loop, wrapper, typed, confirmed, marker, server, counts,
                   bounds>>
-----------------------------------------------------------------------------
(* auto_login_wrapper.sh.                                                  *)

(* The shell's child opens the log, on its own time. *)
SpawnLogin ==
    /\ wrapper = "vnc"
    /\ wrapper' = "watch" /\ login' = "forked"
    /\ UNCHANGED <<gui, ini, loop, log, typed, confirmed, marker, server, counts, bounds>>

Watch(next) ==
    /\ wrapper' = next
    /\ UNCHANGED <<ini, loop, login, log, typed, server, counts, bounds>>

SeeCompleted ==
    /\ wrapper = "watch" /\ log = "completed"
    /\ LogTruncatedFirst => login # "forked"
    /\ Watch("confirm")
    /\ UNCHANGED <<gui, confirmed, marker>>

(* The login said it failed, or 180 s have passed; it is not killed. *)
SeeNoLogin ==
    /\ wrapper = "watch"
    /\ Watch("failed")
    /\ UNCHANGED <<gui, confirmed, marker>>

(* confirm_autotrading: toggle_algo.py found the switch on, or got it on.  *)
Confirm ==
    /\ wrapper = "confirm" /\ terminal
    /\ switch' = "on" /\ confirmed' = TRUE
    /\ Watch("mark")
    /\ UNCHANGED <<terminal, marker>>

(* Three rounds without a verdict, or with a bad one. *)
CannotConfirm ==
    /\ wrapper = "confirm"
    /\ switch' \in IF terminal THEN States ELSE {switch}
    /\ Watch(IF RequireAlgo THEN "failed" ELSE "mark")
    /\ UNCHANGED <<terminal, confirmed, marker>>

Mark ==
    /\ wrapper = "mark"
    /\ marker' = TRUE
    /\ Watch("done")
    /\ UNCHANGED <<gui, confirmed>>
-----------------------------------------------------------------------------
(* run-server.sh, and the container.                                       *)

Serve ==
    /\ server = "waiting" /\ marker
    /\ server' = "up"
    /\ UNCHANGED <<gui, ini, loop, logins, marker, counts, bounds>>

ServerExits ==
    /\ server = "up" /\ exits < MaxExits
    /\ exits' = exits + 1
    /\ server' = "waiting"
    /\ UNCHANGED <<gui, ini, loop, logins, marker, counts, boots, deaths>>

(* Fault: the marker of the last start is kept. *)
EntryPointKeeping == UNCHANGED marker /\ ini' \in LeftBehind \cup {"on"}

(* entrypoint.sh; a common.ini it cannot decode is left alone. *)
EntryPoint == marker' = FALSE /\ ini' \in LeftBehind \cup {"on"}

(* docker restart: every program is killed, /tmp stays. *)
Restart ==
    /\ boots < MaxBoots
    /\ boots' = boots + 1
    /\ EntryPoint
    /\ terminal' = FALSE
    /\ loop' = "check" /\ login' = "none" /\ wrapper' = "vnc" /\ server' = "waiting"
    /\ typed' = FALSE /\ confirmed' = FALSE
    /\ UNCHANGED <<switch, log, counts, deaths, exits>>
-----------------------------------------------------------------------------
Keeper == Check \/ Settle \/ Launch \/ Return
Login == OpenLog \/ TypeCredentials \/ LoginRaises \/ LoginMarks \/ LoginReports
Wrapper == SpawnLogin \/ SeeCompleted \/ SeeNoLogin \/ Confirm \/ CannotConfirm \/ Mark

Next ==
    \/ TerminalExits \/ LaunchElsewhere
    \/ Keeper \/ LoopExits
    \/ Login \/ Wrapper
    \/ Serve \/ ServerExits \/ Restart

Spec == Init /\ [][Next]_vars

(* The loop of run-mt5.sh runs whenever it may: its sleeps are finite.     *)
FairSpec == Spec /\ WF_vars(Keeper)
-----------------------------------------------------------------------------
(* Properties.                                                             *)

TypeOK ==
    /\ terminal \in BOOLEAN /\ switch \in States /\ ini \in States
    /\ loop \in {"check", "settle", "launch", "launchAnyway", "running", "returned"}
    /\ login \in {"none", "forked", "typing", "typed", "marked", "done"}
    /\ log \in {"nothing", "completed", "error"}
    /\ wrapper \in {"vnc", "watch", "confirm", "mark", "failed", "done"}
    /\ marker \in BOOLEAN /\ server \in {"waiting", "up"}
    /\ typed \in BOOLEAN /\ confirmed \in BOOLEAN
    /\ wasted \in Nat /\ foreign \in Nat
    /\ boots \in Nat /\ deaths \in Nat /\ exits \in Nat

(* The API serves only after the login of this start has run, whatever an  *)
(* earlier start left in /tmp (entrypoint.sh removes the marker for it).   *)
ServedAfterLogin == server = "up" => typed

(* ... and only once the wrapper has confirmed AutoTrading, unless told    *)
(* not to require it (the contract run-server.sh states for the marker).   *)
ServedIsConfirmed == server = "up" /\ RequireAlgo => confirmed

(* The loop does not relaunch into a live terminal: a launch is wasted     *)
(* only if somebody else launched one since it last looked.                *)
RelaunchesAreBounded == wasted <= foreign

(* These, as one invariant. *)
Safe == TypeOK /\ ServedAfterLogin /\ RelaunchesAreBounded

(* A terminal the loop launches after settling common.ini comes up with    *)
(* AutoTrading on, as long as nobody else launches terminals.              *)
LaunchTrades ==
    [][loop = "launch" /\ loop' = "running" /\ foreign = 0 => switch' = "on"]_vars

(* A terminal that went away comes back, before the login and after it.    *)
TerminalReturns == ~terminal ~> terminal
=============================================================================
