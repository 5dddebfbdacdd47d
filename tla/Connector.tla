----------------------------- MODULE Connector -----------------------------
(***************************************************************************)
(* The bridge's connection to the terminal (services/connector.py):        *)
(* requests, each on a thread of the server's pool, ask initialize(); it   *)
(* starts one background thread that calls mt5.initialize, holds a refusal *)
(* no restart can fix for FATAL_RETRY_AFTER, and kills the process on one  *)
(* a restart might.  POST /terminal/disconnect (routers/terminal.py) also  *)
(* writes the connector's flag.                                            *)
(*                                                                         *)
(* Only _start_init holds the lock: every read and write of a flag is a    *)
(* step of its own, and the order of the steps is the order of the lines.  *)
(***************************************************************************)
EXTENDS Integers

CONSTANTS Requests,         \* threads of the server's pool
          Inits,            \* identities of background init threads
          MaxDisconnects,   \* bound: disconnect requests
          MaxDeaths,        \* bound: deaths of the terminal
          MaxWedges         \* bound: times its IPC pipe wedges

NoOne == "nobody"
ASSUME RequestsAssumption == NoOne \notin Requests
ASSUME BoundsAssumption == {MaxDisconnects, MaxDeaths, MaxWedges} \subseteq Nat

VARIABLES
  \* the world outside the process
    marker,         \* LOGIN_MARKER exists
    terminal,       \* a terminal runs
    wedged,         \* its IPC pipe is wedged
    loginValid,     \* it accepts the configured login
    attached,       \* the MetaTrader5 package holds a connection
  \* the connector; server is the process it lives in
    server,
    initialized, initializing, ipcFailures,
    lastError,      \* the kind of refusal, "none" before one
    recent,         \* less than FATAL_RETRY_AFTER since _last_error_at
    lock,
  \* the threads
    pc,             \* [Requests -> places in initialize() or disconnect()]
    init,           \* [Inits -> places in _do_initialize]
    answer,         \* [Inits -> what the terminal refused with]
    heldOff,        \* such a refusal, met by no request past its check (history)
    disconnects, deaths, wedges

worldVars == <<marker, terminal, wedged, loginValid>>
errorVars == <<lastError, recent, heldOff>>
flagVars  == <<initialized, initializing, ipcFailures>>
bounds    == <<disconnects, deaths, wedges>>
vars == <<worldVars, attached, server, flagVars, errorVars, lock, pc, init, answer,
          bounds>>

MaxIpcRetries == 1          \* MAX_IPC_RETRIES

Init ==
    /\ marker = FALSE /\ terminal = TRUE /\ wedged = FALSE
    /\ loginValid \in BOOLEAN
    /\ attached = FALSE /\ server = TRUE
    /\ initialized = FALSE /\ initializing = FALSE /\ ipcFailures = 0
    /\ lastError = "none" /\ recent = FALSE /\ heldOff = FALSE
    /\ lock = NoOne
    /\ pc = [r \in Requests |-> "idle"]
    /\ init = [t \in Inits |-> "free"]
    /\ answer = [t \in Inits |-> "none"]
    /\ disconnects = 0 /\ deaths = 0 /\ wedges = 0
-----------------------------------------------------------------------------
(* The world.                                                              *)

LoginCompletes ==
    /\ ~marker
    /\ marker' = TRUE
    /\ UNCHANGED <<terminal, wedged, loginValid, attached, server, flagVars,
                   errorVars, lock, pc, init, answer, bounds>>

(* An operator corrects the login in the GUI. *)
LoginFixed ==
    /\ ~loginValid
    /\ loginValid' = TRUE
    /\ UNCHANGED <<marker, terminal, wedged, attached, server, flagVars,
                   errorVars, lock, pc, init, answer, bounds>>

TerminalDies ==
    /\ terminal /\ deaths < MaxDeaths
    /\ deaths' = deaths + 1
    /\ terminal' = FALSE /\ wedged' = FALSE /\ attached' = FALSE
    /\ UNCHANGED <<marker, loginValid, server, flagVars, errorVars, lock, pc,
                   init, answer, disconnects, wedges>>

(* run-mt5.sh launches a terminal when none runs. *)
TerminalLaunched ==
    /\ ~terminal
    /\ terminal' = TRUE
    /\ UNCHANGED <<marker, wedged, loginValid, attached, server, flagVars,
                   errorVars, lock, pc, init, answer, bounds>>

PipeWedges ==
    /\ terminal /\ ~wedged /\ wedges < MaxWedges
    /\ wedges' = wedges + 1
    /\ wedged' = TRUE /\ attached' = FALSE
    /\ UNCHANGED <<marker, terminal, loginValid, server, flagVars, errorVars,
                   lock, pc, init, answer, disconnects, deaths>>

(* FATAL_RETRY_AFTER passes since _last_error_at. *)
MinutePasses ==
    /\ recent \/ heldOff
    /\ recent' = FALSE /\ heldOff' = FALSE
    /\ UNCHANGED <<worldVars, attached, server, flagVars, lastError, lock, pc,
                   init, answer, bounds>>

(* supervisord runs run-server.sh again, which waits for the marker. *)
ServerStarts ==
    /\ ~server /\ marker
    /\ server' = TRUE
    /\ UNCHANGED <<worldVars, attached, flagVars, errorVars, lock, pc, init,
                   answer, bounds>>
-----------------------------------------------------------------------------
(* A request in initialize().  One that raises or returns is idle again.   *)

At(r, place) == server /\ pc[r] = place
Goto(r, place) == pc' = [pc EXCEPT ![r] = place]
OnlyPc == UNCHANGED <<worldVars, attached, server, flagVars, errorVars, lock,
                      init, answer, bounds>>

Ask(r) == At(r, "idle") /\ Goto(r, "initialized?") /\ OnlyPc

ReadInitialized(r) ==
    /\ At(r, "initialized?")
    /\ Goto(r, IF initialized THEN "idle" ELSE "initializing?")
    /\ OnlyPc

(* Also reads the marker: it is never removed while a server runs. *)
ReadInitializing(r) ==
    /\ At(r, "initializing?")
    /\ Goto(r, IF initializing \/ ~marker THEN "idle" ELSE "refused?")
    /\ OnlyPc

(* Faults: the hold never ends; there is none. *)
HoldLatched == TRUE
HoldSkipped == FALSE

(* The refusal is younger than FATAL_RETRY_AFTER. *)
Hold == recent

ReadRefusal(r) ==
    /\ At(r, "refused?")
    /\ Goto(r, IF lastError # "fatal" THEN "start"
               ELSE IF Hold THEN "quote" ELSE "forget")
    /\ OnlyPc

(* code, message = self._last_error, and the raise that quotes them. *)
Quote(r) == At(r, "quote") /\ Goto(r, "idle") /\ OnlyPc

ForgetRefusal(r) ==
    /\ At(r, "forget")
    /\ lastError' = "none"
    /\ ipcFailures' = 0
    /\ Goto(r, "start")
    /\ UNCHANGED <<worldVars, attached, server, initialized, initializing, recent,
                   heldOff, lock, init, answer, bounds>>

(* Fault: nobody waits for the lock. *)
TakeNoLock(r) ==
    /\ At(r, "start")
    /\ Goto(r, IF initialized THEN "unlock" ELSE "recheck")
    /\ OnlyPc

(* _start_init: under the lock the flags are read one after the other. *)
TakeLock(r) ==
    /\ At(r, "start") /\ lock = NoOne
    /\ lock' = r
    /\ Goto(r, IF initialized THEN "unlock" ELSE "recheck")
    /\ UNCHANGED <<worldVars, attached, server, flagVars, errorVars, init, answer,
                   bounds>>

Recheck(r) ==
    /\ At(r, "recheck")
    /\ Goto(r, IF initializing \/ ~marker THEN "unlock" ELSE "launch")
    /\ OnlyPc

Launch(r) ==
    /\ At(r, "launch")
    /\ initializing' = TRUE
    /\ \E t \in Inits : init[t] = "free" /\ init' = [init EXCEPT ![t] = "calling"]
    /\ Goto(r, "unlock")
    /\ UNCHANGED <<worldVars, attached, server, initialized, ipcFailures, errorVars,
                   lock, answer, bounds>>

Unlock(r) ==
    /\ At(r, "unlock")
    /\ lock' = NoOne
    /\ Goto(r, "idle")
    /\ UNCHANGED <<worldVars, attached, server, flagVars, errorVars, init, answer,
                   bounds>>

(* POST /terminal/disconnect: mt5.shutdown, then the flag. *)
Shutdown(r) ==
    /\ At(r, "idle") /\ disconnects < MaxDisconnects
    /\ disconnects' = disconnects + 1
    /\ attached' = FALSE
    /\ Goto(r, "shut")
    /\ UNCHANGED <<worldVars, server, flagVars, errorVars, lock, init, answer, deaths,
                   wedges>>

ClearInitialized(r) ==
    /\ At(r, "shut")
    /\ initialized' = FALSE
    /\ Goto(r, "idle")
    /\ UNCHANGED <<worldVars, attached, server, initializing, ipcFailures, errorVars,
                   lock, init, answer, bounds>>
-----------------------------------------------------------------------------
(* The init thread, _do_initialize.                                        *)

Running(t, place) == server /\ init[t] = place
Step(t, place) == init' = [init EXCEPT ![t] = place]

(* mt5.initialize, without and then with credentials. *)
CallSucceeds(t) ==
    /\ Running(t, "calling")
    /\ terminal /\ ~wedged /\ loginValid
    /\ attached' = TRUE
    /\ Step(t, "connected")
    /\ UNCHANGED <<worldVars, server, flagVars, errorVars, lock, pc, answer, bounds>>

(* ... and last_error: a rejected login is fatal, no pipe is not. *)
CallRefused(t) ==
    /\ Running(t, "calling")
    /\ ~terminal \/ wedged \/ ~loginValid
    /\ answer' = [answer EXCEPT ![t] = IF terminal /\ ~wedged THEN "fatal" ELSE "ipc"]
    /\ Step(t, "refused")
    /\ UNCHANGED <<worldVars, attached, server, flagVars, errorVars, lock, pc, bounds>>

CallRaises(t) ==
    /\ Running(t, "calling")
    /\ ~terminal
    /\ Step(t, "finally")
    /\ UNCHANGED <<worldVars, attached, server, flagVars, errorVars, lock, pc, answer,
                   bounds>>

SetInitialized(t) ==
    /\ Running(t, "connected")
    /\ initialized' = TRUE
    /\ ipcFailures' = 0
    /\ Step(t, "finally")
    /\ UNCHANGED <<worldVars, attached, server, initializing, errorVars, lock, pc,
                   answer, bounds>>

(* Requests that may still act on what they knew before this refusal. *)
Deciding == {"refused?", "forget", "start", "recheck", "launch"}

NoteRefusal(t) ==
    /\ Running(t, "refused")
    /\ ipcFailures' = ipcFailures + 1
    /\ lastError' = answer[t]
    /\ heldOff' = (answer[t] = "fatal" /\ \A r \in Requests : pc[r] \notin Deciding)
    /\ Step(t, "noted")
    /\ UNCHANGED <<worldVars, attached, server, initialized, initializing, recent,
                   lock, pc, answer, bounds>>

(* Fault: a refusal is taken for an IPC failure. *)
RestartAlwaysHelps(kind) == TRUE

(* restart_helps(error_code) *)
RestartHelps(kind) == kind # "fatal"

StampRefusal(t) ==
    /\ Running(t, "noted")
    /\ recent' = TRUE
    /\ Step(t, IF RestartHelps(answer[t]) /\ ipcFailures >= MaxIpcRetries
               THEN "exit" ELSE "finally")
    /\ UNCHANGED <<worldVars, attached, server, flagVars, lastError, heldOff, lock, pc,
                   answer, bounds>>

(* os._exit(1): the process is gone, and with it every thread and flag.    *)
Exit(t) ==
    /\ Running(t, "exit")
    /\ server' = FALSE /\ attached' = FALSE
    /\ initialized' = FALSE /\ initializing' = FALSE /\ ipcFailures' = 0
    /\ lastError' = "none" /\ recent' = FALSE /\ heldOff' = FALSE
    /\ lock' = NoOne
    /\ pc' = [r \in Requests |-> "idle"]
    /\ init' = [u \in Inits |-> "free"]
    /\ answer' = [u \in Inits |-> "none"]
    /\ UNCHANGED <<worldVars, bounds>>

Finally(t) ==
    /\ Running(t, "finally")
    /\ initializing' = FALSE
    /\ answer' = [answer EXCEPT ![t] = "none"]
    /\ Step(t, "free")
    /\ UNCHANGED <<worldVars, attached, server, initialized, ipcFailures, errorVars,
                   lock, pc, bounds>>
-----------------------------------------------------------------------------
RequestNext(r) ==
    \/ ReadInitialized(r) \/ ReadInitializing(r) \/ ReadRefusal(r)
    \/ Quote(r) \/ ForgetRefusal(r) \/ TakeLock(r) \/ Recheck(r) \/ Launch(r)
    \/ Unlock(r) \/ ClearInitialized(r)

InitNext(t) ==
    \/ CallSucceeds(t) \/ CallRefused(t) \/ CallRaises(t) \/ SetInitialized(t)
    \/ NoteRefusal(t) \/ StampRefusal(t) \/ Exit(t) \/ Finally(t)

WorldNext ==
    \/ LoginCompletes \/ LoginFixed \/ TerminalDies \/ TerminalLaunched
    \/ PipeWedges \/ MinutePasses \/ ServerStarts

Next ==
    \/ WorldNext
    \/ \E r \in Requests : Ask(r) \/ Shutdown(r) \/ RequestNext(r)
    \/ \E t \in Inits : InitNext(t)

Spec == Init /\ [][Next]_vars

(* Threads run; supervisord and run-mt5.sh relaunch; time passes; and      *)
(* somebody keeps asking, as trailing_stop_handler does every 20 seconds.  *)
FairSpec ==
    /\ Spec
    /\ \A r \in Requests : WF_vars(RequestNext(r)) /\ WF_vars(Ask(r))
    /\ \A r \in Requests : SF_vars(TakeLock(r))
    /\ \A t \in Inits : WF_vars(InitNext(t))
    /\ WF_vars(ServerStarts) /\ WF_vars(TerminalLaunched) /\ WF_vars(MinutePasses)
-----------------------------------------------------------------------------
(* Properties.                                                             *)

RequestPlaces == {"idle", "initialized?", "initializing?", "refused?", "quote",
                  "forget", "start", "recheck", "launch", "unlock", "shut"}
InitPlaces == {"free", "calling", "connected", "refused", "noted", "exit", "finally"}
Refusals == {"none", "ipc", "fatal"}

TypeOK ==
    /\ marker \in BOOLEAN /\ terminal \in BOOLEAN /\ wedged \in BOOLEAN
    /\ loginValid \in BOOLEAN /\ attached \in BOOLEAN /\ server \in BOOLEAN
    /\ initialized \in BOOLEAN /\ initializing \in BOOLEAN
    /\ ipcFailures \in Nat
    /\ lastError \in Refusals /\ recent \in BOOLEAN /\ heldOff \in BOOLEAN
    /\ lock \in Requests \cup {NoOne}
    /\ pc \in [Requests -> RequestPlaces]
    /\ init \in [Inits -> InitPlaces]
    /\ answer \in [Inits -> Refusals]
    /\ disconnects \in Nat /\ deaths \in Nat /\ wedges \in Nat

(* However requests interleave, at most one thread is inside               *)
(* mt5.initialize, and _initializing is set exactly while one is: a flag   *)
(* left set would refuse every request for ever.                           *)
Active(t) == init[t] # "free"
OneInit ==
    /\ \A t, u \in Inits : Active(t) /\ Active(u) => t = u
    /\ initializing <=> \E t \in Inits : Active(t)

(* A terminal that can be reached and accepts the login ends up connected, *)
(* without anybody restarting anything, even after it refused the login    *)
(* ("fixing the login in the GUI ... is noticed without a restart").  The  *)
(* connection is meant, not the flag that tells of it; only a flag that is *)
(* set already, or about to be for a connection made before, excuses the   *)
(* connector (EnsuresConnected).                                           *)
Ready == marker /\ terminal /\ ~wedged /\ loginValid
Believes == initialized \/ \E t \in Inits : init[t] = "connected"
Connects == (Ready /\ ~Believes) ~> (attached \/ ~Ready)

(* A fatal refusal is believed for FATAL_RETRY_AFTER before the terminal   *)
(* is asked again ("not retried in a hot loop"), by every request that had *)
(* not yet made up its mind when the refusal came.                         *)
Calls == {t \in Inits : init[t] = "calling"}
RefusalIsHeld == [][Calls' \subseteq Calls \/ ~heldOff]_vars

(* initialize: "Ensure MT5 is connected. Returns True or raises": it does  *)
(* not go on returning True for a connection that is gone.                 *)
EnsuresConnected == (initialized /\ ~attached) ~> (attached \/ ~initialized)

(* The server does not die again and again of what a restart cannot fix    *)
(* ("turns a configuration mistake into a restart loop"): once the pipe is *)
(* sound, it stays up.                                                     *)
NoRestartLoop == <>[]~wedged => <>[]server
=============================================================================
