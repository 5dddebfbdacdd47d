---------------------------- MODULE AutoTrading ----------------------------
(***************************************************************************)
(* AutoTrading is a toggle of the terminal's GUI.  Three programs press it *)
(* (Ctrl+E over VNC) and each believes it is setting it:                   *)
(*   POST /terminal/algo-trading   services/algo.py, apply                 *)
(*   the break-glass script        assets/toggle_algo.py, main             *)
(*   the start-up login            assets/auto_login.py,                   *)
(*                                 enable_algo_trading                     *)
(* A press is queued in the GUI and acted on, or lost, later; nothing      *)
(* keeps the programs apart, and nothing says how much later.              *)
(***************************************************************************)
EXTENDS Integers

CONSTANTS Callers,      \* threads of the bridge inside algo.apply
          Scripts,      \* runs of toggle_algo.py
          Logins,       \* runs of auto_login.py
          Wanted,       \* what callers ask for, a subset of {"on", "off"}
          MaxCalls,     \* bound: calls of one caller, runs of one script
          MaxLost,      \* bound: presses that land nowhere
          MaxSilences   \* bound: times terminal_info() stops answering

ASSUME AutoTradingAssumption ==
    /\ Wanted \subseteq {"on", "off"}
    /\ {MaxCalls, MaxLost, MaxSilences} \subseteq Nat
    /\ Callers \cap Scripts = {} /\ (Callers \cup Scripts) \cap Logins = {}

Pressers == Callers \cup Scripts \cup Logins
Attempts == 3                           \* ATTEMPTS, `attempts`

VARIABLES
    switch,     \* trade_allowed, "on" or "off"
    pending,    \* presses the GUI has not acted on
    answering,  \* terminal_info() answers
    logged,     \* the last transition in the terminal's log, or "unknown"
    at,         \* [Pressers -> where it is]
    want,       \* [Pressers -> "on" or "off"]
    tries,      \* [Pressers -> Nat]  attempts used up
    known,      \* [Pressers -> what its last reading said]
    outcome,    \* [Pressers -> "none", "ok" or "failed"]
    misled,     \* [Pressers -> a call that cannot know what its press does] (history)
    calls, lost, silences

gui  == <<switch, pending, answering, logged>>
mine == <<at, want, tries, known, outcome, misled>>
toggleVars == <<gui, mine, calls, lost, silences>>

Flip(state) == IF state = "on" THEN "off" ELSE "on"

(* Where the switch ends up once the GUI has acted on every press. *)
Settled == IF pending % 2 = 0 THEN switch ELSE Flip(switch)

ToggleInit ==
    /\ switch \in {"on", "off"}
    /\ pending = 0 /\ answering = TRUE
    /\ logged \in {"on", "off", "unknown"}
    /\ at = [p \in Pressers |-> "idle"]
    /\ want = [p \in Pressers |-> "on"]
    /\ tries = [p \in Pressers |-> 0]
    /\ known = [p \in Pressers |-> "unknown"]
    /\ outcome = [p \in Pressers |-> "none"]
    /\ misled = [p \in Pressers |-> FALSE]
    /\ calls = [p \in Pressers |-> 0]
    /\ lost = 0 /\ silences = 0
-----------------------------------------------------------------------------
(* The terminal.                                                           *)

Act ==
    /\ pending > 0
    /\ switch' = Flip(switch)
    /\ logged' = Flip(switch)
    /\ pending' = pending - 1
    /\ UNCHANGED <<answering, mine, calls, lost, silences>>

Lose ==
    /\ pending > 0 /\ lost < MaxLost
    /\ pending' = pending - 1
    /\ lost' = lost + 1
    /\ UNCHANGED <<switch, answering, logged, mine, calls, silences>>

FallSilent ==
    /\ answering /\ silences < MaxSilences
    /\ answering' = FALSE
    /\ silences' = silences + 1
    /\ UNCHANGED <<switch, pending, logged, mine, calls, lost>>

AnswerAgain ==
    /\ ~answering
    /\ answering' = TRUE
    /\ UNCHANGED <<switch, pending, logged, mine, calls, lost, silences>>

(* state(): None is not "off". *)
State == IF answering THEN switch ELSE "unknown"

(* What p learns by looking.  algo_trading_state asks a terminal its       *)
(* process never initialised, and is left with the log.                    *)
Reading(p) == IF p \in Logins THEN logged ELSE State

(* The log tells of the last transition, and not of a terminal's start. *)
Outdated(p) == Reading(p) \notin {"unknown", switch}

(* Fault: only "on" is recognised, whichever was asked for. *)
ShowsOn(p) == Reading(p) = "on"

Shows(p) == Reading(p) = want[p]
-----------------------------------------------------------------------------
(* The programs.                                                           *)

Finish(p, result) ==
    /\ at' = [at EXCEPT ![p] = "idle"]
    /\ outcome' = [outcome EXCEPT ![p] = result]
    /\ tries' = [tries EXCEPT ![p] = 0]

Begin(p) ==
    /\ at[p] = "idle" /\ calls[p] < MaxCalls
    /\ calls' = [calls EXCEPT ![p] = @ + 1]
    /\ \E w \in IF p \in Callers THEN Wanted ELSE {"on"} :
          want' = [want EXCEPT ![p] = w]
    /\ at' = [at EXCEPT ![p] = "look"]
    /\ outcome' = [outcome EXCEPT ![p] = "none"]
    /\ misled' = [misled EXCEPT ![p] = pending > 0]
    /\ UNCHANGED <<gui, tries, known, lost, silences>>

(* The attempt is over.  apply presses again as it is, the others look.    *)
Retry(p) ==
    IF tries[p] + 1 < Attempts
    THEN /\ tries' = [tries EXCEPT ![p] = @ + 1]
         /\ at' = [at EXCEPT ![p] = IF p \in Callers THEN "press" ELSE "look"]
         /\ UNCHANGED outcome
    ELSE Finish(p, "failed")

(* Look before pressing. *)
Look(p) ==
    /\ at[p] = "look"
    /\ known' = [known EXCEPT ![p] = Reading(p)]
    /\ misled' = [misled EXCEPT ![p] = @ \/ Outdated(p)]
    /\ \/ /\ Shows(p)
          /\ Finish(p, "ok")
       \/ /\ Reading(p) = "unknown"
          /\ IF p \in Callers THEN Finish(p, "failed") ELSE Retry(p)
       \/ /\ Reading(p) # "unknown" /\ ~Shows(p)
          /\ at' = [at EXCEPT ![p] = "press"]
          /\ UNCHANGED <<tries, outcome>>
    /\ UNCHANGED <<gui, want, calls, lost, silences>>

(* Ctrl+E goes in: any other call it meets, under way or over, may find    *)
(* the switch moved under it, and p itself, if it does not know the state  *)
(* or has a press outstanding.                                             *)
Delivered(p) ==
    /\ pending' = pending + 1
    /\ misled' = [q \in Pressers |->
                     misled[q] \/ q # p \/ known[q] = "unknown" \/ pending > 0]

Press(p) ==
    /\ at[p] = "press"
    /\ Delivered(p)
    /\ at' = [at EXCEPT ![p] = "wait"]
    /\ UNCHANGED <<switch, answering, logged, want, tries, known, outcome, calls,
                   lost, silences>>

(* The VNC session fails, before the key went in or after: the exception   *)
(* ends the call.                                                          *)
PressRaises(p) ==
    /\ at[p] = "press"
    /\ Finish(p, "failed")
    /\ Delivered(p) \/ UNCHANGED <<pending, misled>>
    /\ UNCHANGED <<switch, answering, logged, want, known, calls, lost, silences>>

(* Fault: the press is believed to have worked. *)
ConfirmUnseen(p) ==
    /\ at[p] = "wait"
    /\ Finish(p, "ok")
    /\ UNCHANGED <<gui, want, known, misled, calls, lost, silences>>

(* A poll while waiting that shows what was wanted. *)
Confirm(p) ==
    /\ at[p] = "wait" /\ Shows(p)
    /\ known' = [known EXCEPT ![p] = Reading(p)]
    /\ misled' = [misled EXCEPT ![p] = @ \/ Outdated(p)]
    /\ Finish(p, "ok")
    /\ UNCHANGED <<gui, want, calls, lost, silences>>

(* Fault: it polls without a deadline. *)
WaitForever(p) == FALSE

(* The last poll of WAIT, which the GUI may not have kept to.  The login   *)
(* stops waiting at the first reading that is known, whatever it says.     *)
OutOfPatience(p) == ~Shows(p)

GiveUp(p) ==
    /\ at[p] = "wait" /\ OutOfPatience(p)
    /\ known' = [known EXCEPT ![p] = Reading(p)]
    /\ misled' = [misled EXCEPT ![p] = @ \/ pending > 0 \/ Outdated(p)]
    /\ Retry(p)
    /\ UNCHANGED <<gui, want, calls, lost, silences>>
-----------------------------------------------------------------------------
Runs(p) == Look(p) \/ Press(p) \/ PressRaises(p) \/ Confirm(p) \/ GiveUp(p)

ToggleNext ==
    \/ Act \/ Lose \/ FallSilent \/ AnswerAgain
    \/ \E p \in Pressers : Begin(p) \/ Runs(p)

ToggleSpec == ToggleInit /\ [][ToggleNext]_toggleVars

(* The GUI works through its presses and every program keeps running. *)
ToggleFairSpec ==
    /\ ToggleSpec
    /\ WF_toggleVars(Act)
    /\ \A p \in Pressers : WF_toggleVars(Runs(p))
-----------------------------------------------------------------------------
(* Properties.                                                             *)

ToggleTypeOK ==
    /\ switch \in {"on", "off"} /\ pending \in Nat /\ answering \in BOOLEAN
    /\ logged \in {"on", "off", "unknown"}
    /\ at \in [Pressers -> {"idle", "look", "press", "wait"}]
    /\ want \in [Pressers -> {"on", "off"}]
    /\ tries \in [Pressers -> 0..Attempts-1]
    /\ known \in [Pressers -> {"on", "off", "unknown"}]
    /\ outcome \in [Pressers -> {"none", "ok", "failed"}]
    /\ calls \in [Pressers -> Nat] /\ misled \in [Pressers -> BOOLEAN]
    /\ lost \in Nat /\ silences \in Nat

Pressing(p) == at[p] = "press" /\ at'[p] = "wait"

(* A call that is not misled presses a key only where that moves the       *)
(* switch towards what was asked ("presses only on a genuine mismatch"),   *)
(* counting the presses the GUI has yet to act on: through lost presses,   *)
(* silences and retries, beside any programs that look and do not press.   *)
PressesOnMismatch ==
    [][\A p \in Pressers : Pressing(p) /\ ~misled'[p] => Settled # want[p]]_toggleVars

(* What such a call reported is where the switch stays, until another      *)
(* program presses: no press is left behind that takes it back.            *)
SuccessLasts ==
    \A p \in Pressers :
        at[p] = "idle" /\ outcome[p] = "ok" /\ ~misled[p] => Settled = want[p]

(* "calling it twice is the same as calling it once": where nobody else    *)
(* runs, a success is a switch that stays.                                 *)
SetsIt == \A p \in Pressers : at[p] = "idle" /\ outcome[p] = "ok" => Settled = want[p]

(* Every program comes to an answer, terminal silent or not.               *)
Answers == \A p \in Pressers : (at[p] # "idle") ~> (at[p] = "idle")

(* Both, as one invariant. *)
ToggleSafe == ToggleTypeOK /\ SuccessLasts
=============================================================================
