------------------------------ MODULE Session ------------------------------
(***************************************************************************)
(* One connection of the execution client to the terminal its node         *)
(* launched or was pointed at: opening the transport, the account read     *)
(* that proves it, the refresh that goes on after it, and the reports      *)
(* reconciliation asks for (nautilus_mt5/execution.py), over               *)
(*   "http"  bridge.py, the routes of the API and its services, and        *)
(*   "rpyc"  proxy.py, calls into a terminal's own Python.                 *)
(* Tasks of one loop; a call may be overtaken by the other task's.         *)
(***************************************************************************)
EXTENDS Launcher

CONSTANTS Transports,
          Held, Ours      \* what the account may hold; what has our magic

ASSUME SessionAssumption == Transports \subseteq {"http", "rpyc"} /\ Ours \subseteq Held

VARIABLES
    transport,
    clearIsZero,  \* last_error is 0, not 1, after a call that worked
    lastError,    \* the last call into that terminal failed
    book,         \* positions, or resting orders: reports read both alike
    client,       \* _connect and what came of it
    handle,       \* _client, or _conn with _mt5
    report,       \* one generate_*_reports
    refresh,      \* _refresh_account
    listening,    \* an actor subscribed to the flag
    heard         \* what it was told

session == <<transport, clearIsZero, lastError, book, client, handle, report, refresh,
             listening, heard>>
vars == <<launcher, session>>
config == <<transport, clearIsZero>>

NoReport == [at |-> "idle", rows |-> {}, truth |-> {}, overtaken |-> FALSE]

Init ==
    /\ transport \in Transports /\ clearIsZero \in BOOLEAN
    /\ LauncherInit
    /\ transport = "http" <=> node.at = "new"
    /\ lastError = FALSE /\ book \in SUBSET Held
    /\ client = "down" /\ handle = "closed" /\ report = NoReport /\ refresh = "none"
    /\ listening = FALSE /\ heard = {}

(* Bound: over HTTP the node launches its terminal, over rpyc it is given. *)
Placed == node.at \in {"up", "elsewhere"}
Reachable == box.is = "running" /\ health # "silent"
-----------------------------------------------------------------------------
(* Connecting.  A call into the terminal leaves its mark in last_error.    *)

Marks(failed) == lastError' = IF transport = "rpyc" THEN failed ELSE lastError

Connect ==
    /\ client \in {"down", "failed"} /\ Placed
    /\ client' = IF handle = "closed" THEN "opening" ELSE "account"
    /\ UNCHANGED <<launcher, config, lastError, book, handle, report, refresh, listening, heard>>

(* A session of HTTP is local; a socket of rpyc is dialled.                *)
Open ==
    /\ client = "opening"
    /\ \/ /\ transport = "http"
          /\ handle' = "open" /\ client' = "account"
       \/ /\ transport = "rpyc" /\ Reachable
          /\ handle' = "dialed" /\ client' = "initialize"
       \/ /\ transport = "rpyc"
          /\ client' = "failed" /\ UNCHANGED handle
    /\ UNCHANGED <<launcher, config, lastError, book, report, refresh, listening, heard>>

(* What initialize refuses is closed again; what it raises leaves a handle *)
(* that the next open takes for an open one.                               *)
Initialize ==
    /\ client = "initialize"
    /\ \/ /\ Reachable /\ handle = "dialed"
          /\ handle' = "open" /\ client' = "account" /\ Marks(FALSE)
       \/ handle' = "closed" /\ client' = "failed" /\ Marks(TRUE)
       \/ client' = "failed" /\ UNCHANGED <<handle, lastError>>
    /\ UNCHANGED <<launcher, config, book, report, refresh, listening, heard>>

LinkLost ==
    /\ transport = "rpyc" /\ handle \in {"dialed", "open"}
    /\ handle' = "lost"
    /\ UNCHANGED <<launcher, config, lastError, book, client, report, refresh, listening, heard>>

(* The account is read: "an account query is the broker's answer".         *)
Account ==
    /\ client = "account"
    /\ \/ Reachable /\ handle = "open" /\ client' = "flag" /\ Marks(FALSE)
       \/ client' = "failed" /\ lastError' \in {lastError, transport = "rpyc"}
    /\ UNCHANGED <<launcher, config, book, handle, report, refresh, listening, heard>>

(* can_trade; the proxy has none, which reads as a flag nobody could read. *)
CheckTrading ==
    \/ /\ transport = "http" /\ Reachable
       /\ heard' = IF listening THEN {trades} ELSE heard
    \/ UNCHANGED heard

FirstFlag ==
    /\ client = "flag"
    /\ CheckTrading
    /\ client' = "up" /\ refresh' = "sleeping"
    /\ UNCHANGED <<launcher, config, lastError, book, handle, report, listening>>

(* A report that is under way meets a closed session, and raises.          *)
Disconnect ==
    /\ client # "down"
    /\ client' = "down" /\ handle' = "closed" /\ refresh' = "none"
    /\ report' = IF report.at = "idle" THEN report ELSE [NoReport EXCEPT !.at = "raised"]
    /\ UNCHANGED <<launcher, config, lastError, book, listening, heard>>
-----------------------------------------------------------------------------
(* _refresh_account, every ACCOUNT_REFRESH_S: the account, then the flag.  *)

Wake ==
    /\ refresh = "sleeping" /\ refresh' = "account"
    /\ UNCHANGED <<launcher, config, lastError, book, client, handle, report, listening, heard>>

RefreshAccount ==
    /\ refresh = "account"
    /\ \/ /\ Reachable /\ handle = "open"
          /\ refresh' = "flag" /\ Marks(FALSE)
          /\ report' = [report EXCEPT !.overtaken = (@ \/ report.at = "none")]
       \/ refresh' = "sleeping" /\ UNCHANGED <<lastError, report>>
    /\ UNCHANGED <<launcher, config, book, client, handle, listening, heard>>

(* Fault: the flag is read on connect only. *)
RefreshAccountOnly ==
    /\ refresh = "flag" /\ refresh' = "sleeping"
    /\ UNCHANGED <<launcher, config, lastError, book, client, handle, report, listening, heard>>

RefreshFlag ==
    /\ refresh = "flag"
    /\ CheckTrading
    /\ refresh' = "sleeping"
    /\ UNCHANGED <<launcher, config, lastError, book, client, handle, report, listening>>

(* "actors start after clients connect".                                   *)
ActorStarts ==
    /\ client = "up" /\ ~listening
    /\ listening' = TRUE
    /\ UNCHANGED <<launcher, config, lastError, book, client, handle, report, refresh, heard>>
-----------------------------------------------------------------------------
(* The market, and the reports.                                            *)

PositionsChange ==
    /\ \E p \in Held : book' = IF p \in book THEN book \ {p} ELSE book \cup {p}
    /\ UNCHANGED <<launcher, config, lastError, client, handle, report, refresh, listening, heard>>

Answers(rows, at) == [NoReport EXCEPT !.at = at, !.rows = rows, !.truth = book]
Raises == [NoReport EXCEPT !.at = "raised"]

AskBook ==
    /\ client = "up" /\ report.at \in {"idle", "done", "raised"}
    /\ report' = [NoReport EXCEPT !.at = "asked"]
    /\ UNCHANGED <<launcher, config, lastError, book, client, handle, refresh, listening, heard>>

(* Over HTTP the service reads a listing the terminal could not give, None,*)
(* as no rows; the proxy asks what None was.                               *)
GetPositions ==
    /\ transport = "http" /\ Reachable
    /\ report' \in {Answers(book, "rows"), Answers({}, "rows")}
    /\ UNCHANGED lastError

Listed ==
    /\ transport = "rpyc" /\ Reachable /\ handle \in {"dialed", "open"}
    /\ \/ handle = "open" /\ report' = Answers(book, "rows") /\ lastError' = FALSE
       \/ report' = Answers({}, "none") /\ lastError' = TRUE
       \/ book = {} /\ report' = Answers({}, "none") /\ lastError' = FALSE

AnswerBook ==
    /\ report.at = "asked"
    /\ \/ GetPositions \/ Listed
       \/ report' = Raises /\ UNCHANGED lastError
    /\ UNCHANGED <<launcher, config, book, client, handle, refresh, listening, heard>>

(* Fault: None is no rows, whatever the error. *)
NoneIsEmpty ==
    /\ report.at = "none"
    /\ report' = [report EXCEPT !.at = "rows"]
    /\ UNCHANGED <<launcher, config, lastError, book, client, handle, refresh, listening, heard>>

AskError ==
    /\ report.at = "none"
    /\ \/ ~lastError /\ clearIsZero /\ report' = [report EXCEPT !.at = "rows"]
       \/ report' = Raises
    /\ UNCHANGED <<launcher, config, lastError, book, client, handle, refresh, listening, heard>>

OfDesk(rows) == rows \cap Ours

(* A row of ours whose side or instrument cannot be had.                   *)
Undescribed == OfDesk(report.rows) # {} /\ report' = Raises

(* Each row with our magic is described, or the whole report is refused.   *)
Describe ==
    /\ report.at = "rows"
    /\ \/ report' = [report EXCEPT !.at = "done", !.rows = OfDesk(@)]
       \/ Undescribed
    /\ UNCHANGED <<launcher, config, lastError, book, client, handle, refresh, listening, heard>>
-----------------------------------------------------------------------------
Opening == Open \/ Initialize \/ Account \/ FirstFlag
Refreshing == Wake \/ RefreshAccount \/ RefreshFlag
Reporting == AskBook \/ AnswerBook \/ AskError \/ Describe

SessionNext ==
    \/ Connect \/ Opening \/ LinkLost \/ Disconnect \/ Refreshing \/ ActorStarts
    \/ PositionsChange \/ Reporting

Next == SessionNext \/ (LauncherNext /\ UNCHANGED session)

Spec == Init /\ [][Next]_vars

(* The loop runs the refresh; the bridge does not fail every read.         *)
FairSpec ==
    /\ Spec /\ LauncherFairness
    /\ WF_vars(Refreshing)
    /\ SF_vars(RefreshAccount /\ refresh' = "flag")
    /\ SF_vars(RefreshFlag /\ heard' = {trades})
-----------------------------------------------------------------------------
(* Properties.                                                             *)

TypeOK ==
    /\ LauncherTypeOK
    /\ transport \in Transports /\ clearIsZero \in BOOLEAN /\ lastError \in BOOLEAN
    /\ book \subseteq Held /\ report.truth \subseteq Held /\ report.rows \subseteq Held
    /\ client \in {"down", "opening", "initialize", "account", "flag", "up", "failed"}
    /\ handle \in {"closed", "dialed", "open", "lost"}
    /\ handle \in {"dialed", "lost"} => transport = "rpyc"
    /\ report.at \in {"idle", "asked", "none", "rows", "done", "raised"}
    /\ refresh # "none" <=> client = "up"
    /\ listening \in BOOLEAN /\ heard \subseteq BOOLEAN

(* What reconciliation is given is our part of the book as the terminal    *)
(* held it when it answered: not another's position, and not a flat account*)
(* for a listing that failed, except where last_error was another call's   *)
(* by the time it was read, and over HTTP, which cannot tell the two.      *)
ReportIsTheBook ==
    report.at = "done" =>
       \/ report.rows = report.truth \cap Ours
       \/ report.rows = {} /\ (transport = "http" \/ (report.overtaken /\ clearIsZero))

Safe == TypeOK /\ ReportIsTheBook

(* "reconciliation believing the account is flat when it is not is how a   *)
(* desk opens a position it already holds" (bridge.py).                    *)
NeverFlatInError ==
    report.at = "done" /\ report.rows = {} => report.truth \cap Ours = {}

(* An actor hears of the AutoTrading flag as it is, however late it        *)
(* subscribed and through failed reads, while the session lasts.           *)
TradingIsTold ==
    \A v \in BOOLEAN :
       <>[](transport = "http" /\ client = "up" /\ listening /\ Reachable /\ trades = v)
          => <>[](heard = {v})
=============================================================================
