------------------------------ MODULE Launcher ------------------------------
(***************************************************************************)
(* DockerizedMT5Terminal (nautilus_mt5/terminal.py) as the factories of    *)
(* the adapter use it: a node process makes sure that the one container of *)
(* its account runs, and waits for its terminal to be connected.  The      *)
(* container object answers for what it was when it was listed; its health *)
(* is asked of the port.  Docker restarts a container that ends by itself; *)
(* other processes create and remove one of the same name.                 *)
(***************************************************************************)
EXTENDS Integers, FiniteSets

CONSTANTS timeout,      \* polls of one wait
          MaxBoxes      \* bound: containers ever created

ASSUME LauncherAssumption == {timeout, MaxBoxes} \subseteq Nat \ {0}

VARIABLES
    box,        \* the container of that name: [id, is]
    health,     \* what /health tells of the terminal in it
    trades,     \* terminal_info().trade_allowed: the AutoTrading button
    node        \* [at, id, saw, polls]: start() and its handle

terminal == <<health, trades>>
launcher == <<box, terminal, node>>

Absent == [id |-> 0, is |-> "none"]
NewNode == [at |-> "new", id |-> 0, saw |-> "none", polls |-> 0]
Phases == {"new", "health", "stop", "remove", "run", "begin", "await", "up", "failed",
           "elsewhere"}       \* no container is asked for

LauncherInit ==
    /\ box \in {Absent} \cup [id : {1}, is : {"exited", "running"}]
    /\ health = "silent" /\ trades \in BOOLEAN
    /\ node = NewNode \/ node = [NewNode EXCEPT !.at = "elsewhere"]
-----------------------------------------------------------------------------
(* Docker and the terminal.  A container that ends is restarted; the one   *)
(* that was stopped is not.                                                *)

BoxEnds ==
    /\ box.is = "running"
    /\ box' = [box EXCEPT !.is = "restarting"] /\ health' = "silent"
    /\ UNCHANGED <<trades, node>>

BoxRestarts ==
    /\ box.is = "restarting"
    /\ box' = [box EXCEPT !.is = "running"]
    /\ UNCHANGED <<terminal, node>>

RemovedByHand ==
    /\ box.is # "none"
    /\ box' = [box EXCEPT !.is = "none"] /\ health' = "silent"
    /\ UNCHANGED <<trades, node>>

RunByHand ==
    /\ box.is \in {"none", "created", "exited"} /\ box.id < MaxBoxes
    /\ box' = [id |-> IF box.is = "none" THEN box.id + 1 ELSE box.id, is |-> "running"]
    /\ UNCHANGED <<terminal, node>>

TerminalMoves ==
    /\ box.is = "running"
    /\ \/ health' \in {"answers", "connected"} \ {health} /\ UNCHANGED trades
       \/ trades' = ~trades /\ UNCHANGED health
    /\ UNCHANGED <<box, node>>
-----------------------------------------------------------------------------
(* start: the container is listed once, its status taken from the listing. *)

Fails == node' = [NewNode EXCEPT !.at = "failed"]

(* Fault: trading closed is taken for not ready. *)
ReadyTrading == health = "connected" /\ trades
Ready == health = "connected"

(* Fault: a terminal that is not connected is replaced. *)
ReusedIfConnected ==
    IF Ready THEN [node EXCEPT !.at = "up"]
    ELSE [node EXCEPT !.at = "stop"]

(* READY is up; STARTING and NOT_CONNECTED are waited for.                 *)
Reused ==
    IF Ready THEN [node EXCEPT !.at = "up"]
    ELSE [node EXCEPT !.at = "await"]

Look ==
    /\ node.at = "new"
    /\ node' = [node EXCEPT !.id = box.id, !.saw = box.is, !.at =
          CASE box.is = "none"    -> "run"
            [] box.is = "running" -> "health"
            [] OTHER              -> "stop"]
    /\ UNCHANGED <<box, terminal>>

AskHealth ==
    /\ node.at = "health"
    /\ node' = Reused
    /\ UNCHANGED <<box, terminal>>

(* stop: of the container listed, which another process may have removed.  *)
Mine == box.is # "none" /\ box.id = node.id

Stop ==
    /\ node.at = "stop"
    /\ \/ /\ Mine
          /\ box' = [box EXCEPT !.is = "exited"] /\ health' = "silent"
          /\ node' = [node EXCEPT !.at = "remove"]
          /\ UNCHANGED trades
       \/ ~Mine /\ Fails /\ UNCHANGED <<box, terminal>>

(* Docker refuses to remove a container that runs again.                   *)
Removable == Mine /\ box.is \notin {"running", "restarting"}

Remove ==
    /\ node.at = "remove"
    /\ \/ /\ Removable
          /\ box' = [box EXCEPT !.is = "none"]
          /\ node' = [node EXCEPT !.at = "run", !.id = 0]
       \/ ~Removable /\ Fails /\ UNCHANGED box
    /\ UNCHANGED terminal

(* containers.run creates and starts; the name may be taken.               *)
RunCreate ==
    /\ node.at = "run"
    /\ \/ /\ box.is = "none" /\ box.id < MaxBoxes
          /\ box' = [id |-> box.id + 1, is |-> "created"]
          /\ node' = [node EXCEPT !.at = "begin", !.id = box.id + 1]
       \/ box.is # "none" /\ Fails /\ UNCHANGED box
    /\ UNCHANGED terminal

RunStart ==
    /\ node.at = "begin"
    /\ \/ /\ Mine /\ box' = [box EXCEPT !.is = "running"]
          /\ node' = [node EXCEPT !.at = "await"]
       \/ ~Mine /\ Fails /\ UNCHANGED box
    /\ UNCHANGED terminal

DockerFails ==
    /\ node.at \in {"new", "stop", "remove", "run", "begin"}
    /\ Fails
    /\ UNCHANGED <<box, terminal>>

(* _await: a container that never connects is left as it is.               *)
Poll ==
    /\ node.at = "await"
    /\ IF Ready THEN node' = [node EXCEPT !.at = "up", !.polls = 0]
       ELSE IF node.polls + 1 < timeout
       THEN node' = [node EXCEPT !.polls = @ + 1]
       ELSE Fails
    /\ UNCHANGED <<box, terminal>>

(* Its factory raised: the process ends, and is started again.             *)
NewProcess ==
    /\ node.at = "failed"
    /\ node' = NewNode
    /\ UNCHANGED <<box, terminal>>
-----------------------------------------------------------------------------
Starts ==
    \/ Look \/ AskHealth \/ Stop \/ Remove \/ RunCreate \/ RunStart \/ Poll \/ NewProcess

LauncherNext ==
    \/ BoxEnds \/ BoxRestarts \/ TerminalMoves \/ RemovedByHand \/ RunByHand
    \/ Starts \/ DockerFails

(* The process runs, and is started again when it fails; Docker does not   *)
(* refuse every listing.                                                   *)
LauncherFairness == WF_launcher(Starts) /\ SF_launcher(Look)
-----------------------------------------------------------------------------
(* Properties.                                                             *)

LauncherTypeOK ==
    /\ box.id \in 0..MaxBoxes
    /\ box.is \in {"none", "created", "running", "restarting", "exited"}
    /\ health \in {"silent", "answers", "connected"} /\ trades \in BOOLEAN
    /\ box.is # "running" => health = "silent"
    /\ node.at \in Phases /\ node.polls < timeout /\ node.id <= box.id

(* A terminal that is running is not replaced: "restarting it to be tidy   *)
(* costs a login".  Only a launch that had seen the container before it    *)
(* ran stops it.                                                           *)
SessionsAreKept ==
    [][box.is = "running" /\ box'.is = "exited" =>
         node.at = "stop" /\ node.saw # "running"]_launcher

(* A node comes up at a terminal that stays connected, whether or not it   *)
(* will trade: "refusing to start then would make a Sunday deploy          *)
(* impossible" (terminal.py).                                              *)
Launches ==
    <>[](box.is = "running" /\ health = "connected") => <>(node.at \in {"up", "elsewhere"})
=============================================================================
