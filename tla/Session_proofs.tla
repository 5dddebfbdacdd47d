--------------------------- MODULE Session_proofs ---------------------------
(***************************************************************************)
(* Whatever the container, the link and the refresh do under a report, what*)
(* reconciliation is given is our part of the book, with the exceptions    *)
(* ReportIsTheBook names.  A report lives inside one session: while it is  *)
(* under way the client is up, so that the only other call that can leave  *)
(* its mark in last_error is the refresh, which is what `overtaken` notes. *)
(***************************************************************************)
EXTENDS Session, TLAPS

Boxes == [id : 0..MaxBoxes, is : {"none", "created", "running", "restarting", "exited"}]
Nodes == [at : Phases, id : 0..MaxBoxes, polls : 0..timeout - 1,
          saw : {"none", "created", "running", "restarting", "exited"}]
Reports == [at : {"idle", "asked", "none", "rows", "done", "raised"},
            rows : SUBSET Held, truth : SUBSET Held, overtaken : BOOLEAN]

LauncherShape ==
    /\ box \in Boxes /\ node \in Nodes /\ node.id <= box.id
    /\ health \in {"silent", "answers", "connected"}
    /\ box.is # "running" => health = "silent"
    /\ trades \in BOOLEAN

Shape ==
    /\ transport \in Transports /\ clearIsZero \in BOOLEAN /\ lastError \in BOOLEAN
    /\ book \subseteq Held
    /\ client \in {"down", "opening", "initialize", "account", "flag", "up", "failed"}
    /\ handle \in {"closed", "dialed", "open", "lost"}
    /\ handle \in {"dialed", "lost"} => transport = "rpyc"
    /\ refresh \in {"none", "sleeping", "account", "flag"}
    /\ refresh # "none" <=> client = "up"
    /\ listening \in BOOLEAN /\ heard \subseteq BOOLEAN

(* A report that is under way: in which session, and what it has by then.  *)
Flat == report.rows = {} /\ (transport = "http" \/ (report.overtaken /\ clearIsZero))
ReportKept ==
    /\ report \in Reports
    /\ report.at \in {"asked", "none", "rows"} => client = "up"
    /\ report.at = "none" =>
         /\ report.rows = {} /\ transport = "rpyc"
         /\ lastError \/ report.overtaken \/ report.truth = {}
    /\ report.at = "rows" => report.rows = report.truth \/ Flat
    /\ ReportIsTheBook

IInv == LauncherShape /\ Shape /\ ReportKept

USE DEF launcher, terminal, session, config

LEMMA Polls ==
    /\ timeout \in Nat \ {0} /\ MaxBoxes \in Nat \ {0}
    /\ 0 \in 0..MaxBoxes /\ 0 \in 0..timeout - 1
  BY LauncherAssumption

LEMMA InitIInv == Init => IInv
<1> SUFFICES ASSUME Init
             PROVE  IInv
  OBVIOUS
<1>1. LauncherShape
  <2>1. box \in Boxes /\ 0 <= box.id
    <3>1. CASE box = Absent
      BY <3>1, Polls DEF Boxes, Absent
    <3>2. CASE box \in [id : {1}, is : {"exited", "running"}]
      BY <3>2, Polls DEF Boxes
    <3>3. QED
      BY <3>1, <3>2 DEF Init, LauncherInit
  <2>2. node \in Nodes /\ node.id = 0
    BY Polls DEF Init, LauncherInit, Nodes, NewNode, Phases
  <2>3. QED
    BY <2>1, <2>2 DEF Init, LauncherInit, LauncherShape, Boxes, Nodes
<1>2. Shape
  BY SessionAssumption DEF Init, Shape
<1>3. ReportKept
  BY DEF Init, NoReport, ReportKept, Reports, ReportIsTheBook
<1>4. QED
  BY <1>1, <1>2, <1>3 DEF IInv
-----------------------------------------------------------------------------
(* The launcher. *)
LEMMA LauncherStep == LauncherShape /\ LauncherNext => LauncherShape'
<1> SUFFICES ASSUME LauncherShape, LauncherNext
             PROVE  LauncherShape'
  OBVIOUS
<1> USE Polls DEF LauncherShape, Boxes, Nodes, Phases, Fails, NewNode, Mine
<1>1. CASE BoxEnds \/ BoxRestarts \/ RemovedByHand
  BY <1>1 DEF BoxEnds, BoxRestarts, RemovedByHand
<1>2. CASE RunByHand
  BY <1>2 DEF RunByHand
<1>3. CASE TerminalMoves
  BY <1>3 DEF TerminalMoves
<1>4. CASE Look
  <2>1. box' = box /\ node'.id = box.id /\ node'.id <= box'.id
    BY <1>4 DEF Look
  <2>2. node' \in Nodes
    BY <1>4 DEF Look
  <2>3. QED
    BY <1>4, <2>1, <2>2 DEF Look
<1>5. CASE AskHealth
  BY <1>5 DEF AskHealth, Reused, Ready
<1>6. CASE Stop
  BY <1>6 DEF Stop
<1>7. CASE Remove
  <2>1. CASE ~Removable /\ Fails /\ UNCHANGED box
    BY <1>7, <2>1 DEF Remove
  <2>2. CASE Removable /\ box' = [box EXCEPT !.is = "none"]
                       /\ node' = [node EXCEPT !.at = "run", !.id = 0]
    <3>1. box' \in Boxes /\ box'.is = "none" /\ box'.id = box.id /\ box.is # "running"
      BY <2>2 DEF Removable
    <3>2. node' \in Nodes /\ node'.id = 0
      BY <2>2
    <3>3. QED
      BY <1>7, <3>1, <3>2 DEF Remove
  <2>3. QED
    BY <1>7, <2>1, <2>2 DEF Remove
<1>8. CASE RunCreate
  <2>1. CASE box.is # "none" /\ Fails /\ UNCHANGED box
    BY <1>8, <2>1 DEF RunCreate
  <2>2. CASE /\ box.is = "none" /\ box.id < MaxBoxes
             /\ box' = [id |-> box.id + 1, is |-> "created"]
             /\ node' = [node EXCEPT !.at = "begin", !.id = box.id + 1]
    <3>1. box' \in Boxes /\ box'.id = box.id + 1
      BY <2>2
    <3>2. node' \in Nodes /\ node'.id = box.id + 1
      <4>1. box.id + 1 \in 0..MaxBoxes
        BY <2>2
      <4>2. QED
        BY <2>2, <4>1
    <3>3. QED
      BY <1>8, <2>2, <3>1, <3>2 DEF RunCreate
  <2>3. QED
    BY <1>8, <2>1, <2>2 DEF RunCreate
<1>9. CASE RunStart
  BY <1>9 DEF RunStart
<1>10. CASE Poll
  <2>1. CASE node' = [node EXCEPT !.at = "up", !.polls = 0]
    BY <1>10, <2>1 DEF Poll
  <2>2. CASE node.polls + 1 < timeout /\ node' = [node EXCEPT !.polls = @ + 1]
    BY <1>10, <2>2 DEF Poll
  <2>3. CASE Fails
    BY <1>10, <2>3 DEF Poll
  <2>4. QED
    BY <1>10, <2>1, <2>2, <2>3 DEF Poll
<1>11. CASE NewProcess \/ DockerFails
  BY <1>11 DEF NewProcess, DockerFails
<1>12. QED
  BY <1>1, <1>2, <1>3, <1>4, <1>5, <1>6, <1>7, <1>8, <1>9, <1>10, <1>11
  DEF LauncherNext, Starts

LEMMA SessionOfLauncher == UNCHANGED session /\ Shape /\ ReportKept => Shape' /\ ReportKept'
  BY DEF Shape, ReportKept, ReportIsTheBook, Flat

LEMMA LauncherOfSession == SessionNext /\ LauncherShape => LauncherShape'
<1> SUFFICES ASSUME SessionNext, LauncherShape
             PROVE  LauncherShape'
  OBVIOUS
<1>1. UNCHANGED launcher
  BY DEF SessionNext, Connect, Opening, Open, Initialize, Account, FirstFlag, LinkLost,
     Disconnect, Refreshing, Wake, RefreshAccount, RefreshFlag, ActorStarts,
     PositionsChange, Reporting, AskBook, AnswerBook, AskError, Describe
<1>2. QED
  BY <1>1 DEF LauncherShape
-----------------------------------------------------------------------------
(* The session. *)
LEMMA ShapeStep == trades \in BOOLEAN /\ Shape /\ SessionNext => Shape'
<1> SUFFICES ASSUME trades \in BOOLEAN, Shape, SessionNext
             PROVE  Shape'
  OBVIOUS
<1> USE DEF Shape, Marks, CheckTrading
<1>1. CASE Connect \/ LinkLost \/ Disconnect
  BY <1>1 DEF Connect, LinkLost, Disconnect
<1>2. CASE Open
  BY <1>2 DEF Open
<1>3. CASE Initialize
  BY <1>3 DEF Initialize
<1>4. CASE Account
  BY <1>4 DEF Account
<1>5. CASE FirstFlag
  BY <1>5 DEF FirstFlag
<1>6. CASE Refreshing
  BY <1>6 DEF Refreshing, Wake, RefreshAccount, RefreshFlag
<1>7. CASE ActorStarts \/ PositionsChange
  BY <1>7 DEF ActorStarts, PositionsChange
<1>8. CASE Reporting
  BY <1>8 DEF Reporting, AskBook, AnswerBook, GetPositions, Listed, AskError, Describe
<1>9. QED
  BY <1>1, <1>2, <1>3, <1>4, <1>5, <1>6, <1>7, <1>8 DEF SessionNext, Opening

(* Another task's steps under a report: the client is up, so of those that *)
(* mark last_error only the refresh can come, and it says so.              *)
LEMMA UnderReport ==
    ASSUME Shape, ReportKept, transport' = transport, clearIsZero' = clearIsZero,
           report' = report \/ report' = [report EXCEPT !.overtaken = @ \/ report.at = "none"],
           report.at \in {"asked", "none", "rows"} => client' = "up",
           report.at = "none" => lastError' = lastError \/ report'.overtaken
    PROVE  ReportKept'
<1>1. report' \in Reports /\ report'.at = report.at /\ report'.rows = report.rows
      /\ report'.truth = report.truth /\ (report.overtaken => report'.overtaken)
  BY DEF ReportKept, Reports
<1>2. QED
  BY <1>1 DEF ReportKept, ReportIsTheBook, Flat

(* A session that ends takes its report along. *)
LEMMA Raised ==
    ASSUME ReportKept, report' = [NoReport EXCEPT !.at = "raised"] \/ report' = report,
           report'.at \in {"idle", "raised", "done"},
           transport' = transport, clearIsZero' = clearIsZero
    PROVE  ReportKept'
  BY DEF ReportKept, Reports, ReportIsTheBook, NoReport, Flat

LEMMA OpeningStep == Shape /\ ReportKept /\ (Connect \/ Opening) => ReportKept'
<1> SUFFICES ASSUME Shape, ReportKept, Connect \/ Opening
             PROVE  ReportKept'
  OBVIOUS
<1>1. client # "up" /\ UNCHANGED <<report, config>>
  BY DEF Connect, Opening, Open, Initialize, Account, FirstFlag
<1>2. report.at \notin {"asked", "none", "rows"}
  BY <1>1 DEF ReportKept
<1>3. QED
  BY <1>1, <1>2, UnderReport

LEMMA RefreshStep == Shape /\ ReportKept /\ Refreshing => ReportKept'
<1> SUFFICES ASSUME Shape, ReportKept, Refreshing
             PROVE  ReportKept'
  OBVIOUS
<1>1. UNCHANGED <<config, client>>
  BY DEF Refreshing, Wake, RefreshAccount, RefreshFlag
<1>2. CASE Wake \/ RefreshFlag
  BY <1>1, <1>2, UnderReport DEF Wake, RefreshFlag, ReportKept
<1>3. CASE RefreshAccount
  <2>1. report' = report \/ report' = [report EXCEPT !.overtaken = @ \/ report.at = "none"]
    BY <1>3 DEF RefreshAccount
  <2>2. report.at = "none" => lastError' = lastError \/ report'.overtaken
    BY <1>3 DEF RefreshAccount, ReportKept, Reports
  <2>3. QED
    BY <1>1, <2>1, <2>2, UnderReport DEF ReportKept
<1>4. QED
  BY <1>2, <1>3 DEF Refreshing

LEMMA AnswerStep == Shape /\ ReportKept /\ AnswerBook => ReportKept'
<1> SUFFICES ASSUME Shape, ReportKept, AnswerBook
             PROVE  ReportKept'
  OBVIOUS
<1> USE DEF AnswerBook, Answers, Raises, NoReport, ReportKept, Reports, ReportIsTheBook, Flat,
            Shape
<1>1. CASE GetPositions
  BY <1>1 DEF GetPositions
<1>2. CASE Listed
  BY <1>2 DEF Listed
<1>3. CASE report' = Raises
  BY <1>3
<1>4. QED
  BY <1>1, <1>2, <1>3

LEMMA ReportStep == Shape /\ ReportKept /\ Reporting => ReportKept'
<1> SUFFICES ASSUME Shape, ReportKept, Reporting
             PROVE  ReportKept'
  OBVIOUS
<1>1. CASE AskBook
  BY <1>1 DEF AskBook, NoReport, ReportKept, Reports, ReportIsTheBook
<1>2. CASE AnswerBook
  BY <1>2, AnswerStep
<1>3. CASE AskError
  BY <1>3 DEF AskError, Raises, NoReport, ReportKept, Reports, ReportIsTheBook, Flat, Shape
<1>4. CASE Describe
  <2>1. CASE report' = Raises
    BY <1>4, <2>1 DEF Describe, Raises, NoReport, ReportKept, Reports, ReportIsTheBook
  <2>2. CASE report' = [report EXCEPT !.at = "done", !.rows = OfDesk(@)]
    BY <1>4, <2>2 DEF Describe, OfDesk, ReportKept, Reports, ReportIsTheBook, Flat
  <2>3. QED
    BY <1>4, <2>1, <2>2 DEF Describe, Undescribed
<1>5. QED
  BY <1>1, <1>2, <1>3, <1>4 DEF Reporting

LEMMA ReportingStep == Shape /\ ReportKept /\ SessionNext => ReportKept'
<1> SUFFICES ASSUME Shape, ReportKept, SessionNext
             PROVE  ReportKept'
  OBVIOUS
<1>1. CASE Connect \/ Opening
  BY <1>1, OpeningStep
<1>2. CASE LinkLost \/ ActorStarts \/ PositionsChange
  <2>1. UNCHANGED <<report, config, client, lastError>>
    BY <1>2 DEF LinkLost, ActorStarts, PositionsChange
  <2>2. QED
    BY <2>1, UnderReport DEF ReportKept
<1>3. CASE Disconnect
  BY <1>3, Raised DEF Disconnect, NoReport, ReportKept, Reports
<1>4. CASE Refreshing
  BY <1>4, RefreshStep
<1>5. CASE Reporting
  BY <1>5, ReportStep
<1>6. QED
  BY <1>1, <1>2, <1>3, <1>4, <1>5 DEF SessionNext

LEMMA IInvStep == IInv /\ [Next]_vars => IInv'
<1> SUFFICES ASSUME IInv, [Next]_vars
             PROVE  IInv'
  OBVIOUS
<1>1. CASE SessionNext
  BY <1>1, LauncherOfSession, ShapeStep, ReportingStep DEF IInv, LauncherShape
<1>2. CASE LauncherNext /\ UNCHANGED session
  BY <1>2, LauncherStep, SessionOfLauncher DEF IInv
<1>3. CASE UNCHANGED vars
  BY <1>3, SessionOfLauncher DEF IInv, vars, LauncherShape
<1>4. QED
  BY <1>1, <1>2, <1>3 DEF Next

LEMMA IInvSafe == IInv => Safe
<1> SUFFICES ASSUME IInv
             PROVE  Safe
  OBVIOUS
<1>1. LauncherTypeOK
  BY Polls DEF IInv, LauncherShape, LauncherTypeOK, Boxes, Nodes
<1>2. QED
  BY <1>1 DEF IInv, Safe, TypeOK, Shape, ReportKept, Reports

(* For any account, any number of containers and polls, and over either    *)
(* transport: every state has its types, and what reconciliation is given  *)
(* is our part of the book the terminal held, but for the failed listings  *)
(* ReportIsTheBook names.                                                  *)
THEOREM AlwaysSafe == Spec => []Safe
  BY InitIInv, IInvStep, IInvSafe, PTL DEF Spec

(* The launcher stops what it saw, and it was not running. *)
StopsStopped == node.at = "stop" => node.saw # "running"

LEMMA StopsStep == LauncherShape /\ StopsStopped /\ LauncherNext => StopsStopped'
<1> SUFFICES ASSUME LauncherShape, StopsStopped, LauncherNext, node'.at = "stop"
             PROVE  node'.saw # "running"
  BY DEF StopsStopped
<1> USE DEF LauncherShape, Nodes, Fails, NewNode
<1>1. CASE Look
  <2>1. box.is # "none" /\ box.is # "running" /\ node'.saw = box.is
    BY <1>1 DEF Look
  <2>2. QED
    BY <2>1
<1>2. CASE AskHealth \/ Stop \/ Remove \/ RunCreate \/ RunStart
  BY <1>2 DEF AskHealth, Reused, Stop, Remove, RunCreate, RunStart
<1>3. CASE Poll \/ NewProcess \/ DockerFails
  <2>1. \/ node' = [node EXCEPT !.at = "up", !.polls = 0]
        \/ node.at = "await" /\ node' = [node EXCEPT !.polls = node.polls + 1]
        \/ node' = [NewNode EXCEPT !.at = "failed"] \/ node' = NewNode
    <3>1. CASE Poll
      BY <3>1, Zenon DEF Poll
    <3>2. CASE NewProcess \/ DockerFails
      BY <3>2, Zenon DEF NewProcess, DockerFails
    <3>3. QED
      BY <1>3, <3>1, <3>2
  <2>2. CASE node' = [node EXCEPT !.at = "up", !.polls = 0]
    <3>1. node'.at = "up"
      BY <2>2
    <3>2. QED
      BY <3>1
  <2>3. CASE node.at = "await" /\ node' = [node EXCEPT !.polls = node.polls + 1]
    <3>1. node'.at = "await"
      BY <2>3
    <3>2. QED
      BY <3>1
  <2>4. CASE node' = [NewNode EXCEPT !.at = "failed"] \/ node' = NewNode
    BY <2>4
  <2>5. QED
    BY <2>1, <2>2, <2>3, <2>4
<1>4. CASE BoxEnds \/ BoxRestarts \/ TerminalMoves \/ RemovedByHand \/ RunByHand
  BY <1>4 DEF BoxEnds, BoxRestarts, TerminalMoves, RemovedByHand, RunByHand, StopsStopped
<1>5. QED
  BY <1>1, <1>2, <1>3, <1>4 DEF LauncherNext, Starts

(* Whatever others do to the container between its listing and the stop,   *)
(* the launcher stops a running one only where it saw one that did not run *)
(* (DockerizedMT5Terminal.start): a session in use is never replaced.      *)
THEOREM SessionsAlwaysKept == Spec => SessionsAreKept
<1>1. Init => StopsStopped
  BY DEF Init, LauncherInit, NewNode, StopsStopped
<1>2. IInv /\ StopsStopped /\ [Next]_vars => StopsStopped'
  <2>1. SessionNext => UNCHANGED launcher
    BY DEF SessionNext, Connect, Opening, Open, Initialize, Account, FirstFlag, LinkLost,
       Disconnect, Refreshing, Wake, RefreshAccount, RefreshFlag, ActorStarts,
       PositionsChange, Reporting, AskBook, AnswerBook, AskError, Describe
  <2>2. UNCHANGED launcher /\ StopsStopped => StopsStopped'
    BY DEF StopsStopped
  <2>3. QED
    BY <2>1, <2>2, StopsStep DEF IInv, Next, vars
<1>3. IInv /\ StopsStopped /\ [Next]_vars
        => [box.is = "running" /\ box'.is = "exited" =>
              node.at = "stop" /\ node.saw # "running"]_launcher
  <2> SUFFICES ASSUME LauncherShape, StopsStopped, LauncherNext,
                      box.is = "running", box'.is = "exited"
               PROVE  node.at = "stop" /\ node.saw # "running"
    <3>1. SessionNext => UNCHANGED launcher
      BY DEF SessionNext, Connect, Opening, Open, Initialize, Account, FirstFlag, LinkLost,
         Disconnect, Refreshing, Wake, RefreshAccount, RefreshFlag, ActorStarts,
         PositionsChange, Reporting, AskBook, AnswerBook, AskError, Describe
    <3>2. QED
      BY <3>1 DEF IInv, Next, vars
  <2>1. Stop
    BY DEF LauncherNext, Starts, Look, AskHealth, Remove, Removable, RunCreate, RunStart, Poll,
           NewProcess, DockerFails, BoxEnds, BoxRestarts, TerminalMoves, RemovedByHand,
           RunByHand, LauncherShape, Boxes
  <2>2. QED
    BY <2>1 DEF Stop, StopsStopped
<1>4. QED
  BY <1>1, <1>2, <1>3, InitIInv, IInvStep, PTL DEF Spec, SessionsAreKept
=============================================================================
