--------------------------- MODULE DownloadsProofs -----------------------------
(***************************************************************************)
(* The downloads that the application knows, and the end of aria2c.        *)
(***************************************************************************)
EXTENDS Downloads, TLAPS

-----------------------------------------------------------------------------
(***************************************************************************)
(* The end of aria2c, for any number of downloads and of URIs: whom        *)
(* SIGKILL reaches, and what is in the session that is left.               *)
(***************************************************************************)

(* A strange process can only be struck when the child has been reaped,    *)
(* which the waiting thread does not do when it has left its loop.         *)
StruckInv ==
    /\ "other" \in struck => child = "reaped"
    /\ waiter = "left" => child # "reaped"

-----------------------------------------------------------------------------

LEMMA KillKeepsStruckInv ==
    ASSUME StruckInv, Kill PROVE StruckInv'
<1>1. /\ struck' \subseteq struck \cup {"group", "child", "other"}
      /\ "other" \in struck' => "other" \in struck \/ child = "reaped"
    BY DEF Kill
<1>2. /\ child = "reaped" <=> child' = "reaped"
      /\ waiter' = waiter
    BY DEF Kill
<1> QED BY <1>1, <1>2 DEF StruckInv

(* Every step of the child, the waiting thread and the destructor.         *)
LEMMA NextKeepsStruckInv ==
    ASSUME StruckInv, [Next]_vars PROVE StruckInv'
<1>1. CASE UNCHANGED subprocessVars
    BY <1>1 DEF subprocessVars, StruckInv
<1>2. CASE Fork \/ ForkFails
    BY <1>2 DEF Fork, ForkFails, StruckInv
<1>3. CASE ChildEnds
    BY <1>3 DEF ChildEnds, StruckInv
<1>4. CASE SawItRun \/ SawItEnded
    BY <1>4 DEF SawItRun, SawItEnded, StruckInv
<1>5. CASE Destroy \/ DestroyImpl
    BY <1>5, KillKeepsStruckInv DEF Destroy, DestroyImpl
<1>6. CASE Join
    BY <1>6 DEF Join, StruckInv
<1>7. CASE Crash
    BY <1>7 DEF Crash, StruckInv
<1>8. ASSUME [Next]_vars
      PROVE  \/ UNCHANGED subprocessVars \/ Fork \/ ForkFails \/ ChildEnds
             \/ SawItRun \/ SawItEnded \/ Destroy \/ DestroyImpl \/ Join \/ Crash
  <2>1. CASE Aria2
      BY <2>1 DEF Aria2, TaskStarts, TaskCompletes, MetalinkCompletes, TaskFails,
                  Aria2Stops, Aria2Crashes
  <2>2. CASE Call
      BY <2>2 DEF Call, StartKnown, StartNew, GetDownload, PauseDownload, ResumeDownload,
                  Control, CancelDownload, Close, Leave
  <2>3. CASE Step
      BY <2>3 DEF Step, Construct, Connect, TellActive, TellWaiting, Register, UpdateStatus,
                  FindActive, FindWaiting, Shutdown, DestroyProcess
  <2> QED BY <1>8, <2>1, <2>2, <2>3 DEF Next, Waiter, Destructor, vars
<1> QED BY <1>1, <1>2, <1>3, <1>4, <1>5, <1>6, <1>7, <1>8

(* ~Subprocess and ~UnixImpl kill the child twice, and the waiting thread  *)
(* may see it at any time in between: once it has seen the child run, no   *)
(* other process is ever struck.                                           *)
THEOREM KillCorrect == Spec => []KillSparesOthers
<1>1. Init => StruckInv
    BY DEF Init, SubprocessInit, StruckInv
<1>2. StruckInv /\ [Next]_vars => StruckInv'
    BY NextKeepsStruckInv
<1>3. StruckInv => KillSparesOthers
    BY DEF StruckInv, KillSparesOthers
<1> QED BY <1>1, <1>2, <1>3, PTL DEF Spec

-----------------------------------------------------------------------------
(* What the session file has.                                              *)

Status == {"none", "unknown", "waiting", "active", "paused", "complete", "error", "removed"}

Task == [uri : Uri \cup {None}, origin : Uri \cup {None}, status : Status,
         next : Gid \cup {None}]

Stage == {"off", "connect", "tellActive", "tellWaiting", "register", "status", "ready",
          "findActive", "findWaiting", "closing", "closed"}
Op == {"none", "active", "waiting", "get", "again", "control"}

CallType == [pc : Stage, op : Op, did : Gid \cup {None}, todo : SUBSET Gid]

SessionTypeOK ==
    /\ task \in [Gid -> Task] /\ session \in [Gid -> Task]
    /\ call \in CallType

Saved == {session[g].origin : g \in Gid}
Unsaved == {task[g].origin : g \in Unfinished}

(* What is under way is saved before aria2c is told to stop, and what is   *)
(* owed is under way until it has stopped.                                 *)
SessionInv ==
    /\ SessionTypeOK
    /\ call.pc = "closing" /\ Works => Unsaved \subseteq Saved
    /\ call.pc \notin {"off", "closed"} => owed = {}
    /\ owed # {} /\ child = "runs" => stopping /\ owed \subseteq Unsaved
    /\ owed \subseteq Saved

(* What aria2c saves is what is under way.                                 *)
LEMMA ToSaveIsAll ==
    ASSUME task \in [Gid -> Task], session' = ToSave
    PROVE  session' \in [Gid -> Task] /\ Unsaved \subseteq Saved'
<1>1. NoTask \in Task
    BY DEF NoTask, Task, Status
<1>2. \A g \in Gid : task[g] \in Task /\ [task[g] EXCEPT !.status = "waiting"] \in Task
    BY DEF Task, Status
<1>3. session' \in [Gid -> Task]
  <2>1. \A g \in Gid : session'[g] \in {NoTask, task[g], [task[g] EXCEPT !.status = "waiting"]}
      BY DEF ToSave
  <2>2. session' = [g \in Gid |-> session'[g]]
      BY DEF ToSave
  <2> QED BY <1>1, <1>2, <2>1, <2>2
<1>4. ASSUME NEW g \in Unfinished PROVE g \in Gid /\ session'[g].origin = task[g].origin
  <2>1. g \in Gid /\ task[g].status \in {"active", "waiting", "paused"}
      BY DEF Unfinished
  <2>2. session'[g] \in {task[g], [task[g] EXCEPT !.status = "waiting"]}
      BY <2>1 DEF ToSave
  <2> QED BY <1>2, <2>1, <2>2 DEF Task
<1> QED BY <1>3, <1>4 DEF Unsaved, Saved

(* A download that goes on is still owed to the application that asked for *)
(* it, and one that a metalink leads to is owed in its place.              *)
LEMMA TaskKeeps ==
    ASSUME SessionInv, NEW g \in Gid,
           TaskStarts(g) \/ TaskCompletes(g) \/ MetalinkCompletes(g) \/ TaskFails(g)
    PROVE  SessionInv'
<1>1. /\ Works /\ task[g] \in Task
      /\ UNCHANGED <<session, stopping, call, owed, child>>
    BY DEF TaskStarts, TaskCompletes, MetalinkCompletes, TaskFails, app, subprocessVars,
           SessionInv, SessionTypeOK, history
<1>2. task' \in [Gid -> Task] /\ Unsaved' \subseteq Unsaved
  <2>1. CASE MetalinkCompletes(g)
    <3> DEFINE new == [uri |-> Mirror, origin |-> task[g].origin, status |-> "waiting",
                       next |-> None]
               old == [[task[g] EXCEPT !.status = "complete"] EXCEPT !.next = Fresh]
    <3>1. g \in Unfinished /\ task[g].status = "active" /\ Fresh \in Gid /\ Fresh # g
      <4>1. Fresh \in Free
          BY <2>1 DEF MetalinkCompletes, Fresh
      <4>2. task[g].status = "active"
          BY <2>1 DEF MetalinkCompletes
      <4> QED BY <4>1, <4>2 DEF Free, Unfinished, NoTask
    <3>2. /\ task' \in [Gid -> Task]
          /\ task'[g].status = "complete" /\ task'[Fresh] = new
          /\ \A h \in Gid \ {g, Fresh} : task'[h] = task[h]
      <4>1. old \in Task /\ old.status = "complete"
          BY <1>1, <3>1 DEF Task, Status
      <4>2. new \in Task
          BY <1>1, <3>1, UriAssumption DEF Task, Status
      <4>3. task' = [h \in Gid |-> IF h = Fresh THEN new ELSE IF h = g THEN old ELSE task[h]]
          BY <2>1, <3>1 DEF MetalinkCompletes, SessionInv, SessionTypeOK
      <4> HIDE DEF old, new
      <4> QED BY <3>1, <4>1, <4>2, <4>3 DEF SessionInv, SessionTypeOK
    <3>3. ASSUME NEW h \in Unfinished' PROVE task'[h].origin \in Unsaved
      <4>1. h \in Gid /\ task'[h].status \in {"active", "waiting", "paused"}
          BY DEF Unfinished
      <4>2. CASE h = Fresh
          BY <3>1, <3>2, <4>2 DEF Unsaved
      <4>3. CASE h # Fresh
        <5>1. h # g /\ task'[h] = task[h]
            BY <3>2, <4>1, <4>3
        <5> QED BY <4>1, <5>1 DEF Unsaved, Unfinished
      <4> QED BY <4>2, <4>3
    <3> QED BY <3>2, <3>3 DEF Unsaved
  <2>2. CASE TaskStarts(g) \/ TaskCompletes(g) \/ TaskFails(g)
    <3>1. /\ g \in Unfinished
          /\ \E status \in Status : task' = [task EXCEPT ![g].status = status]
        BY <2>2 DEF TaskStarts, TaskCompletes, TaskFails, Unfinished, Status
    <3>2. /\ task' \in [Gid -> Task]
          /\ \A h \in Gid : task'[h].origin = task[h].origin
          /\ \A h \in Gid \ {g} : task'[h] = task[h]
        BY <3>1 DEF SessionInv, SessionTypeOK, Task
    <3>3. Unfinished' \subseteq Unfinished
        BY <3>1, <3>2 DEF Unfinished
    <3> QED BY <3>2, <3>3 DEF Unsaved, Unfinished
  <2> QED BY <2>1, <2>2
<1>3. SessionTypeOK' /\ Saved' = Saved /\ (Works' <=> Works)
    BY <1>1, <1>2 DEF SessionInv, SessionTypeOK, Saved, Works
<1> QED BY <1>1, <1>2, <1>3 DEF SessionInv, Works

(* aria2c ends: what is under way is saved, or it was not owed.            *)
LEMMA Aria2EndsKeeps ==
    ASSUME SessionInv, Aria2Stops \/ Aria2Crashes PROVE SessionInv'
<1>1. /\ child = "runs" /\ child' = "zombie" /\ UNCHANGED <<call, owed>>
      /\ task' = [g \in Gid |-> NoTask]
    BY DEF Aria2Stops, Aria2Crashes, ChildEnds, app, history
<1>2. task' \in [Gid -> Task]
    BY <1>1 DEF NoTask, Task, Status
<1>3. session' \in [Gid -> Task] /\ owed \subseteq Saved'
  <2>1. CASE Aria2Stops
      BY <1>1, <2>1, ToSaveIsAll DEF Aria2Stops, SessionInv, SessionTypeOK
  <2>2. CASE Aria2Crashes
      BY <2>2 DEF Aria2Crashes, SessionInv, SessionTypeOK, Saved
  <2> QED BY <2>1, <2>2
<1> QED BY <1>1, <1>2, <1>3 DEF SessionInv, SessionTypeOK, Works

(* Nothing is owed before close(). *)
LEMMA NothingOwed ==
    ASSUME SessionTypeOK', owed' = {}, call'.pc # "closing" PROVE SessionInv'
BY DEF SessionInv

LEMMA OffIsTyped == Off \in CallType
BY DEF Off, CallType, Stage, Op

LEMMA GotoIsTyped ==
    ASSUME NEW pc \in Stage, Goto(pc) PROVE call' \in CallType /\ call'.pc = pc
BY DEF Goto, Off, CallType, Stage, Op

(* The calls of an application that has not closed the Downloader.         *)
LEMMA UriKeeps ==
    ASSUME SessionInv, NEW uri \in Wanted, StartKnown(uri) \/ StartNew(uri) PROVE SessionInv'
<1>1. /\ call.pc = "ready" /\ UNCHANGED <<session, call, owed>>
    BY DEF StartKnown, StartNew, At, aria2c, history
<1>2. task' \in [Gid -> Task]
  <2>1. CASE UNCHANGED task
      BY <2>1 DEF SessionInv, SessionTypeOK
  <2>2. CASE AddUri(uri)
    <3>1. [uri |-> uri, origin |-> uri, status |-> "waiting", next |-> None] \in Task
        BY UriAssumption DEF Task, Status
    <3> QED BY <2>2, <3>1 DEF AddUri, SessionInv, SessionTypeOK
  <2> QED BY <2>1, <2>2 DEF StartKnown, StartNew, aria2c
<1> QED BY <1>1, <1>2, NothingOwed DEF SessionInv, SessionTypeOK

LEMMA ControlKeeps ==
    ASSUME SessionInv, NEW did \in Gid,
           PauseDownload(did) \/ ResumeDownload(did) \/ CancelDownload(did) \/ GetDownload(did)
    PROVE  SessionInv'
<1>1. call.pc = "ready" /\ UNCHANGED <<session, owed>>
  <2>1. At("ready")
      BY DEF PauseDownload, ResumeDownload, Control, CancelDownload, GetDownload
  <2>2. UNCHANGED <<session, owed>>
      BY DEF PauseDownload, ResumeDownload, Control, CancelDownload, GetDownload, aria2c, history
  <2> QED BY <2>1, <2>2 DEF At
<1>2. ASSUME NEW g, NEW to \in Status, task' = [task EXCEPT ![g].status = to]
      PROVE  task' \in [Gid -> Task]
  <2>1. task \in [Gid -> Task]
      BY DEF SessionInv, SessionTypeOK
  <2>2. CASE g \in Gid
    <3>1. [task[g] EXCEPT !.status = to] \in Task
        BY <2>1, <2>2 DEF Task
    <3> QED BY <1>2, <2>1, <2>2, <3>1
  <2>3. CASE g \notin Gid
      BY <1>2, <2>1, <2>3
  <2> QED BY <2>2, <2>3
<1>3. task' \in [Gid -> Task]
  <2>1. CASE UNCHANGED task
      BY <2>1 DEF SessionInv, SessionTypeOK
  <2>2. CASE PauseDownload(did)
      BY <1>2, <2>1, <2>2 DEF PauseDownload, Control, Status
  <2>3. CASE ResumeDownload(did)
      BY <1>2, <2>1, <2>3 DEF ResumeDownload, Control, Status
  <2>4. CASE CancelDownload(did)
      BY <1>2, <2>1, <2>4 DEF CancelDownload, Status
  <2>5. CASE GetDownload(did)
      BY <2>1, <2>5 DEF GetDownload, aria2c
  <2> QED BY <2>2, <2>3, <2>4, <2>5
<1>4. call' \in CallType /\ call'.pc # "closing"
  <2>1. call' \in {call, [pc |-> "status", op |-> "control", did |-> did, todo |-> {}],
                   [pc |-> "status", op |-> "get", did |-> did, todo |-> {}],
                   [pc |-> "findActive", op |-> "get", did |-> did, todo |-> {}]}
      BY DEF PauseDownload, ResumeDownload, Control, CancelDownload, GetDownload, Off
  <2> QED BY <1>1, <2>1 DEF SessionInv, SessionTypeOK, CallType, Stage, Op
<1> QED BY <1>1, <1>3, <1>4, NothingOwed DEF SessionInv, SessionTypeOK

(* close(), with the two calls of aria2c that it makes.                    *)
LEMMA CloseKeeps ==
    ASSUME SessionInv, Close PROVE SessionInv'
<1>1. At("ready") /\ UNCHANGED <<task, stopping, owed, child>>
    BY DEF Close, subprocessVars
<1>2. owed = {}
    BY <1>1 DEF At, SessionInv
<1>3. CASE failed' = TRUE /\ UNCHANGED session /\ Goto("closed")
  <2>1. call' \in CallType /\ call'.pc = "closed"
      BY <1>3, GotoIsTyped DEF Stage
  <2> QED BY <1>1, <1>2, <1>3, <2>1, NothingOwed DEF SessionInv, SessionTypeOK
<1>4. CASE session' = ToSave /\ Goto("closing")
  <2>1. call' \in CallType /\ call'.pc = "closing"
      BY <1>4, GotoIsTyped DEF Stage
  <2>2. session' \in [Gid -> Task] /\ Unsaved \subseteq Saved'
      BY <1>4, ToSaveIsAll DEF SessionInv, SessionTypeOK
  <2>3. Unsaved' = Unsaved
      BY <1>1 DEF Unsaved, Unfinished
  <2> QED BY <1>1, <1>2, <2>1, <2>2, <2>3 DEF SessionInv, SessionTypeOK
<1> QED BY <1>3, <1>4 DEF Close

LEMMA ShutdownKeeps ==
    ASSUME SessionInv, Shutdown PROVE SessionInv'
<1>1. At("closing") /\ Goto("closed") /\ UNCHANGED <<task, session, child>>
    BY DEF Shutdown, subprocessVars
<1>2. call.pc = "closing" /\ call' \in CallType /\ call'.pc = "closed"
    BY <1>1, GotoIsTyped DEF At, Stage
<1>3. SessionTypeOK' /\ Saved' = Saved /\ Unsaved' = Unsaved
    BY <1>1, <1>2 DEF SessionInv, SessionTypeOK, Saved, Unsaved, Unfinished
<1>4. CASE Works /\ stopping' = TRUE /\ owed' = Unsaved
    BY <1>2, <1>3, <1>4 DEF SessionInv
<1>5. CASE UNCHANGED <<stopping, owed>>
    BY <1>1, <1>2, <1>3, <1>5 DEF SessionInv
<1> QED BY <1>4, <1>5 DEF Shutdown, Unsaved

(* The Downloader is made.                                                 *)
LEMMA ConstructKeeps ==
    ASSUME SessionInv, Construct PROVE SessionInv'
<1>1. call' \in CallType /\ call'.pc = "connect"
    BY GotoIsTyped DEF Construct, Stage
<1>2. owed' = {} /\ UNCHANGED session /\ task' \in {task, session}
    BY DEF Construct
<1> QED BY <1>1, <1>2, NothingOwed DEF SessionInv, SessionTypeOK

(* The calls that only ask.                                                *)
LEMMA AskKeeps ==
    ASSUME SessionInv,
           Connect \/ TellActive \/ TellWaiting \/ Register \/ UpdateStatus
             \/ FindActive \/ FindWaiting
    PROVE  SessionInv'
<1>1. UNCHANGED <<task, session, owed>>
    BY DEF Connect, TellActive, TellWaiting, Register, UpdateStatus, FindActive, FindWaiting,
           aria2c, history
<1>2. call.pc \notin {"off", "closed"}
  <2>1. CASE Connect \/ TellActive \/ TellWaiting
      BY <2>1 DEF Connect, TellActive, TellWaiting, At
  <2>2. CASE Register \/ UpdateStatus \/ FindActive \/ FindWaiting
      BY <2>2 DEF Register, UpdateStatus, FindActive, FindWaiting
  <2> QED BY <2>1, <2>2
<1>3. Active \in SUBSET Gid /\ Waiting \in SUBSET Gid
    BY DEF Active, Waiting
<1>4. ASSUME NEW pc \in Stage \ {"closing"}, Goto(pc)
      PROVE  call' \in CallType /\ call'.pc # "closing"
    BY <1>4, GotoIsTyped
<1>5. call' \in CallType /\ call'.pc # "closing"
  <2>1. CASE Connect
      BY <1>4, <2>1 DEF Connect, Stage
  <2>2. CASE TellActive \/ TellWaiting
      BY <1>3, <1>4, <2>2 DEF TellActive, TellWaiting, Off, CallType, Stage, Op
  <2>3. CASE Register
    <3>1. ASSUME NEW g \in call.todo,
                 call' = [call EXCEPT !.pc = "status", !.did = g, !.todo = @ \ {g}]
          PROVE  call' \in CallType /\ call'.pc # "closing"
        BY <3>1 DEF SessionInv, SessionTypeOK, CallType, Stage
    <3>2. ASSUME Goto(IF call.op = "active" THEN "tellWaiting" ELSE "ready")
          PROVE  call' \in CallType /\ call'.pc # "closing"
        BY <1>4, <3>2 DEF Stage
    <3> QED BY <2>3, <3>1, <3>2 DEF Register
  <2>4. CASE UpdateStatus
    <3>1. CASE Return
        BY <1>4, <3>1 DEF Return, SessionInv, SessionTypeOK, CallType, Stage
    <3>2. CASE Throw
        BY <1>4, <3>2 DEF Throw, SessionInv, SessionTypeOK, CallType, Stage
    <3>3. CASE UNCHANGED call
        BY <2>4, <3>3 DEF UpdateStatus, SessionInv, SessionTypeOK
    <3> QED BY <2>4, <3>1, <3>2, <3>3 DEF UpdateStatus
  <2>5. CASE FindActive \/ FindWaiting
      BY <1>4, <2>5 DEF FindActive, FindWaiting, Found, SessionInv, SessionTypeOK, CallType,
                        Stage, Op
  <2> QED BY <2>1, <2>2, <2>3, <2>4, <2>5
<1> QED BY <1>1, <1>2, <1>5, NothingOwed DEF SessionInv, SessionTypeOK

(* The end of the Downloader, of its process, and of the application.      *)
LEMMA EndKeeps ==
    ASSUME SessionInv, Leave \/ DestroyProcess \/ Crash PROVE SessionInv'
<1>1. call' = Off /\ call' \in CallType /\ call'.pc = "off"
  <2>1. call' = Off
      BY DEF Leave, DestroyProcess, Crash, Forget, At, Off, app
  <2> QED BY <2>1, OffIsTyped DEF Off
<1>2. UNCHANGED <<session, owed>>
    BY DEF Leave, DestroyProcess, Crash, aria2c, history
<1>3. CASE Leave
    BY <1>1, <1>2, <1>3
    DEF Leave, aria2c, subprocessVars, SessionInv, SessionTypeOK, Saved, Unsaved, Unfinished
<1>4. CASE DestroyProcess
  <2>1. task' = [g \in Gid |-> NoTask] /\ child' # "runs"
      BY <1>4 DEF DestroyProcess, Destroy, Kill
  <2>2. task' \in [Gid -> Task]
      BY <2>1 DEF NoTask, Task, Status
  <2> QED BY <1>1, <1>2, <2>1, <2>2 DEF SessionInv, SessionTypeOK, Saved
<1>5. CASE Crash
    BY <1>1, <1>2, <1>5 DEF Crash, SessionInv, SessionTypeOK, Saved, Unsaved, Unfinished
<1> QED BY <1>3, <1>4, <1>5

(* The waiting thread and the destructor; and no step at all.              *)
LEMMA OthersKeep ==
    ASSUME SessionInv, UNCHANGED <<aria2c, app, history>>, child' = "runs" => child = "runs"
    PROVE  SessionInv'
BY DEF SessionInv, SessionTypeOK, Saved, Unsaved, Unfinished, Works, aria2c, app, history

(* Every step keeps the invariant of the session.                          *)
LEMMA NextKeepsSessionInv ==
    ASSUME SessionInv, [Next]_vars PROVE SessionInv'
<1>1. CASE Aria2
    BY <1>1, TaskKeeps, Aria2EndsKeeps DEF Aria2
<1>2. CASE Call
    BY <1>2, UriKeeps, ControlKeeps, CloseKeeps, EndKeeps DEF Call
<1>3. CASE Step
    BY <1>3, ConstructKeeps, AskKeeps, ShutdownKeeps, EndKeeps DEF Step
<1>4. CASE (Waiter \/ Destructor) /\ UNCHANGED <<aria2c, app, history>>
  <2>1. child' = "runs" => child = "runs"
      BY <1>4 DEF Waiter, Destructor, SawItRun, SawItEnded, DestroyImpl, Join, Kill
  <2> QED BY <1>4, <2>1, OthersKeep
<1>5. CASE UNCHANGED vars
    BY <1>5, OthersKeep DEF vars, subprocessVars
<1> QED BY <1>1, <1>2, <1>3, <1>4, <1>5, EndKeeps DEF Next

(* Aria2::close saves the session before it tells aria2c to stop: what was *)
(* unfinished then is in the session file when aria2c is gone, killed by   *)
(* the destructor or stopped by itself, for any number of downloads.       *)
THEOREM SessionCorrect == Spec => []ClosedSessionIsSaved
<1>1. Init => SessionInv
  <2> SUFFICES ASSUME Init PROVE SessionInv
      OBVIOUS
  <2>1. NoTask \in Task
      BY DEF NoTask, Task, Status
  <2>2. SessionTypeOK
      BY <2>1, OffIsTyped DEF Init, SessionTypeOK
  <2> QED BY <2>2 DEF Init, Off, SessionInv
<1>2. SessionInv /\ [Next]_vars => SessionInv'
    BY NextKeepsSessionInv
<1>3. SessionInv => ClosedSessionIsSaved
    BY DEF SessionInv, ClosedSessionIsSaved, Saved
<1> QED BY <1>1, <1>2, <1>3, PTL DEF Spec

-----------------------------------------------------------------------------
(***************************************************************************)
(* What the application knows of the downloads is what aria2c does, for    *)
(* any number of downloads and of URIs, and calls that fail anywhere.      *)
(***************************************************************************)

Object == [status : Status, followedBy : Gid \cup {None}, uris : SUBSET (Uri \cup {None})]

(* A metalink is complete when a download of its own has taken its place,  *)
(* and there is never a third.                                             *)
TasksAreRight ==
    /\ task \in [Gid -> Task] /\ session \in [Gid -> Task]
    /\ \A g \in Gid :
        /\ session[g].next = None
        /\ task[g].status = "none" <=> task[g] = NoTask
        /\ session[g].status = "none" <=> session[g] = NoTask
        /\ task[g].next # None =>
            /\ task[g].status = "complete"
            /\ task[g].next \in Gid
            /\ task[task[g].next] # NoTask
            /\ task[task[g].next].next = None
            /\ task[task[g].next].uri \notin Metalink

Constructing ==
    \/ call.pc \in {"connect", "tellActive", "tellWaiting"}
    \/ call.op \in {"active", "waiting"}

(* Where the thread is, and what it has in its hands.                      *)
CallIsRight ==
    /\ call \in CallType
    /\ held \in SUBSET Gid /\ asked \in SUBSET Gid /\ dangling \in SUBSET Gid
    /\ failed \in BOOLEAN /\ missed \in SUBSET Gid
    /\ known \in [Gid -> Object]
    /\ call.pc \in {"off", "connect", "tellActive"} => Known = {} /\ held = {}
    /\ call.pc \in {"register", "status"} \/ call.op \notin {"active", "waiting"}
    /\ call.pc # "register" \/ call.op \in {"active", "waiting"}
    /\ call.pc = "status" => call.did \in Known /\ call.op # "none"
    /\ call.pc \in {"findActive", "findWaiting"} => call.did \in Gid
    /\ call.op \notin {"active", "waiting"} => call.todo = {}
    /\ Constructing => held = {}
    /\ ~failed => dangling = {}
    /\ ~failed /\ call.pc \in {"findActive", "findWaiting"} => call.did \notin held
    /\ asked \subseteq held /\ held \subseteq Known

(* What is known is a download of aria2c, and what follows it is right.    *)
KnownIsThere ==
    Works => /\ \A g \in Known : task[g] # NoTask /\ known[g].followedBy \in {None, task[g].next}
             /\ \A g \in call.todo : task[g] # NoTask

(* A status that is shown as the end of a download is it.                  *)
OverIsOver ==
    \A g \in Gid :
        known[g].status = "removed" \/ (g \in asked /\ known[g].status = "complete") =>
            Chain(g) \cap Unfinished = {}

(* Nothing that is under way is overlooked, but for what waits for the     *)
(* second question of the constructor.                                     *)
NoneOverlooked ==
    ~failed /\ Works /\ call.pc \notin {"off", "connect", "tellActive", "closed"} =>
        \A u \in Unfinished :
            \/ \E x \in Known \cup missed \cup call.todo : u \in Chain(x)
            \/ Asking /\ u \in Waiting

KnownInv ==
    /\ TasksAreRight /\ CallIsRight /\ KnownIsThere /\ OverIsOver /\ NoneOverlooked

-----------------------------------------------------------------------------
(* Tasks.                                                                  *)

LEMMA NoTaskIsTyped == NoTask \in Task /\ NoTask.status = "none" /\ NoTask.next = None
BY DEF NoTask, Task, Status

LEMMA UnfinishedIsLast ==
    ASSUME TasksAreRight, NEW u \in Unfinished
    PROVE  u \in Gid /\ task[u] \in Task /\ task[u].next = None /\ task[u] # NoTask /\ Chain(u) = {u}
<1>1. u \in Gid /\ task[u].status \in {"active", "waiting", "paused"}
    BY DEF Unfinished
<1>2. task[u].next = None
    BY <1>1 DEF TasksAreRight
<1> QED BY <1>1, <1>2, NoTaskIsTyped DEF TasksAreRight, Chain

(* The status of an unfinished download changes, and nothing else of it.   *)
LEMMA StatusChanges ==
    ASSUME TasksAreRight, NEW g \in Unfinished, NEW to \in Status \ {"none"},
           task' = [task EXCEPT ![g].status = to], UNCHANGED session
    PROVE  /\ TasksAreRight'
           /\ \A h \in Gid : /\ Chain(h)' = Chain(h) /\ task'[h].next = task[h].next
                             /\ task'[h].uri = task[h].uri
                             /\ task'[h] # NoTask <=> task[h] # NoTask
           /\ \A h \in Gid \ {g} : task'[h] = task[h]
           /\ task'[g].status = to
<1>1. g \in Gid /\ task[g] \in Task /\ task[g].next = None /\ task[g] # NoTask
    BY UnfinishedIsLast
<1>2. /\ task' \in [Gid -> Task] /\ task'[g] = [task[g] EXCEPT !.status = to]
      /\ \A h \in Gid \ {g} : task'[h] = task[h]
    BY <1>1 DEF TasksAreRight, Task
<1>3. /\ task'[g].status = to /\ task'[g].next = None /\ task'[g].uri = task[g].uri
      /\ task'[g] # NoTask
    BY <1>1, <1>2, NoTaskIsTyped DEF Task
<1>4. \A h \in Gid : /\ task'[h].next = task[h].next /\ task'[h].uri = task[h].uri
                     /\ task'[h] # NoTask <=> task[h] # NoTask
    BY <1>1, <1>2, <1>3
<1>5. TasksAreRight'
    BY <1>1, <1>2, <1>3, <1>4 DEF TasksAreRight
<1> QED BY <1>2, <1>3, <1>4, <1>5 DEF Chain

LEMMA FreshIsFree ==
    ASSUME Free # {} PROVE Fresh \in Gid /\ task[Fresh] = NoTask
<1>1. Fresh \in Free
    BY DEF Fresh
<1> QED BY <1>1 DEF Free

(* A download begins, by itself or in the place of a metalink.             *)
LEMMA TaskIsAdded ==
    ASSUME TasksAreRight, NEW f \in Gid, task[f] = NoTask, NEW new \in Task,
           new.status \notin {"none", "complete"}, new.next = None,
           task' = [task EXCEPT ![f] = new], UNCHANGED session
    PROVE  /\ TasksAreRight'
           /\ \A h \in Gid : Chain(h)' = Chain(h) /\ (task[h] # NoTask => task'[h] # NoTask)
           /\ \A h \in Gid \ {f} : task'[h] = task[h]
           /\ task'[f] = new /\ task'[f] # NoTask
           /\ \A h \in Gid \ {f} : f \notin Chain(h)
<1>1. /\ task' \in [Gid -> Task] /\ task'[f] = new /\ \A h \in Gid \ {f} : task'[h] = task[h]
    BY DEF TasksAreRight
<1>2. new # NoTask
    BY NoTaskIsTyped
<1>3. \A h \in Gid : task[h].next # f
    BY NoneAssumption DEF TasksAreRight
<1>4. \A h \in Gid : task'[h].next = task[h].next
    BY <1>1, NoTaskIsTyped
<1>5. TasksAreRight'
    BY <1>1, <1>2, <1>3, <1>4 DEF TasksAreRight
<1> QED BY <1>1, <1>2, <1>3, <1>4, <1>5 DEF Chain

-----------------------------------------------------------------------------
(* Steps that leave most of the state alone.                               *)

LEMMA TasksStay ==
    ASSUME TasksAreRight, UNCHANGED <<task, session>>
    PROVE  /\ TasksAreRight' /\ Unfinished' = Unfinished /\ Waiting' = Waiting
           /\ \A h : Chain(h)' = Chain(h)
BY DEF TasksAreRight, Unfinished, Waiting, Chain

LEMMA OverStays ==
    ASSUME OverIsOver, UNCHANGED <<known, asked>>,
           \A h \in Gid : Chain(h)' = Chain(h), Unfinished' \subseteq Unfinished
    PROVE  OverIsOver'
BY DEF OverIsOver

(* aria2c goes on, or an application pauses and resumes.                   *)
LEMMA StatusKeepsRest ==
    ASSUME KnownInv, NEW g \in Unfinished, NEW to \in Status \ {"none"},
           task' = [task EXCEPT ![g].status = to],
           UNCHANGED <<session, stopping, child, known, held, asked, dangling>>
    PROVE  /\ TasksAreRight' /\ OverIsOver'
           /\ Unfinished' \subseteq Unfinished
           /\ call'.todo = call.todo => KnownIsThere'
<1>1. /\ TasksAreRight'
      /\ \A h \in Gid : /\ Chain(h)' = Chain(h) /\ task'[h].next = task[h].next
                        /\ task'[h] # NoTask <=> task[h] # NoTask
      /\ \A h \in Gid \ {g} : task'[h] = task[h]
    BY StatusChanges DEF KnownInv
<1>2. Unfinished' \subseteq Unfinished
    BY <1>1 DEF Unfinished
<1>3. OverIsOver'
    BY <1>1, <1>2, OverStays DEF KnownInv
<1>4. Known' = Known /\ (Works' <=> Works) /\ Known \subseteq Gid
    BY DEF Known, Works
<1>5. ASSUME call'.todo = call.todo PROVE KnownIsThere'
  <2>1. call.todo \in SUBSET Gid
      BY DEF KnownInv, CallIsRight, CallType
  <2> QED BY <1>1, <1>4, <1>5, <2>1 DEF KnownInv, KnownIsThere
<1> QED BY <1>1, <1>2, <1>3, <1>5

LEMMA TaskKeepsKnown ==
    ASSUME KnownInv, NEW g \in Gid, TaskStarts(g) \/ TaskCompletes(g) \/ TaskFails(g)
    PROVE  KnownInv'
<1>1. /\ g \in Unfinished /\ Works
      /\ \E to \in Status \ {"none"} : task' = [task EXCEPT ![g].status = to]
    BY DEF TaskStarts, TaskCompletes, TaskFails, Unfinished, Status
<1>2. UNCHANGED <<session, stopping, child, known, call, held, asked, dangling, failed>>
    BY DEF TaskStarts, TaskCompletes, TaskFails, app, history, subprocessVars
<1>3. missed' = missed \/ missed' = missed \cup {g}
    BY DEF TaskStarts, TaskCompletes, TaskFails, history
<1>4. TasksAreRight' /\ OverIsOver' /\ Unfinished' \subseteq Unfinished /\ KnownIsThere'
    BY <1>1, <1>2, StatusKeepsRest
<1>5. CallIsRight'
    BY <1>2, <1>3 DEF KnownInv, CallIsRight, Known, Constructing
<1>6. NoneOverlooked'
  <2> SUFFICES ASSUME ~failed, call.pc \notin {"off", "connect", "tellActive", "closed"},
                      NEW u \in Unfinished'
               PROVE  \/ \E x \in Known \cup missed' \cup call.todo : u \in Chain(x)'
                      \/ Asking /\ u \in Waiting'
      BY <1>2 DEF NoneOverlooked, Known, Asking
  <2>1. /\ \A h \in Gid : Chain(h)' = Chain(h)
        /\ \A h \in Gid \ {g} : task'[h] = task[h]
      BY <1>1, <1>2, StatusChanges DEF KnownInv
  <2>2. \/ \E x \in Known \cup missed \cup call.todo : u \in Chain(x)
        \/ Asking /\ u \in Waiting
      BY <1>1, <1>4 DEF KnownInv, NoneOverlooked
  <2>3. Known \cup missed \cup call.todo \subseteq Gid
      BY DEF Known, KnownInv, CallIsRight, CallType
  <2>4. CASE \E x \in Known \cup missed \cup call.todo : u \in Chain(x)
      BY <1>3, <2>1, <2>3, <2>4
  <2>5. CASE Asking /\ u \in Waiting /\ u # g
      BY <2>1, <2>5 DEF Waiting
  <2>6. CASE Asking /\ u \in Waiting /\ u = g
    <3>1. g \in Chain(g)'
        BY DEF Chain
    <3>2. CASE g \in Known \cup missed' \cup call.todo
        BY <2>6, <3>1, <3>2
    <3>3. CASE g \notin Known \cup missed' \cup call.todo
      <4>1. task[g].status # "active"
          BY <2>6 DEF Waiting
      <4> QED BY <2>6, <3>3, <4>1 DEF TaskStarts, TaskCompletes, TaskFails
    <3> QED BY <3>2, <3>3
  <2> QED BY <2>2, <2>4, <2>5, <2>6
<1> QED BY <1>4, <1>5, <1>6 DEF KnownInv

(* A metalink is in nobody's place, so that it is known itself when it is  *)
(* complete.                                                               *)
LEMMA MetalinkKeepsKnown ==
    ASSUME KnownInv, NEW g \in Gid, MetalinkCompletes(g)
    PROVE  KnownInv'
<1> DEFINE new == [uri |-> Mirror, origin |-> task[g].origin, status |-> "waiting", next |-> None]
           old == [[task[g] EXCEPT !.status = "complete"] EXCEPT !.next = Fresh]
<1>1. /\ Works /\ g \in Unfinished /\ task[g].status = "active" /\ task[g].uri \in Metalink
      /\ Fresh \in Gid /\ task[Fresh] = NoTask
    BY FreshIsFree DEF MetalinkCompletes, Unfinished
<1>2. g # Fresh /\ task[g] \in Task /\ task[g].next = None
    BY <1>1, UnfinishedIsLast DEF KnownInv
<1>3. UNCHANGED <<session, stopping, child, known, call, held, asked, dangling, failed, missed>>
    BY DEF MetalinkCompletes, app, history, subprocessVars
<1>4. /\ task' \in [Gid -> Task]
      /\ task'[g] = old /\ task'[Fresh] = new
      /\ \A h \in Gid \ {g, Fresh} : task'[h] = task[h]
  <2>1. old \in Task
      BY <1>1, <1>2 DEF Task, Status
  <2>2. new \in Task
      BY <1>2, UriAssumption DEF Task, Status
  <2>3. task' = [h \in Gid |-> IF h = Fresh THEN new ELSE IF h = g THEN old ELSE task[h]]
      BY <1>1, <1>2 DEF MetalinkCompletes, KnownInv, TasksAreRight
  <2>4. \A h \in Gid : task[h] \in Task
      BY DEF KnownInv, TasksAreRight
  <2> HIDE DEF old, new
  <2> QED BY <1>1, <1>2, <2>1, <2>2, <2>3, <2>4
<1>5. /\ task'[g].status = "complete" /\ task'[g].next = Fresh /\ task'[g] # NoTask
      /\ task'[Fresh].status = "waiting" /\ task'[Fresh].next = None /\ task'[Fresh].uri = Mirror
      /\ task'[Fresh] # NoTask
  <2>1. old.status = "complete" /\ old.next = Fresh
      BY <1>1, <1>2 DEF Task
  <2>2. new.status = "waiting"
      OBVIOUS
  <2> HIDE DEF old
  <2>3. old # NoTask /\ new # NoTask
      BY <2>1, <2>2, NoTaskIsTyped
  <2> QED BY <1>4, <2>1, <2>3
<1> HIDE DEF old, new
<1>6. \A h \in Gid : task[h].next \notin {g, Fresh}
    BY <1>1, NoneAssumption DEF KnownInv, TasksAreRight
<1>7. TasksAreRight'
  <2>1. \A h \in Gid : session'[h].next = None /\ (session'[h].status = "none" <=> session'[h] = NoTask)
      BY <1>3 DEF KnownInv, TasksAreRight
  <2>2. \A h \in Gid : task'[h].status = "none" <=> task'[h] = NoTask
      BY <1>4, <1>5, NoTaskIsTyped DEF KnownInv, TasksAreRight
  <2>3. ASSUME NEW h \in Gid, task'[h].next # None
        PROVE  /\ task'[h].status = "complete" /\ task'[h].next \in Gid
               /\ task'[task'[h].next] # NoTask /\ task'[task'[h].next].next = None
               /\ task'[task'[h].next].uri \notin Metalink
    <3>1. CASE h = g
        BY <1>1, <1>5, <3>1, UriAssumption
    <3>2. CASE h \in Gid \ {g, Fresh}
        BY <1>4, <1>6, <2>3, <3>2 DEF KnownInv, TasksAreRight
    <3> QED BY <1>5, <2>3, <3>1, <3>2
  <2> QED BY <1>3, <1>4, <2>1, <2>2, <2>3 DEF TasksAreRight, KnownInv
<1>8. /\ \A h \in Gid \ {g} : Chain(h)' = Chain(h) /\ Fresh \notin Chain(h) \ {h}
      /\ Chain(g)' = {g, Fresh} /\ Chain(g) = {g}
    BY <1>1, <1>2, <1>4, <1>5, <1>6, NoTaskIsTyped, NoneAssumption DEF Chain
<1>9. Unfinished' \subseteq Unfinished \cup {Fresh}
    BY <1>4, <1>5 DEF Unfinished
<1>10. Known' = Known /\ Known \in SUBSET Gid /\ Fresh \notin Known /\ known[Fresh].status = "none"
  <2>1. Known' = Known /\ Known \in SUBSET Gid /\ Fresh \notin Known
      BY <1>1, <1>3 DEF Known, KnownInv, KnownIsThere
  <2> QED BY <1>1, <2>1 DEF Known, NoDownload
<1>11. CallIsRight'
    BY <1>3, <1>10 DEF KnownInv, CallIsRight, Constructing
<1>12. KnownIsThere'
  <2>1. Works' /\ call.todo \in SUBSET Gid /\ call'.todo = call.todo
      BY <1>1, <1>3 DEF Works, KnownInv, CallIsRight, CallType
  <2>2. ASSUME NEW h \in Known \cup call.todo PROVE task'[h] # NoTask
      BY <1>1, <1>4, <1>5, <2>1, <1>10 DEF KnownInv, KnownIsThere
  <2>3. ASSUME NEW h \in Known PROVE known'[h].followedBy \in {None, task'[h].next}
    <3>1. known[h].followedBy \in {None, task[h].next} /\ h # Fresh /\ h \in Gid
        BY <1>1, <1>10 DEF KnownInv, KnownIsThere
    <3> QED BY <1>2, <1>3, <1>4, <3>1
  <2> QED BY <1>10, <2>1, <2>2, <2>3 DEF KnownIsThere
<1>13. OverIsOver'
  <2> SUFFICES ASSUME NEW h \in Gid,
                      known[h].status = "removed" \/ (h \in asked /\ known[h].status = "complete")
               PROVE  Chain(h)' \cap Unfinished' = {}
      BY <1>3 DEF OverIsOver
  <2>1. Chain(h) \cap Unfinished = {}
      BY DEF KnownInv, OverIsOver
  <2>2. h # g /\ h # Fresh
      BY <1>1, <1>8, <1>10, <2>1
  <2> QED BY <1>8, <1>9, <2>1, <2>2
<1>14. NoneOverlooked'
  <2> SUFFICES ASSUME ~failed, call.pc \notin {"off", "connect", "tellActive", "closed"},
                      NEW u \in Unfinished'
               PROVE  \/ \E x \in Known \cup missed \cup call.todo : u \in Chain(x)'
                      \/ Asking /\ u \in Waiting'
      BY <1>3, <1>10 DEF NoneOverlooked, Asking
  <2>1. Known \cup missed \cup call.todo \subseteq Gid
      BY DEF Known, KnownInv, CallIsRight, CallType
  <2>2. ASSUME NEW x \in Known \cup missed \cup call.todo PROVE Chain(x) \subseteq Chain(x)'
      BY <1>8, <2>1
  <2>3. CASE u = Fresh
    <3>1. \E x \in Known \cup missed \cup call.todo : g \in Chain(x)
      <4>1. g \notin Waiting
          BY <1>1 DEF Waiting
      <4> QED BY <1>1, <4>1 DEF KnownInv, NoneOverlooked
    <3>2. g \in Known \cup missed \cup call.todo
        BY <1>6, <2>1, <3>1 DEF Chain
    <3> QED BY <1>8, <2>3, <3>2
  <2>4. CASE u # Fresh
    <3>1. u \in Unfinished /\ u # g
      <4>1. task'[g].status \notin {"active", "waiting", "paused"}
          BY <1>5
      <4>2. u # g
          BY <4>1 DEF Unfinished
      <4> QED BY <1>9, <2>4, <4>2
    <3>2. u \in Waiting => u \in Waiting'
        BY <1>4, <2>4, <3>1 DEF Waiting
    <3>3. \/ \E x \in Known \cup missed \cup call.todo : u \in Chain(x)
          \/ Asking /\ u \in Waiting
        BY <1>1, <3>1 DEF KnownInv, NoneOverlooked
    <3> QED BY <2>2, <3>2, <3>3
  <2> QED BY <2>3, <2>4
<1> QED BY <1>7, <1>11, <1>12, <1>13, <1>14 DEF KnownInv

(* A session has no metalink that is complete, and so nobody's place.      *)
LEMMA SessionIsRight ==
    ASSUME TasksAreRight, session' \in {session, ToSave}
    PROVE  /\ session' \in [Gid -> Task]
           /\ \A g \in Gid : /\ session'[g].next = None
                             /\ session'[g].status = "none" <=> session'[g] = NoTask
<1>1. session' \in [Gid -> Task]
    BY ToSaveIsAll DEF TasksAreRight
<1>2. CASE session' = session
    BY <1>1, <1>2 DEF TasksAreRight
<1>3. CASE session' = ToSave
  <2>1. ASSUME NEW g \in Gid
        PROVE  \/ session'[g] = NoTask
               \/ session'[g] = task[g] /\ task[g].status = "paused"
               \/ /\ session'[g] = [task[g] EXCEPT !.status = "waiting"]
                  /\ task[g].status \notin {"none", "complete"}
      BY <1>3 DEF ToSave
  <2>2. ASSUME NEW g \in Gid, task[g].status \notin {"none", "complete"}
        PROVE  task[g] \in Task /\ task[g].next = None
      BY <2>2 DEF TasksAreRight
  <2>3. ASSUME NEW g \in Gid, task[g].status \notin {"none", "complete"}
        PROVE  LET t == [task[g] EXCEPT !.status = "waiting"]
               IN  t.next = None /\ t.status = "waiting"
      BY <2>2, <2>3 DEF Task
  <2> QED BY <1>1, <2>1, <2>2, <2>3, NoTaskIsTyped
<1> QED BY <1>2, <1>3

(* aria2c ends: nothing is under way any more.                             *)
LEMMA NothingUnderWay ==
    ASSUME KnownInv, task' = [g \in Gid |-> NoTask],
           session' \in {session, ToSave}, ~Works', CallIsRight'
    PROVE  KnownInv'
<1>1. TasksAreRight' /\ Unfinished' = {}
    BY SessionIsRight, NoTaskIsTyped DEF KnownInv, TasksAreRight, Unfinished
<1> QED BY <1>1 DEF KnownInv, KnownIsThere, OverIsOver, NoneOverlooked

LEMMA Aria2EndsKeepsKnown ==
    ASSUME KnownInv, Aria2Stops \/ Aria2Crashes PROVE KnownInv'
<1>1. /\ task' = [g \in Gid |-> NoTask] /\ session' \in {session, ToSave} /\ ~Works'
      /\ UNCHANGED <<app, history>>
    BY DEF Aria2Stops, Aria2Crashes, ChildEnds, Works
<1>2. CallIsRight'
    BY <1>1 DEF app, history, KnownInv, CallIsRight, Known, Constructing
<1> QED BY <1>1, <1>2, NothingUnderWay

-----------------------------------------------------------------------------
(* Whoever only asks.                                                      *)

(* Nothing of aria2c changes, and nothing of what is known.                *)
LEMMA OnlyTheCallChanges ==
    ASSUME KnownInv, UNCHANGED <<task, session, known, asked>>,
           Works' => Works, CallIsRight', NoneOverlooked',
           Works => \A g \in call'.todo : task[g] # NoTask
    PROVE  KnownInv'
<1>1. TasksAreRight' /\ OverIsOver'
    BY TasksStay, OverStays DEF KnownInv
<1>2. KnownIsThere'
    BY DEF KnownInv, KnownIsThere, Known
<1> QED BY <1>1, <1>2 DEF KnownInv

LEMMA ConnectKeepsKnown ==
    ASSUME KnownInv, Connect PROVE KnownInv'
<1>1. /\ At("connect") /\ (Goto("tellActive") \/ Goto("off"))
      /\ UNCHANGED <<known, held, asked, dangling, aria2c, history, subprocessVars>>
    BY DEF Connect
<1>2. call.pc = "connect" /\ call' \in CallType /\ call'.pc \in {"tellActive", "off"}
      /\ call'.todo = {} /\ call'.op = "none"
    BY <1>1, GotoIsTyped DEF At, Stage, Goto, Off
<1>3. held = {} /\ Known = {}
    BY <1>2 DEF KnownInv, CallIsRight
<1>4. CallIsRight'
    BY <1>1, <1>2, <1>3 DEF KnownInv, CallIsRight, Known, Constructing, history
<1> QED BY <1>1, <1>2, <1>4, OnlyTheCallChanges
        DEF aria2c, history, subprocessVars, Works, NoneOverlooked

LEMMA TellActiveKeepsKnown ==
    ASSUME KnownInv, TellActive PROVE KnownInv'
<1>1. /\ call.pc = "tellActive" /\ Known = {} /\ held = {}
      /\ UNCHANGED <<known, held, asked, dangling, aria2c, missed, subprocessVars>>
  <2>1. call.pc = "tellActive"
      BY DEF TellActive, At
  <2> QED BY <2>1 DEF TellActive, KnownInv, CallIsRight
<1>2. CASE /\ Works /\ UNCHANGED failed
           /\ call' = [Off EXCEPT !.pc = "register", !.op = "active", !.todo = Active]
  <2>1. /\ call' \in CallType /\ call'.pc = "register" /\ call'.op = "active"
        /\ call'.todo = Active
    <3>1. Active \in SUBSET Gid
        BY DEF Active
    <3> QED BY <1>2, <3>1 DEF Off, CallType, Stage, Op
  <2>2. CallIsRight'
      BY <1>1, <1>2, <2>1 DEF KnownInv, CallIsRight, Known, Constructing
  <2>3. \A g \in Active : task[g] # NoTask
      BY NoTaskIsTyped DEF Active
  <2>4. NoneOverlooked'
    <3>1. ASSUME NEW u \in Unfinished PROVE u \in Active \/ u \in Waiting
        BY DEF Unfinished, Active, Waiting
    <3>2. UNCHANGED <<task, Unfinished, Waiting>> /\ Asking'
        BY <1>1, <2>1 DEF aria2c, Unfinished, Waiting, Asking
    <3>3. \A u \in Active : u \in Chain(u)'
        BY DEF Chain
    <3> QED BY <2>1, <3>1, <3>2, <3>3 DEF NoneOverlooked
  <2> QED BY <1>1, <2>1, <2>2, <2>3, <2>4, OnlyTheCallChanges DEF aria2c, subprocessVars, Works
<1>3. CASE Goto("tellWaiting") /\ failed' = TRUE
  <2>1. call' \in CallType /\ call'.pc = "tellWaiting" /\ call'.op = "none" /\ call'.todo = {}
      BY <1>3, GotoIsTyped DEF Stage, Goto, Off
  <2>2. CallIsRight'
      BY <1>1, <1>3, <2>1 DEF KnownInv, CallIsRight, Known, Constructing
  <2> QED BY <1>1, <1>3, <2>1, <2>2, OnlyTheCallChanges
          DEF aria2c, subprocessVars, Works, NoneOverlooked
<1> QED BY <1>2, <1>3 DEF TellActive

LEMMA TellWaitingKeepsKnown ==
    ASSUME KnownInv, TellWaiting PROVE KnownInv'
<1>1. /\ call.pc = "tellWaiting" /\ held = {} /\ call.todo = {}
      /\ UNCHANGED <<known, held, asked, dangling, aria2c, missed, subprocessVars>>
  <2>1. call.pc = "tellWaiting"
      BY DEF TellWaiting, At
  <2> QED BY <2>1 DEF TellWaiting, KnownInv, CallIsRight, Constructing
<1>2. CASE /\ Works /\ UNCHANGED failed
           /\ call' = [Off EXCEPT !.pc = "register", !.op = "waiting", !.todo = Waiting]
  <2>1. /\ call' \in CallType /\ call'.pc = "register" /\ call'.op = "waiting"
        /\ call'.todo = Waiting
    <3>1. Waiting \in SUBSET Gid
        BY DEF Waiting
    <3> QED BY <1>2, <3>1 DEF Off, CallType, Stage, Op
  <2>2. CallIsRight'
      BY <1>1, <1>2, <2>1 DEF KnownInv, CallIsRight, Known, Constructing
  <2>3. \A g \in Waiting : task[g] # NoTask
      BY NoTaskIsTyped DEF Waiting
  <2>4. NoneOverlooked'
    <3>1. UNCHANGED <<task, Unfinished, Known, missed>> /\ \A h : Chain(h)' = Chain(h)
        BY <1>1 DEF aria2c, Unfinished, Known, Chain
    <3>2. \A u \in Waiting : u \in Chain(u)
        BY DEF Chain
    <3> SUFFICES ASSUME ~failed, NEW u \in Unfinished
                 PROVE  \E x \in Known \cup missed \cup Waiting : u \in Chain(x)
        BY <1>2, <2>1, <3>1 DEF NoneOverlooked
    <3>3. \/ \E x \in Known \cup missed \cup call.todo : u \in Chain(x)
          \/ u \in Waiting
        BY <1>1, <1>2 DEF KnownInv, NoneOverlooked
    <3> QED BY <1>1, <3>2, <3>3
  <2> QED BY <1>1, <2>1, <2>2, <2>3, <2>4, OnlyTheCallChanges DEF aria2c, subprocessVars, Works
<1>3. CASE Goto("ready") /\ failed' = TRUE
  <2>1. call' \in CallType /\ call'.pc = "ready" /\ call'.op = "none" /\ call'.todo = {}
      BY <1>3, GotoIsTyped DEF Stage, Goto, Off
  <2>2. CallIsRight'
      BY <1>1, <1>3, <2>1 DEF KnownInv, CallIsRight, Known, Constructing
  <2> QED BY <1>1, <1>3, <2>1, <2>2, OnlyTheCallChanges
          DEF aria2c, subprocessVars, Works, NoneOverlooked
<1> QED BY <1>2, <1>3 DEF TellWaiting

-----------------------------------------------------------------------------
(* Objects for downloads.                                                  *)

LEMMA NewIsTyped ==
    /\ NewDownload \in Object /\ NewDownload # NoDownload
    /\ NewDownload.status = "unknown" /\ NewDownload.followedBy = None
BY DEF NewDownload, NoDownload, Object, Status

(* A new object for a download that is there, in the place of an old one   *)
(* or of none.                                                             *)
LEMMA NewObject ==
    ASSUME KnownInv, NEW g \in Gid, known' = [known EXCEPT ![g] = NewDownload],
           UNCHANGED <<task, session, asked, stopping, child>>, Works => task[g] # NoTask,
           call'.todo \subseteq call.todo
    PROVE  /\ known' \in [Gid -> Object] /\ Known' = Known \cup {g}
           /\ TasksAreRight' /\ KnownIsThere' /\ OverIsOver'
<1>1. /\ known' \in [Gid -> Object] /\ known'[g] = NewDownload
      /\ \A h \in Gid \ {g} : known'[h] = known[h]
    BY NewIsTyped DEF KnownInv, CallIsRight
<1>2. Known' = Known \cup {g}
    BY <1>1, NewIsTyped DEF Known
<1>3. TasksAreRight' /\ Unfinished' = Unfinished /\ \A h : Chain(h)' = Chain(h)
    BY TasksStay DEF KnownInv
<1>4. OverIsOver'
    BY <1>1, <1>3, NewIsTyped DEF KnownInv, OverIsOver
<1>5. KnownIsThere'
  <2>1. Known \in SUBSET Gid /\ (Works' <=> Works)
      BY DEF Known, Works
  <2> QED BY <1>1, <1>2, <2>1, NewIsTyped DEF KnownInv, KnownIsThere
<1> QED BY <1>1, <1>2, <1>3, <1>4, <1>5

LEMMA RegisterKeepsKnown ==
    ASSUME KnownInv, Register PROVE KnownInv'
<1>1. /\ call.pc = "register" /\ call.op \in {"active", "waiting"} /\ call \in CallType
      /\ held = {}
      /\ UNCHANGED <<held, asked, dangling, aria2c, history, subprocessVars>>
    BY DEF Register, KnownInv, CallIsRight, Constructing
<1>2. UNCHANGED <<task, session, stopping, child, failed, missed>>
      /\ (Works' <=> Works) /\ UNCHANGED Unfinished /\ (\A h : Chain(h)' = Chain(h))
      /\ UNCHANGED Waiting
    BY <1>1 DEF aria2c, history, subprocessVars, Works, Unfinished, Chain, Waiting
<1>3. ASSUME NEW g \in call.todo, known' = [known EXCEPT ![g] = NewDownload],
             call' = [call EXCEPT !.pc = "status", !.did = g, !.todo = @ \ {g}]
      PROVE  KnownInv'
  <2>1. /\ g \in Gid /\ call' \in CallType /\ call'.pc = "status" /\ call'.op = call.op
        /\ call'.did = g /\ call'.todo = call.todo \ {g}
      BY <1>1, <1>3 DEF CallType, Stage
  <2>2. Works => task[g] # NoTask
      BY DEF KnownInv, KnownIsThere
  <2>3. /\ known' \in [Gid -> Object] /\ Known' = Known \cup {g}
        /\ TasksAreRight' /\ KnownIsThere' /\ OverIsOver'
      BY <1>1, <1>2, <1>3, <2>1, <2>2, NewObject
  <2>4. CallIsRight'
      BY <1>1, <1>2, <2>1, <2>3 DEF KnownInv, CallIsRight, Constructing
  <2>5. NoneOverlooked'
    <3>1. Known \cup missed \cup call.todo = Known' \cup missed \cup call'.todo
        BY <2>1, <2>3
    <3>2. Asking' <=> Asking
        BY <1>1, <2>1 DEF Asking
    <3> QED BY <1>1, <1>2, <2>1, <3>1, <3>2 DEF KnownInv, NoneOverlooked
  <2> QED BY <2>3, <2>4, <2>5 DEF KnownInv
<1>4. CASE /\ call.todo = {} /\ UNCHANGED known
           /\ Goto(IF call.op = "active" THEN "tellWaiting" ELSE "ready")
  <2>1. /\ call' \in CallType /\ call'.op = "none" /\ call'.todo = {}
        /\ call'.pc = IF call.op = "active" THEN "tellWaiting" ELSE "ready"
      BY <1>4, GotoIsTyped DEF Stage, Goto, Off
  <2>2. CallIsRight'
      BY <1>1, <1>2, <1>4, <2>1 DEF KnownInv, CallIsRight, Constructing, Known
  <2>3. NoneOverlooked'
    <3>1. Asking => Asking'
        BY <1>1, <2>1 DEF Asking
    <3>2. Known' = Known
        BY <1>4 DEF Known
    <3> QED BY <1>1, <1>2, <1>4, <2>1, <3>1, <3>2 DEF KnownInv, NoneOverlooked
  <2> QED BY <1>1, <1>2, <1>4, <2>1, <2>2, <2>3, OnlyTheCallChanges
<1> QED BY <1>3, <1>4 DEF Register

-----------------------------------------------------------------------------
(* Download::updateStatus.                                                 *)

(* The call it is part of goes on, or has its result.                      *)
LEMMA ReturnIsTyped ==
    ASSUME KnownInv, call.pc = "status", Return
    PROVE  /\ call' \in CallType
           /\ \/ /\ call.op \in {"active", "waiting"} /\ call'.pc = "register"
                 /\ call'.op = call.op /\ call'.todo = call.todo /\ UNCHANGED <<held, asked>>
              \/ /\ call.op \notin {"active", "waiting"} /\ call'.pc = "ready"
                 /\ call'.op = "none" /\ call'.todo = {} /\ call.todo = {}
                 /\ held' = held \cup {call.did} /\ asked' = asked \cup {call.did}
<1>1. call \in CallType
    BY DEF KnownInv, CallIsRight
<1>2. CASE call.op \in {"active", "waiting"}
    BY <1>1, <1>2 DEF Return, CallType, Stage
<1>3. CASE call.op \notin {"active", "waiting"}
  <2>1. Goto("ready") /\ held' = held \cup {call.did} /\ asked' = asked \cup {call.did}
      BY <1>3 DEF Return
  <2> QED BY <1>3, <2>1, GotoIsTyped DEF Goto, Off, Stage, KnownInv, CallIsRight
<1> QED BY <1>2, <1>3

(* The result is right for whoever asked.                                  *)
LEMMA ReturnKeepsCall ==
    ASSUME KnownInv, call.pc = "status", Return, known' \in [Gid -> Object], Known' = Known,
           UNCHANGED <<dangling, failed, missed>>
    PROVE  CallIsRight'
<1>1. call.did \in Known /\ Known \in SUBSET Gid
    BY DEF Known, KnownInv, CallIsRight
<1>2. CASE call.op \in {"active", "waiting"}
    BY <1>1, <1>2, ReturnIsTyped DEF KnownInv, CallIsRight, Constructing
<1>3. CASE call.op \notin {"active", "waiting"}
    BY <1>1, <1>3, ReturnIsTyped DEF KnownInv, CallIsRight, Constructing
<1> QED BY <1>2, <1>3

LEMMA ReturnOverlooksNone ==
    ASSUME KnownInv, call.pc = "status", Return, Known' = Known,
           UNCHANGED <<task, stopping, child, failed, missed>>
    PROVE  NoneOverlooked'
<1>1. /\ Works' <=> Works /\ UNCHANGED <<Unfinished, Waiting>> /\ \A h : Chain(h)' = Chain(h)
    BY DEF Works, Unfinished, Waiting, Chain
<1>2. call'.todo = call.todo /\ (Asking' <=> Asking)
    BY ReturnIsTyped DEF Asking
<1> QED BY <1>1, <1>2 DEF KnownInv, NoneOverlooked

(* Who follows a download that is known.                                   *)
LEMMA TargetIsThere ==
    ASSUME KnownInv, Works, NEW did \in Known
    PROVE  LET t == Target(did, TRUE) IN
           /\ did \in Gid /\ t \in Gid /\ task[t] \in Task /\ task[t] # NoTask
           /\ known[did].followedBy = None => t = did
           /\ known[did].followedBy # None =>
                /\ t = known[did].followedBy /\ t = task[did].next
                /\ task[did].status = "complete" /\ task[t].next = None
<1>1. /\ did \in Gid /\ task[did] # NoTask /\ known[did].followedBy \in {None, task[did].next}
    BY DEF Known, KnownInv, KnownIsThere
<1> QED BY <1>1 DEF Target, KnownInv, TasksAreRight

LEMMA UpdateStatusKeepsKnown ==
    ASSUME KnownInv, UpdateStatus PROVE KnownInv'
<1> DEFINE did == call.did
           t == Target(did, Follow)
           next == IF task[t].next # None THEN task[t].next ELSE known[did].followedBy
<1>1. /\ call.pc = "status" /\ did \in Known /\ did \in Gid /\ known[did] \in Object
      /\ UNCHANGED <<task, session, stopping, child, dangling, missed>>
      /\ Works' <=> Works
      /\ UNCHANGED <<Unfinished, Waiting>> /\ \A h : Chain(h)' = Chain(h)
    BY DEF UpdateStatus, aria2c, subprocessVars, Known, KnownInv, CallIsRight, Works, Unfinished,
           Waiting, Chain
<1>2. TasksAreRight'
    BY <1>1, TasksStay DEF KnownInv
<1>3. CASE known[did].status = "removed" /\ Return /\ UNCHANGED <<known, failed>>
  <2>1. Known' = Known /\ known' \in [Gid -> Object]
      BY <1>3 DEF Known, KnownInv, CallIsRight
  <2>2. asked' \subseteq asked \cup {did} /\ call'.todo = call.todo
      BY <1>1, <1>3, ReturnIsTyped
  <2>3. OverIsOver'
      BY <1>1, <1>3, <2>2 DEF KnownInv, OverIsOver
  <2>4. KnownIsThere'
      BY <1>1, <1>3, <2>1, <2>2 DEF KnownInv, KnownIsThere
  <2> QED BY <1>1, <1>2, <1>3, <2>1, <2>3, <2>4, ReturnKeepsCall, ReturnOverlooksNone DEF KnownInv
<1>4. ASSUME Works PROVE t \in Gid /\ task[t] \in Task /\ task[t] # NoTask /\ next \in Gid \cup {None}
                         /\ next \in {None, task[did].next}
  <2>1. t \in {did, Target(did, TRUE)} /\ (~Follow => t = did) /\ (Follow => t = Target(did, TRUE))
      BY DEF Target
  <2>2. t \in Gid /\ task[t] \in Task /\ task[t] # NoTask
    <3>1. CASE t = did
        BY <1>1, <1>4, <3>1 DEF KnownInv, KnownIsThere, TasksAreRight
    <3>2. CASE t = Target(did, TRUE)
      <4> HIDE DEF t
      <4> QED BY <1>1, <1>4, <3>2, TargetIsThere
    <3> QED BY <2>1, <3>1, <3>2
  <2>3. known[did].followedBy \in {None, task[did].next}
      BY <1>1, <1>4 DEF KnownInv, KnownIsThere
  <2>4. task[t].next \in {None, task[did].next}
      BY <1>1, <1>4, <2>1, TargetIsThere
  <2>5. next \in {None, task[did].next} /\ task[did].next \in Gid \cup {None}
      BY <1>1, <2>3, <2>4 DEF KnownInv, TasksAreRight, Task
  <2> QED BY <2>2, <2>5
<1>5. CASE /\ Works /\ Follow /\ task[t].next # None
           /\ known' = [known EXCEPT ![did].followedBy = next]
           /\ UNCHANGED <<call, held, asked, failed>>
  <2>1. /\ known' \in [Gid -> Object] /\ known'[did].followedBy = next
        /\ known'[did].status = known[did].status
        /\ \A h \in Gid \ {did} : known'[h] = known[h]
      BY <1>1, <1>4, <1>5 DEF KnownInv, CallIsRight, Object
  <2>2. Known' = Known
    <3>1. known'[did].followedBy # None
        BY <1>5, <2>1
    <3>2. known'[did] # NoDownload /\ known[did] # NoDownload
        BY <1>1, <3>1 DEF NoDownload, Known
    <3> QED BY <1>1, <2>1, <3>2 DEF Known
  <2>3. CallIsRight'
      BY <1>1, <1>5, <2>1, <2>2 DEF KnownInv, CallIsRight, Constructing
  <2>4. KnownIsThere'
    <3>1. Known \in SUBSET Gid
        BY DEF Known
    <3> QED BY <1>1, <1>4, <1>5, <2>1, <2>2, <3>1 DEF KnownInv, KnownIsThere
  <2>5. OverIsOver'
      BY <1>1, <1>5, <2>1 DEF KnownInv, OverIsOver
  <2>6. NoneOverlooked'
      BY <1>1, <1>5, <2>2 DEF KnownInv, NoneOverlooked, Asking
  <2> QED BY <1>2, <2>3, <2>4, <2>5, <2>6 DEF KnownInv
<1>6. CASE /\ Works /\ (~Follow \/ task[t].next = None)
           /\ known' = [known EXCEPT ![did] = [status |-> task[t].status, uris |-> {task[t].uri},
                                               followedBy |-> next]]
           /\ Return /\ UNCHANGED failed
  <2>1. /\ known' \in [Gid -> Object] /\ known'[did].followedBy = next
        /\ known'[did].status = task[t].status /\ known'[did].uris # {}
        /\ \A h \in Gid \ {did} : known'[h] = known[h]
    <3>1. [status |-> task[t].status, uris |-> {task[t].uri}, followedBy |-> next] \in Object
        BY <1>4, <1>6 DEF Object, Task
    <3> HIDE DEF next
    <3> QED BY <1>1, <1>6, <3>1 DEF KnownInv, CallIsRight
  <2>2. Known' = Known
      BY <1>1, <2>1 DEF Known, NoDownload
  <2>3. call'.todo = call.todo /\ asked' \subseteq asked \cup {did}
      BY <1>1, <1>6, ReturnIsTyped
  <2>4. KnownIsThere'
    <3>1. Known \in SUBSET Gid
        BY DEF Known
    <3> QED BY <1>1, <1>4, <1>6, <2>1, <2>2, <2>3, <3>1 DEF KnownInv, KnownIsThere
  <2>5. OverIsOver'
    <3> SUFFICES ASSUME NEW h \in Gid,
                        \/ known'[h].status = "removed"
                        \/ h \in asked' /\ known'[h].status = "complete"
                 PROVE  Chain(h) \cap Unfinished = {}
        BY <1>1 DEF OverIsOver
    <3>1. CASE h # did
        BY <2>1, <2>3, <3>1 DEF KnownInv, OverIsOver
    <3>2. CASE h = did /\ Follow
      <4>1. t = Target(did, TRUE) /\ task[t].next = None
          BY <1>6, <3>2
      <4>2. task[t].status \in {"removed", "complete"}
          BY <2>1, <3>2
      <4>3. CASE known[did].followedBy = None
        <5>1. t = did
            BY <4>1, <4>3 DEF Target
        <5> QED BY <3>2, <4>1, <4>2, <5>1 DEF Chain, Unfinished
      <4>4. CASE known[did].followedBy # None
        <5>1. t = task[did].next /\ t \in Gid /\ task[did].status = "complete"
            BY <1>1, <1>6, <4>1, <4>4, TargetIsThere
        <5>2. Chain(did) = {did, t}
            BY <5>1, NoneAssumption DEF Chain
        <5>3. did \notin Unfinished /\ t \notin Unfinished
            BY <4>2, <5>1 DEF Unfinished
        <5> QED BY <3>2, <5>2, <5>3
      <4> QED BY <4>3, <4>4
    <3>3. CASE h = did /\ ~Follow
      <4>1. t = did /\ did \notin asked'
        <5>1. call.op \in {"active", "waiting"}
            BY <3>3 DEF Follow
        <5>2. asked = {} /\ asked' = asked
            BY <1>1, <1>6, <5>1, ReturnIsTyped DEF KnownInv, CallIsRight, Constructing
        <5> QED BY <3>3, <5>2 DEF Target
      <4>2. task[did].status = "removed"
          BY <2>1, <3>3, <4>1
      <4>3. task[did].next = None
          BY <1>1, <4>2 DEF KnownInv, TasksAreRight
      <4> QED BY <3>3, <4>2, <4>3 DEF Chain, Unfinished
    <3> QED BY <3>1, <3>2, <3>3
  <2> QED BY <1>1, <1>2, <1>6, <2>1, <2>2, <2>4, <2>5, ReturnKeepsCall, ReturnOverlooksNone
          DEF KnownInv
<1>7. CASE Throw /\ failed' = TRUE /\ UNCHANGED <<known, held, asked>>
  <2>1. call \in CallType /\ call.op # "none"
      BY <1>1 DEF KnownInv, CallIsRight
  <2>2. /\ call' \in CallType
        /\ \/ call.op = "active" /\ call'.pc = "tellWaiting" /\ call'.op = "none" /\ call'.todo = {}
           \/ call.op = "get" /\ call'.pc = "findActive" /\ call'.op = "get" /\ call'.did = did
              /\ call'.todo = call.todo
           \/ call.op # "active" /\ call'.pc = "ready" /\ call'.op = "none" /\ call'.todo = {}
    <3>1. CASE call.op = "active"
        BY <1>7, <3>1, GotoIsTyped DEF Throw, Goto, Off, Stage
    <3>2. CASE call.op = "get"
        BY <1>7, <2>1, <3>2 DEF Throw, CallType, Stage
    <3>3. CASE call.op \notin {"active", "get"}
        BY <1>7, <3>3, GotoIsTyped DEF Throw, Goto, Off, Stage
    <3> QED BY <3>1, <3>2, <3>3
  <2>3. CallIsRight'
      BY <1>1, <1>7, <2>2 DEF KnownInv, CallIsRight, Known, Constructing
  <2>4. NoneOverlooked'
      BY <1>7 DEF NoneOverlooked
  <2>5. Works => \A g \in call'.todo : task[g] # NoTask
      BY <2>2 DEF KnownInv, KnownIsThere
  <2> QED BY <1>1, <1>7, <2>3, <2>4, <2>5, OnlyTheCallChanges
<1> QED BY <1>3, <1>5, <1>6, <1>7 DEF UpdateStatus

-----------------------------------------------------------------------------
(* The calls of the application.                                           *)

LEMMA FoundKeepsKnown ==
    ASSUME KnownInv, call.pc \in {"findActive", "findWaiting"}, task[call.did] # NoTask, Found,
           UNCHANGED <<held, asked, aria2c, missed, failed, subprocessVars>>
    PROVE  KnownInv'
<1>1. call \in CallType /\ call.did \in Gid /\ call.todo = {} /\ ~Asking
    BY DEF KnownInv, CallIsRight, Asking
<1>2. call' \in CallType /\ call'.pc = "status" /\ call'.op = "again" /\ call'.did = call.did
      /\ call'.todo = {}
    BY <1>1 DEF Found, CallType, Stage, Op
<1>3. known' = [known EXCEPT ![call.did] = NewDownload]
      /\ UNCHANGED <<task, session, asked, stopping, child>>
    BY DEF Found, aria2c, subprocessVars
<1>4. /\ known' \in [Gid -> Object] /\ Known' = Known \cup {call.did}
      /\ TasksAreRight' /\ KnownIsThere' /\ OverIsOver'
    BY <1>1, <1>2, <1>3, NewObject
<1>5. dangling' \in SUBSET Gid /\ (~failed => dangling' = {})
    BY DEF Found, KnownInv, CallIsRight
<1>6. CallIsRight'
    BY <1>1, <1>2, <1>4, <1>5 DEF KnownInv, CallIsRight, Constructing
<1>7. NoneOverlooked'
  <2>1. UNCHANGED Unfinished /\ (Works' <=> Works) /\ \A h : Chain(h)' = Chain(h)
      BY <1>3 DEF Unfinished, Works, Chain
  <2> QED BY <1>1, <1>2, <1>4, <2>1 DEF KnownInv, NoneOverlooked
<1> QED BY <1>4, <1>6, <1>7 DEF KnownInv

(* An application that is ready, or looks for a download, asks no more.    *)
LEMMA GoesOnReady ==
    ASSUME KnownInv, call.pc \in {"findActive", "findWaiting"}, Goto("ready"),
           UNCHANGED <<known, held, asked, dangling, aria2c, missed, subprocessVars>>,
           UNCHANGED failed \/ failed' = TRUE
    PROVE  KnownInv'
<1>1. call' \in CallType /\ call'.pc = "ready" /\ call'.op = "none" /\ call'.todo = {}
    BY GotoIsTyped DEF Goto, Off, Stage
<1>2. CallIsRight'
    BY <1>1 DEF KnownInv, CallIsRight, Known, Constructing
<1>3. call.todo = {} /\ ~Asking
    BY DEF KnownInv, CallIsRight, Asking
<1>4. UNCHANGED Unfinished /\ (Works' <=> Works) /\ (\A h : Chain(h)' = Chain(h)) /\ Known' = Known
    BY DEF Unfinished, Works, Chain, Known, aria2c, subprocessVars
<1>5. NoneOverlooked'
    BY <1>1, <1>3, <1>4 DEF KnownInv, NoneOverlooked
<1> QED BY <1>1, <1>2, <1>4, <1>5, OnlyTheCallChanges DEF aria2c

LEMMA FindKeepsKnown ==
    ASSUME KnownInv, FindActive \/ FindWaiting PROVE KnownInv'
<1>1. /\ call.pc \in {"findActive", "findWaiting"}
      /\ UNCHANGED <<held, asked, aria2c, missed, subprocessVars>>
    BY DEF FindActive, FindWaiting
<1>2. CASE Found /\ UNCHANGED failed /\ call.did \in Active \cup Waiting
  <2>1. task[call.did] # NoTask
      BY <1>2, NoTaskIsTyped DEF Active, Waiting
  <2> QED BY <1>1, <1>2, <2>1, FoundKeepsKnown
<1>3. CASE Goto("ready") /\ UNCHANGED <<known, dangling>> /\ (UNCHANGED failed \/ failed' = TRUE)
    BY <1>1, <1>3, GoesOnReady
<1>4. CASE /\ call.pc = "findActive" /\ call' = [call EXCEPT !.pc = "findWaiting"]
           /\ UNCHANGED <<known, dangling, failed>>
  <2>1. call' \in CallType /\ call'.pc = "findWaiting" /\ call'.op = call.op
        /\ call'.did = call.did /\ call'.todo = call.todo
      BY <1>4 DEF KnownInv, CallIsRight, CallType, Stage
  <2>2. CallIsRight'
      BY <1>1, <1>4, <2>1 DEF KnownInv, CallIsRight, Known, Constructing
  <2>3. UNCHANGED <<Unfinished, Waiting>> /\ (Works' <=> Works) /\ (\A h : Chain(h)' = Chain(h))
        /\ Known' = Known
      BY <1>1, <1>4 DEF Unfinished, Waiting, Works, Chain, Known, aria2c, subprocessVars
  <2>4. NoneOverlooked'
      BY <1>1, <1>4, <2>1, <2>3 DEF KnownInv, NoneOverlooked, Asking
  <2>5. Works => \A g \in call'.todo : task[g] # NoTask
      BY <2>1 DEF KnownInv, KnownIsThere
  <2> QED BY <1>1, <1>4, <2>2, <2>3, <2>4, <2>5, OnlyTheCallChanges DEF aria2c
<1> QED BY <1>2, <1>3, <1>4 DEF FindActive, FindWaiting

(* close() and its second call.                                            *)
LEMMA CloseKeepsKnown ==
    ASSUME KnownInv, Close \/ Shutdown PROVE KnownInv'
<1>1. /\ call.pc \in {"ready", "closing"} /\ call.op = "none" /\ call.todo = {}
      /\ UNCHANGED <<task, known, held, asked, dangling, missed, child>>
      /\ session' \in {session, ToSave} /\ (stopping' = stopping \/ stopping' = TRUE)
  <2>1. At("ready") \/ At("closing")
      BY DEF Close, Shutdown
  <2>2. call.pc \in {"ready", "closing"} /\ call.op = "none" /\ call.todo = {}
      BY <2>1 DEF At
  <2>3. /\ UNCHANGED <<task, known, held, asked, dangling, missed, child>>
        /\ session' \in {session, ToSave} /\ (stopping' = stopping \/ stopping' = TRUE)
      BY DEF Close, Shutdown, subprocessVars
  <2> QED BY <2>2, <2>3
<1>2. \/ Goto("closed") /\ (UNCHANGED failed \/ failed' = TRUE)
      \/ Goto("closing") /\ UNCHANGED <<failed, stopping>> /\ call.pc = "ready"
  <2>1. CASE Close
    <3>1. At("ready")
        BY <2>1 DEF Close
    <3>2. call.pc = "ready"
        BY <3>1 DEF At
    <3> QED BY <2>1, <3>2 DEF Close
  <2>2. CASE Shutdown
      BY <2>2 DEF Shutdown
  <2> QED BY <2>1, <2>2
<1>3. /\ call' \in CallType /\ call'.pc \in {"closing", "closed"} /\ call'.op = "none"
      /\ call'.todo = {}
      /\ call'.pc = "closing" => UNCHANGED <<failed, stopping>> /\ call.pc = "ready"
      /\ failed' \in BOOLEAN /\ (~failed' => ~failed)
    BY <1>2, GotoIsTyped DEF Goto, Off, Stage, KnownInv, CallIsRight
<1>4. UNCHANGED Unfinished /\ (Works' => Works) /\ (\A h : Chain(h)' = Chain(h)) /\ Known' = Known
    BY <1>1 DEF Unfinished, Works, Chain, Known
<1>5. TasksAreRight'
    BY <1>1, SessionIsRight DEF KnownInv, TasksAreRight
<1>6. CallIsRight'
    BY <1>1, <1>3, <1>4 DEF KnownInv, CallIsRight, Constructing
<1>7. KnownIsThere' /\ OverIsOver'
    BY <1>1, <1>3, <1>4 DEF KnownInv, KnownIsThere, OverIsOver
<1>8. NoneOverlooked'
    BY <1>1, <1>3, <1>4 DEF KnownInv, NoneOverlooked, Asking
<1> QED BY <1>5, <1>6, <1>7, <1>8 DEF KnownInv

(* startDownload. *)
LEMMA StartKnownKeepsKnown ==
    ASSUME KnownInv, NEW uri \in Wanted, StartKnown(uri) PROVE KnownInv'
<1>1. /\ At("ready")
      /\ \E g \in Known : held' = held \cup {g}
      /\ UNCHANGED <<known, call, asked, dangling, aria2c, history, subprocessVars>>
    BY DEF StartKnown
<1>2. call.pc = "ready" /\ call.op = "none"
    BY <1>1 DEF At
<1>3. CallIsRight'
    BY <1>1, <1>2 DEF KnownInv, CallIsRight, Known, Constructing, history
<1>4. UNCHANGED <<Unfinished, Waiting>> /\ (Works' <=> Works) /\ (\A h : Chain(h)' = Chain(h))
      /\ Known' = Known
    BY <1>1 DEF Unfinished, Waiting, Works, Chain, Known, aria2c, subprocessVars
<1>5. NoneOverlooked'
    BY <1>1, <1>4 DEF KnownInv, NoneOverlooked, Asking, history
<1>6. Works => \A g \in call'.todo : task[g] # NoTask
    BY <1>1 DEF KnownInv, KnownIsThere
<1> QED BY <1>1, <1>3, <1>4, <1>5, <1>6, OnlyTheCallChanges DEF aria2c

LEMMA StartNewKeepsKnown ==
    ASSUME KnownInv, NEW uri \in Wanted, StartNew(uri) PROVE KnownInv'
<1> DEFINE new == [uri |-> uri, origin |-> uri, status |-> "waiting", next |-> None]
<1>1. /\ call.pc = "ready" /\ call.op = "none" /\ call.todo = {}
      /\ UNCHANGED <<session, stopping, call, dangling, missed, child>>
  <2>1. At("ready")
      BY DEF StartNew
  <2> QED BY <2>1 DEF At, StartNew, subprocessVars
<1>2. ASSUME Free # {}, AddUri(uri)
      PROVE  /\ Fresh \notin Known \/ ~Works
             /\ TasksAreRight'
             /\ \A h \in Gid : Chain(h)' = Chain(h) /\ (task[h] # NoTask => task'[h] # NoTask)
             /\ \A h \in Gid \ {Fresh} : task'[h] = task[h] /\ Fresh \notin Chain(h)
             /\ Fresh \in Gid /\ task'[Fresh] # NoTask
  <2>1. new \in Task /\ new.status \notin {"none", "complete"} /\ new.next = None
      BY UriAssumption DEF Task, Status
  <2>2. Fresh \in Gid /\ task[Fresh] = NoTask /\ task' = [task EXCEPT ![Fresh] = new]
      BY <1>2, FreshIsFree DEF AddUri
  <2> HIDE DEF new
  <2>3. Fresh \notin Known \/ ~Works
      BY <2>2 DEF KnownInv, KnownIsThere
  <2> QED BY <1>1, <2>1, <2>2, <2>3, TaskIsAdded DEF KnownInv
<1>3. Known \in SUBSET Gid /\ (Works' <=> Works) /\ Constructing' = Constructing
    BY <1>1 DEF Known, Works, Constructing
<1>4. CASE /\ Works /\ Free # {} /\ AddUri(uri)
           /\ known' = [known EXCEPT ![Fresh] = NewDownload]
           /\ held' = held \cup {Fresh} /\ asked' = asked \cup {Fresh} /\ UNCHANGED failed
  <2>1. /\ known' \in [Gid -> Object] /\ known'[Fresh] = NewDownload
        /\ \A h \in Gid \ {Fresh} : known'[h] = known[h]
      BY <1>2, <1>4, NewIsTyped DEF KnownInv, CallIsRight
  <2>2. Known' = Known \cup {Fresh}
      BY <1>2, <1>4, <2>1, NewIsTyped DEF Known
  <2>3. CallIsRight'
    <3>1. held' \in SUBSET Gid /\ asked' \in SUBSET Gid /\ asked' \subseteq held'
          /\ held' \subseteq Known'
        BY <1>2, <1>4, <2>2 DEF KnownInv, CallIsRight
    <3> QED BY <1>1, <1>3, <1>4, <2>1, <3>1 DEF KnownInv, CallIsRight, Constructing
  <2>4. KnownIsThere'
    <3>1. ASSUME NEW h \in Known PROVE known'[h] = known[h] /\ task'[h] = task[h]
        BY <1>2, <1>3, <1>4, <2>1
    <3> QED BY <1>1, <1>2, <1>4, <2>1, <2>2, <3>1, NewIsTyped DEF KnownInv, KnownIsThere
  <2>5. Unfinished' \subseteq Unfinished \cup {Fresh}
      BY <1>2, <1>4 DEF Unfinished
  <2>6. OverIsOver'
      BY <1>2, <1>4, <2>1, <2>5, NewIsTyped DEF KnownInv, OverIsOver
  <2>7. NoneOverlooked'
    <3> SUFFICES ASSUME ~failed, NEW u \in Unfinished'
                 PROVE  \E x \in Known' \cup missed : u \in Chain(x)'
        BY <1>1, <1>4 DEF NoneOverlooked
    <3>1. CASE u = Fresh
        BY <2>2, <3>1 DEF Chain
    <3>2. CASE u \in Unfinished
      <4>1. \E x \in Known \cup missed : u \in Chain(x)
          BY <1>1, <1>4, <3>2 DEF KnownInv, NoneOverlooked, Asking
      <4>2. Known \cup missed \subseteq Gid
          BY <1>3 DEF KnownInv, CallIsRight
      <4> QED BY <1>2, <1>4, <2>2, <4>1, <4>2
    <3> QED BY <2>5, <3>1, <3>2
  <2> QED BY <1>2, <1>4, <2>3, <2>4, <2>6, <2>7 DEF KnownInv
<1>5. CASE /\ (Works /\ Free # {} /\ AddUri(uri)) \/ UNCHANGED task
           /\ failed' = TRUE /\ UNCHANGED <<known, held, asked>>
  <2>1. Known' = Known
      BY <1>5 DEF Known
  <2>2. CallIsRight' /\ NoneOverlooked'
      BY <1>1, <1>3, <1>5, <2>1 DEF KnownInv, CallIsRight, NoneOverlooked, Constructing
  <2>3. TasksAreRight' /\ KnownIsThere' /\ OverIsOver'
    <3>1. CASE UNCHANGED task
      <4>1. TasksAreRight' /\ OverIsOver'
          BY <1>1, <1>5, <3>1, TasksStay, OverStays DEF KnownInv
      <4> QED BY <1>1, <1>3, <1>5, <2>1, <3>1, <4>1 DEF KnownInv, KnownIsThere
    <3>2. CASE Works /\ Free # {} /\ AddUri(uri)
      <4>1. Unfinished' \subseteq Unfinished \cup {Fresh}
          BY <1>2, <3>2 DEF Unfinished
      <4>2. known[Fresh].status = "none"
          BY <1>2, <3>2 DEF Known, NoDownload
      <4>3. OverIsOver'
          BY <1>2, <1>5, <3>2, <4>1, <4>2 DEF KnownInv, OverIsOver
      <4>4. ASSUME NEW h \in Known PROVE task'[h] = task[h]
          BY <1>2, <1>3, <3>2
      <4> QED BY <1>1, <1>2, <1>3, <1>5, <2>1, <3>2, <4>3, <4>4 DEF KnownInv, KnownIsThere
    <3> QED BY <1>5, <3>1, <3>2
  <2> QED BY <2>2, <2>3 DEF KnownInv
<1> QED BY <1>4, <1>5 DEF StartNew

LEMMA GetDownloadKeepsKnown ==
    ASSUME KnownInv, NEW did \in Gid, GetDownload(did) PROVE KnownInv'
<1>1. /\ call.pc = "ready" /\ call.op = "none"
      /\ UNCHANGED <<known, held, asked, dangling, aria2c, history, subprocessVars>>
  <2>1. At("ready")
      BY DEF GetDownload
  <2> QED BY <2>1 DEF At, GetDownload
<1>2. /\ call' \in CallType /\ call'.op = "get" /\ call'.did = did /\ call'.todo = {}
      /\ call'.pc = IF did \in Known THEN "status" ELSE "findActive"
    BY DEF GetDownload, Off, CallType, Stage, Op
<1>3. CallIsRight'
    BY <1>1, <1>2 DEF KnownInv, CallIsRight, Known, Constructing, history
<1>4. UNCHANGED <<Unfinished, Waiting>> /\ (Works' <=> Works) /\ (\A h : Chain(h)' = Chain(h))
      /\ Known' = Known
    BY <1>1 DEF Unfinished, Waiting, Works, Chain, Known, aria2c, subprocessVars
<1>5. NoneOverlooked'
  <2>1. call.todo = {}
      BY <1>1 DEF KnownInv, CallIsRight
  <2> QED BY <1>1, <1>2, <1>4, <2>1 DEF KnownInv, NoneOverlooked, Asking, history
<1> QED BY <1>1, <1>2, <1>3, <1>4, <1>5, OnlyTheCallChanges DEF aria2c

(* pauseDownload and resumeDownload.                                       *)
LEMMA ControlKeepsKnown ==
    ASSUME KnownInv, NEW did \in Gid, PauseDownload(did) \/ ResumeDownload(did)
    PROVE  KnownInv'
<1> DEFINE g == Target(did, TRUE)
<1>1. PICK from \in {{"active", "waiting"}, {"paused"}}, to \in {"paused", "waiting"} :
          Control(did, from, to)
    BY DEF PauseDownload, ResumeDownload
<1>2. /\ call.pc = "ready" /\ call.op = "none" /\ call.todo = {} /\ did \in held
      /\ UNCHANGED <<session, stopping, known, held, asked, dangling, missed, child>>
  <2>1. At("ready") /\ did \in held
      BY <1>1 DEF Control
  <2> QED BY <1>1, <2>1 DEF At, Control, subprocessVars
<1>3. /\ did \in Known /\ Known \in SUBSET Gid /\ Known' = Known /\ (Works' <=> Works)
    BY <1>2 DEF KnownInv, CallIsRight, Known, Works
<1>4. CASE Works /\ task[g].status \in from /\ task' = [task EXCEPT ![g].status = to]
  <2>1. g \in Unfinished
      BY <1>3, <1>4, TargetIsThere DEF Unfinished
  <2>2. to \in Status \ {"none"}
      BY DEF Status
  <2> HIDE DEF g
  <2>3. /\ TasksAreRight' /\ OverIsOver' /\ Unfinished' \subseteq Unfinished
        /\ call'.todo = call.todo => KnownIsThere'
      BY <1>2, <1>4, <2>1, <2>2, StatusKeepsRest
  <2>4. \A h \in Gid : Chain(h)' = Chain(h)
      BY <1>2, <1>4, <2>1, <2>2, StatusChanges DEF KnownInv
  <2>5. CASE UNCHANGED failed /\ call' = [Off EXCEPT !.pc = "status", !.op = "control", !.did = did]
    <3>1. /\ call' \in CallType /\ call'.pc = "status" /\ call'.op = "control"
          /\ call'.did = did /\ call'.todo = {}
        BY <2>5 DEF Off, CallType, Stage, Op
    <3>2. CallIsRight'
        BY <1>2, <1>3, <2>5, <3>1 DEF KnownInv, CallIsRight, Constructing
    <3>3. NoneOverlooked'
      <4> SUFFICES ASSUME ~failed, NEW u \in Unfinished
                   PROVE  \E x \in Known \cup missed : u \in Chain(x)'
          BY <1>2, <1>3, <2>3, <2>5, <3>1 DEF NoneOverlooked
      <4>1. \E x \in Known \cup missed : u \in Chain(x)
          BY <1>2, <1>4 DEF KnownInv, NoneOverlooked, Asking
      <4>2. Known \cup missed \subseteq Gid
          BY <1>3 DEF KnownInv, CallIsRight
      <4> QED BY <2>4, <4>1, <4>2
    <3> QED BY <1>2, <2>3, <3>1, <3>2, <3>3 DEF KnownInv
  <2>6. CASE UNCHANGED call /\ failed' = TRUE
    <3>1. CallIsRight' /\ NoneOverlooked'
        BY <1>2, <1>3, <2>6 DEF KnownInv, CallIsRight, NoneOverlooked, Constructing
    <3> QED BY <2>3, <2>6, <3>1 DEF KnownInv
  <2> QED BY <1>1, <1>2, <2>5, <2>6 DEF Control
<1>5. CASE UNCHANGED <<task, call>> /\ failed' = TRUE
  <2>1. CallIsRight' /\ NoneOverlooked'
      BY <1>2, <1>3, <1>5 DEF KnownInv, CallIsRight, NoneOverlooked, Constructing
  <2> QED BY <1>2, <1>3, <1>5, <2>1, OnlyTheCallChanges DEF KnownInv, KnownIsThere
<1> QED BY <1>1, <1>4, <1>5 DEF Control

(* cancelDownload: what is removed is over, and so is the metalink it      *)
(* came from.                                                              *)
LEMMA CancelKeepsKnown ==
    ASSUME KnownInv, NEW did \in Gid, CancelDownload(did) PROVE KnownInv'
<1> DEFINE g == Target(did, TRUE)
<1>1. /\ call.pc = "ready" /\ call.op = "none" /\ call.todo = {} /\ did \in held
      /\ UNCHANGED <<session, stopping, call, held, asked, dangling, missed, child>>
  <2>1. At("ready") /\ did \in held
      BY DEF CancelDownload
  <2> QED BY <2>1 DEF At, CancelDownload, subprocessVars
<1>2. did \in Known /\ Known \in SUBSET Gid /\ (Works' <=> Works)
    BY <1>1 DEF KnownInv, CallIsRight, Known, Works
<1>3. CASE Works /\ g \in Unfinished /\ task' = [task EXCEPT ![g].status = "removed"]
  <2>1. /\ TasksAreRight' /\ \A h \in Gid : /\ Chain(h)' = Chain(h) /\ task'[h].next = task[h].next
                                            /\ task'[h] # NoTask <=> task[h] # NoTask
        /\ \A h \in Gid \ {g} : task'[h] = task[h]
        /\ task'[g].status = "removed"
    <3>1. "removed" \in Status \ {"none"}
        BY DEF Status
    <3> HIDE DEF g
    <3> QED BY <1>1, <1>3, <3>1, StatusChanges DEF KnownInv
  <2>2. Unfinished' \subseteq Unfinished \ {g}
      BY <2>1 DEF Unfinished
  <2>3. CASE known' = [known EXCEPT ![did].status = "removed"] /\ UNCHANGED failed
    <3>1. /\ known' \in [Gid -> Object] /\ known'[did].followedBy = known[did].followedBy
          /\ known'[did].status = "removed"
          /\ \A h \in Gid \ {did} : known'[h] = known[h]
        BY <2>3 DEF KnownInv, CallIsRight, Object, Status
    <3>2. Known' = Known
        BY <1>2, <3>1 DEF Known, NoDownload
    <3>3. CallIsRight'
        BY <1>1, <2>3, <3>1, <3>2 DEF KnownInv, CallIsRight, Constructing
    <3>4. KnownIsThere'
        BY <1>1, <1>2, <2>1, <3>1, <3>2 DEF KnownInv, KnownIsThere
    <3>5. OverIsOver'
      <4> SUFFICES ASSUME NEW h \in Gid,
                          \/ known'[h].status = "removed"
                          \/ h \in asked /\ known'[h].status = "complete"
                   PROVE  Chain(h) \cap Unfinished' = {}
          BY <1>1, <2>1 DEF OverIsOver
      <4>1. CASE h # did
          BY <2>2, <3>1, <4>1 DEF KnownInv, OverIsOver
      <4>2. CASE h = did /\ known[did].followedBy = None
        <5>1. g = did /\ Chain(did) = {did}
            BY <1>3, <4>2, UnfinishedIsLast DEF Target, KnownInv
        <5> QED BY <2>2, <4>2, <5>1
      <4>3. CASE h = did /\ known[did].followedBy # None
        <5>1. g = task[did].next /\ g \in Gid /\ task[did].status = "complete"
            BY <1>2, <1>3, <4>3, TargetIsThere
        <5>2. Chain(did) = {did, g}
            BY <5>1, NoneAssumption DEF Chain
        <5>3. did \notin Unfinished
            BY <5>1 DEF Unfinished
        <5> QED BY <2>2, <4>3, <5>2, <5>3
      <4> QED BY <4>1, <4>2, <4>3
    <3>6. NoneOverlooked'
      <4> SUFFICES ASSUME ~failed, NEW u \in Unfinished
                   PROVE  \E x \in Known \cup missed : u \in Chain(x)'
          BY <1>1, <1>2, <2>2, <2>3, <3>2 DEF NoneOverlooked
      <4>1. \E x \in Known \cup missed : u \in Chain(x)
          BY <1>1, <1>3 DEF KnownInv, NoneOverlooked, Asking
      <4>2. Known \cup missed \subseteq Gid
          BY <1>2 DEF KnownInv, CallIsRight
      <4> QED BY <2>1, <4>1, <4>2
    <3> QED BY <2>1, <3>3, <3>4, <3>5, <3>6 DEF KnownInv
  <2>4. CASE UNCHANGED known /\ failed' = TRUE
    <3>1. Known' = Known
        BY <2>4 DEF Known
    <3>2. CallIsRight' /\ NoneOverlooked'
        BY <1>1, <2>4, <3>1 DEF KnownInv, CallIsRight, NoneOverlooked, Constructing
    <3>3. KnownIsThere'
        BY <1>1, <1>2, <2>1, <2>4, <3>1 DEF KnownInv, KnownIsThere
    <3>4. OverIsOver'
        BY <1>1, <2>1, <2>2, <2>4, OverStays DEF KnownInv
    <3> QED BY <2>1, <3>2, <3>3, <3>4 DEF KnownInv
  <2> QED BY <2>3, <2>4 DEF CancelDownload
<1>4. CASE UNCHANGED <<task, known>> /\ failed' = TRUE
  <2>1. CallIsRight' /\ NoneOverlooked'
      BY <1>1, <1>4 DEF KnownInv, CallIsRight, NoneOverlooked, Constructing, Known
  <2> QED BY <1>1, <1>2, <1>4, <2>1, OnlyTheCallChanges DEF KnownInv, KnownIsThere
<1> QED BY <1>3, <1>4 DEF CancelDownload

-----------------------------------------------------------------------------
(* The beginning and the end.                                              *)

LEMMA NothingIsKnown ==
    /\ [g \in Gid |-> NoDownload] \in [Gid -> Object]
    /\ NoDownload.status = "none"
BY DEF NoDownload, Object, Status

LEMMA ForgetKeepsKnown ==
    ASSUME KnownInv, Leave \/ Crash PROVE KnownInv'
<1>1. Forget /\ UNCHANGED <<task, session>>
    BY DEF Leave, Crash, aria2c
<1>2. /\ call' = Off /\ call'.pc = "off" /\ call'.op = "none" /\ call'.todo = {}
      /\ call' \in CallType
  <2>1. call' = Off
      BY <1>1 DEF Forget
  <2> QED BY <2>1, OffIsTyped DEF Off
<1>3. Known' = {} /\ held' = {} /\ asked' = {} /\ dangling' = {} /\ missed' = {} /\ failed' = FALSE
      /\ known' = [g \in Gid |-> NoDownload]
    BY <1>1 DEF Forget, Known
<1>4. CallIsRight'
    BY <1>2, <1>3, NothingIsKnown DEF CallIsRight, Constructing
<1>5. TasksAreRight'
    BY <1>1, TasksStay DEF KnownInv
<1> QED BY <1>2, <1>3, <1>4, <1>5, NothingIsKnown
        DEF KnownInv, KnownIsThere, OverIsOver, NoneOverlooked

LEMMA DestroyProcessKeepsKnown ==
    ASSUME KnownInv, DestroyProcess PROVE KnownInv'
<1>1. /\ task' = [g \in Gid |-> NoTask] /\ session' = session /\ child' # "runs"
      /\ UNCHANGED <<app, history>>
    BY DEF DestroyProcess, Destroy, Kill
<1>2. CallIsRight'
    BY <1>1 DEF app, history, KnownInv, CallIsRight, Known, Constructing
<1> QED BY <1>1, <1>2, NothingUnderWay DEF Works

LEMMA ConstructKeepsKnown ==
    ASSUME KnownInv, Construct PROVE KnownInv'
<1>1. /\ At("off") /\ Goto("connect") /\ task' \in {task, session}
      /\ UNCHANGED <<session, known, held, asked, dangling, failed, missed>>
    BY DEF Construct
<1>2. Known = {} /\ held = {} /\ asked = {} /\ Known' = {}
  <2>1. call.pc = "off"
      BY <1>1 DEF At
  <2> QED BY <1>1, <2>1 DEF KnownInv, CallIsRight, Known
<1>3. /\ call' \in CallType /\ call'.pc = "connect" /\ call'.op = "none" /\ call'.todo = {}
    BY <1>1, GotoIsTyped DEF Goto, Off, Stage
<1>4. CallIsRight'
    BY <1>1, <1>2, <1>3 DEF KnownInv, CallIsRight, Constructing
<1>5. TasksAreRight'
  <2>1. CASE task' = task
      BY <1>1, <2>1, TasksStay DEF KnownInv
  <2>2. CASE task' = session
      BY <1>1, <2>2 DEF KnownInv, TasksAreRight
  <2> QED BY <1>1, <2>1, <2>2
<1>6. OverIsOver'
  <2>1. ASSUME NEW g \in Gid PROVE known[g].status = "none"
      BY <1>2, NothingIsKnown DEF Known
  <2> QED BY <1>1, <2>1 DEF OverIsOver
<1> QED BY <1>2, <1>3, <1>4, <1>5, <1>6 DEF KnownInv, KnownIsThere, NoneOverlooked

(* The waiting thread and the destructor; and no step at all.              *)
LEMMA OthersKeepKnown ==
    ASSUME KnownInv, UNCHANGED <<aria2c, app, history>>, child' = "runs" => child = "runs"
    PROVE  KnownInv'
<1>1. CallIsRight'
    BY DEF KnownInv, CallIsRight, Known, Constructing, app, history
<1>2. UNCHANGED <<Unfinished, Waiting>> /\ (Works' => Works) /\ (\A h : Chain(h)' = Chain(h))
      /\ Known' = Known /\ call' = call
    BY DEF Unfinished, Waiting, Works, Chain, Known, aria2c, app
<1>3. NoneOverlooked'
    BY <1>2 DEF KnownInv, NoneOverlooked, Asking, history
<1>4. Works => \A g \in call'.todo : task[g] # NoTask
    BY <1>2 DEF KnownInv, KnownIsThere
<1> QED BY <1>1, <1>2, <1>3, <1>4, OnlyTheCallChanges DEF aria2c, app

(* Every step keeps the invariant of what is known.                        *)
LEMMA NextKeepsKnownInv ==
    ASSUME KnownInv, [Next]_vars PROVE KnownInv'
<1>1. CASE Aria2
    BY <1>1, TaskKeepsKnown, MetalinkKeepsKnown, Aria2EndsKeepsKnown DEF Aria2
<1>2. CASE Call
    BY <1>2, StartKnownKeepsKnown, StartNewKeepsKnown, GetDownloadKeepsKnown, ControlKeepsKnown,
       CancelKeepsKnown, CloseKeepsKnown, ForgetKeepsKnown DEF Call
<1>3. CASE Step
    BY <1>3, ConstructKeepsKnown, ConnectKeepsKnown, TellActiveKeepsKnown, TellWaitingKeepsKnown,
       RegisterKeepsKnown, UpdateStatusKeepsKnown, FindKeepsKnown, CloseKeepsKnown,
       DestroyProcessKeepsKnown DEF Step
<1>4. CASE (Waiter \/ Destructor) /\ UNCHANGED <<aria2c, app, history>>
  <2>1. child' = "runs" => child = "runs"
      BY <1>4 DEF Waiter, Destructor, SawItRun, SawItEnded, DestroyImpl, Join, Kill
  <2> QED BY <1>4, <2>1, OthersKeepKnown
<1>5. CASE UNCHANGED vars
    BY <1>5, OthersKeepKnown DEF vars, subprocessVars
<1> QED BY <1>1, <1>2, <1>3, <1>4, <1>5, ForgetKeepsKnown DEF Next

(* The invariant holds in every reachable state of the downloader.         *)
THEOREM KnownInvariant == Spec => []KnownInv
<1>1. Init => KnownInv
  <2> SUFFICES ASSUME Init PROVE KnownInv
      OBVIOUS
  <2>1. TasksAreRight /\ Known = {} /\ call.pc = "off" /\ call.op = "none" /\ call.todo = {}
      BY NoTaskIsTyped DEF Init, TasksAreRight, Known, Off
  <2>2. CallIsRight
      BY <2>1, NothingIsKnown, OffIsTyped DEF Init, CallIsRight, Constructing
  <2> QED BY <2>1, <2>2, NothingIsKnown
          DEF Init, KnownInv, KnownIsThere, OverIsOver, NoneOverlooked
<1>2. KnownInv /\ [Next]_vars => KnownInv'
    BY NextKeepsKnownInv
<1> QED BY <1>1, <1>2, PTL DEF Spec

(* getDownload never deletes an object that has been handed out, nothing   *)
(* that aria2c works on is overlooked, and what is said to be over is, as  *)
(* long as calls to aria2c do not fail, for any number of downloads.       *)
THEOREM KnownDownloadsCorrect == Spec => []KnownDownloadsAreRight
<1>1. KnownInv => KnownDownloadsAreRight
  <2> SUFFICES ASSUME KnownInv PROVE KnownDownloadsAreRight
      OBVIOUS
  <2>1. PointersStayValid
      BY DEF KnownInv, CallIsRight, PointersStayValid
  <2>2. TransfersAreKnown
    <3> SUFFICES ASSUME At("ready"), ~failed, Works, NEW u \in Unfinished
                 PROVE  \E x \in Known \cup missed : u \in Chain(x)
        BY DEF TransfersAreKnown
    <3>1. call.pc = "ready" /\ call.todo = {} /\ ~Asking
        BY DEF At, Asking
    <3> QED BY <3>1 DEF KnownInv, NoneOverlooked
  <2>3. FinishedIsOver
    <3>1. asked \subseteq Gid
        BY DEF KnownInv, CallIsRight
    <3> QED BY <3>1 DEF KnownInv, OverIsOver, FinishedIsOver
  <2> QED BY <2>1, <2>2, <2>3 DEF KnownDownloadsAreRight
<1> QED BY <1>1, KnownInvariant, PTL
=============================================================================
