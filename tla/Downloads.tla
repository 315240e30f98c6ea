------------------------------ MODULE Downloads ------------------------------
(***************************************************************************)
(* The downloader (src/src/downloader.cpp) in one thread of an             *)
(* application, its XML-RPC client (src/src/aria2.cpp) and the process     *)
(* aria2c, which goes on between any two calls.  aria2c is modelled as the *)
(* code uses it: a set of downloads ("tasks") with statuses, a metalink    *)
(* that is followed by a download of its own, and a session file.          *)
(*                                                                         *)
(* A call to aria2c may fail, before or after aria2c has done what it was  *)
(* asked for.                                                              *)
(***************************************************************************)
EXTENDS Subprocess, FiniteSets

CONSTANTS
    Gid,        \* aria2c's ids of downloads
    Uri,
    Metalink,   \* the URIs of metalinks
    Mirror,     \* the URI that a metalink leads to
    Wanted,     \* the URIs that the application starts (a bound)
    None

ASSUME UriAssumption ==
    Metalink \subseteq Uri /\ Mirror \in Uri \ Metalink /\ Wanted \subseteq Uri

ASSUME NoneAssumption == None \notin Gid

VARIABLES
    task,       \* aria2c: [uri, origin, status, next] or NoTask
    session,    \* kiwix.session: what aria2c saved
    stopping,   \* aria2c was asked to stop, or its application is gone
    known,      \* m_knownDownloads: [status, followedBy, uris] or NoDownload
    call,       \* where the thread of the application is: [pc, op, did, todo]
    held,       \* the Download* that the application got, by id
    asked,      \* ... those that were started, or refreshed by getDownload
    dangling,   \* ... those whose object has been deleted
    failed,     \* history: a call to aria2c failed since the construction
    missed,     \* history: downloads that neither tellActive nor tellWaiting
                \* could list
    owed        \* history: the URIs unfinished when close() returned

aria2c == <<task, session, stopping>>
app == <<known, call, held, asked, dangling>>
history == <<failed, missed, owed>>
vars == <<aria2c, app, history, subprocessVars>>

NoTask == [uri |-> None, origin |-> None, status |-> "none", next |-> None]
NoDownload == [status |-> "none", followedBy |-> None, uris |-> {}]
NewDownload == [status |-> "unknown", followedBy |-> None, uris |-> {}]

Unfinished == {g \in Gid : task[g].status \in {"active", "waiting", "paused"}}
Waiting == {g \in Gid : task[g].status \in {"waiting", "paused"}}
Active == {g \in Gid : task[g].status = "active"}
Known == {g \in Gid : known[g] # NoDownload}

At(pc) == call = [pc |-> pc, op |-> "none", did |-> None, todo |-> {}]

Off == [pc |-> "off", op |-> "none", did |-> None, todo |-> {}]
Goto(pc) == call' = [Off EXCEPT !.pc = pc]

Init ==
    /\ SubprocessInit
    /\ task = [g \in Gid |-> NoTask] /\ session = task /\ stopping = FALSE
    /\ known = [g \in Gid |-> NoDownload]
    /\ call = Off
    /\ held = {} /\ asked = {} /\ dangling = {}
    /\ failed = FALSE /\ missed = {} /\ owed = {}

-----------------------------------------------------------------------------
(* aria2c.                                                                 *)

Works == child = "runs" /\ ~stopping

Free == {g \in Gid : task[g] = NoTask}
Fresh == CHOOSE g \in Free : TRUE

(* Between the two questions of the constructor. *)
Asking == call.op = "active" \/ call.pc = "tellWaiting"

TaskStarts(g) ==
    /\ Works
    /\ task[g].status = "waiting"
    /\ task' = [task EXCEPT ![g].status = "active"]
    /\ missed' = IF Asking /\ g \notin Known \cup call.todo THEN missed \cup {g} ELSE missed
    /\ UNCHANGED <<session, stopping, app, failed, owed, subprocessVars>>

(* --follow-metalink=mem *)
TaskCompletes(g) ==
    /\ Works
    /\ task[g].status = "active"
    /\ task' = [task EXCEPT ![g].status = "complete"]
    /\ task[g].uri \notin Metalink
    /\ UNCHANGED <<session, stopping, app, history, subprocessVars>>

MetalinkCompletes(g) ==
    /\ Works
    /\ task[g].status = "active"
    /\ task[g].uri \in Metalink
    /\ Free # {}
    /\ task' = [task EXCEPT ![g].status = "complete", ![g].next = Fresh,
                    ![Fresh] = [uri |-> Mirror, origin |-> task[g].origin,
                                status |-> "waiting", next |-> None]]
    /\ UNCHANGED <<session, stopping, app, history, subprocessVars>>

TaskFails(g) ==
    /\ Works
    /\ task[g].status = "active"
    /\ task' = [task EXCEPT ![g].status = "error"]
    /\ UNCHANGED <<session, stopping, app, history, subprocessVars>>

(* --save-session, --input-file: what has not come to its end is taken up. *)
ToSave == [g \in Gid |->
    CASE task[g].status \in {"none", "complete", "removed"} -> NoTask
      [] task[g].status = "paused" -> task[g]
      [] OTHER -> [task[g] EXCEPT !.status = "waiting"]]

Aria2Stops ==
    /\ stopping
    /\ ChildEnds
    /\ session' = ToSave
    /\ task' = [g \in Gid |-> NoTask]
    /\ UNCHANGED <<stopping, app, history>>

Aria2Crashes ==
    /\ ~stopping
    /\ ChildEnds
    /\ task' = [g \in Gid |-> NoTask]
    /\ UNCHANGED <<session, stopping, app, history>>

-----------------------------------------------------------------------------
(* The Downloader and its calls.                                           *)

(* Aria2::Aria2: the process is started ... *)
Construct ==
    /\ At("off")
    /\ child # "runs"
    /\ Goto("connect")
    /\ \/ Fork /\ task' = session
       \/ ForkFails /\ UNCHANGED task
    /\ stopping' = FALSE
    /\ owed' = {}
    /\ UNCHANGED <<session, known, held, asked, dangling, failed, missed>>

(* ... and asked until it answers, or too often.  The constructor sleeps   *)
(* before every question, and the waiting thread is taken to have had its  *)
(* first turn when one is answered.                                        *)
Connect ==
    /\ At("connect")
    /\ \/ Works /\ waiter # "polls" /\ Goto("tellActive")
       \/ Goto("off")
    /\ UNCHANGED <<known, held, asked, dangling, aria2c, history, subprocessVars>>

(* Downloader::Downloader *)
TellActive ==
    /\ At("tellActive")
    /\ \/ Works /\ call' = [Off EXCEPT !.pc = "register", !.op = "active", !.todo = Active]
                /\ UNCHANGED failed
       \/ Goto("tellWaiting") /\ failed' = TRUE
    /\ UNCHANGED <<known, held, asked, dangling, aria2c, missed, owed, subprocessVars>>

TellWaiting ==
    /\ At("tellWaiting")
    /\ \/ Works /\ call' = [Off EXCEPT !.pc = "register", !.op = "waiting", !.todo = Waiting]
                /\ UNCHANGED failed
       \/ Goto("ready") /\ failed' = TRUE
    /\ UNCHANGED <<known, held, asked, dangling, aria2c, missed, owed, subprocessVars>>

(* m_knownDownloads[gid] = new Download: what was there is deleted. *)
Register ==
    /\ call.pc = "register"
    /\ \/ \E g \in call.todo :
             /\ known' = [known EXCEPT ![g] = NewDownload]
             /\ call' = [call EXCEPT !.pc = "status", !.did = g, !.todo = @ \ {g}]
       \/ /\ call.todo = {}
          /\ Goto(IF call.op = "active" THEN "tellWaiting" ELSE "ready")
          /\ UNCHANGED known
    /\ UNCHANGED <<held, asked, dangling, aria2c, history, subprocessVars>>

(* updateStatus returns to, or throws into, the call it is part of. *)
Return ==
    IF call.op \in {"active", "waiting"}
    THEN call' = [call EXCEPT !.pc = "register", !.did = None] /\ UNCHANGED <<held, asked>>
    ELSE /\ Goto("ready")
         /\ held' = held \cup {call.did}
         /\ asked' = asked \cup {call.did}

Throw ==
    CASE call.op = "active" -> Goto("tellWaiting")
      [] call.op = "get" -> call' = [call EXCEPT !.pc = "findActive"]
      [] OTHER -> Goto("ready")

Follow == call.op \notin {"active", "waiting"}

Target(did, follow) == IF follow /\ known[did].followedBy # None
                       THEN known[did].followedBy ELSE did

(* Mutant: a metalink that is complete is a complete download. *)
UpdateStatusOfMetalink ==
    /\ call.pc = "status"
    /\ LET did == call.did
           answer == task[Target(did, Follow)]
       IN
       \/ known[did].status = "removed" /\ Return /\ UNCHANGED <<known, failed>>
       \/ /\ known[did].status # "removed" /\ Works
          /\ known' = [known EXCEPT
                 ![did] = [status |-> answer.status, uris |-> {answer.uri},
                           followedBy |-> IF answer.next # None THEN answer.next ELSE @.followedBy]]
          /\ Return
          /\ UNCHANGED failed
       \/ /\ known[did].status # "removed"
          /\ Throw /\ failed' = TRUE /\ UNCHANGED <<known, held, asked>>
    /\ UNCHANGED <<dangling, aria2c, missed, owed, subprocessVars>>

(* Download::updateStatus, one question to aria2c at a time. *)
UpdateStatus ==
    /\ call.pc = "status"
    /\ LET did == call.did
           answer == task[Target(did, Follow)]
           next == IF answer.next # None THEN answer.next ELSE known[did].followedBy
       IN
       \/ known[did].status = "removed" /\ Return /\ UNCHANGED <<known, failed>>
       \/ /\ known[did].status # "removed" /\ Works
          /\ Follow /\ answer.next # None
          /\ known' = [known EXCEPT ![did].followedBy = next]
          /\ UNCHANGED <<call, held, asked, failed>>
       \/ /\ known[did].status # "removed" /\ Works
          /\ ~Follow \/ answer.next = None
          /\ known' = [known EXCEPT ![did] = [status |-> answer.status, uris |-> {answer.uri},
                                              followedBy |-> next]]
          /\ Return
          /\ UNCHANGED failed
       \/ /\ known[did].status # "removed"
          /\ Throw /\ failed' = TRUE /\ UNCHANGED <<known, held, asked>>
    /\ UNCHANGED <<dangling, aria2c, missed, owed, subprocessVars>>

(* startDownload: a download with the URI among the URIs it had when it    *)
(* was last asked, or a new one.                                           *)
StartKnown(uri) ==
    /\ At("ready")
    /\ \E g \in Known : uri \in known[g].uris /\ held' = held \cup {g}
    /\ UNCHANGED <<known, call, asked, dangling, aria2c, history, subprocessVars>>

AddUri(uri) ==
    task' = [task EXCEPT ![Fresh] = [uri |-> uri, origin |-> uri,
                                     status |-> "waiting", next |-> None]]

StartNew(uri) ==
    /\ At("ready")
    /\ \A g \in Known : uri \notin known[g].uris
    /\ \/ /\ Works /\ Free # {}
          /\ AddUri(uri)
          /\ known' = [known EXCEPT ![Fresh] = NewDownload]
          /\ held' = held \cup {Fresh}
          /\ asked' = asked \cup {Fresh}
          /\ UNCHANGED failed
       \/ /\ \/ Works /\ Free # {} /\ AddUri(uri)
             \/ UNCHANGED task
          /\ failed' = TRUE
          /\ UNCHANGED <<known, held, asked>>
    /\ UNCHANGED <<session, stopping, call, dangling, missed, owed, subprocessVars>>

(* getDownload: a known download is refreshed; one that is not known, or   *)
(* cannot be refreshed, is looked for in aria2c and becomes a new object.  *)
GetDownload(did) ==
    /\ At("ready")
    /\ call' = [Off EXCEPT !.op = "get", !.did = did,
                           !.pc = IF did \in Known THEN "status" ELSE "findActive"]
    /\ UNCHANGED <<known, held, asked, dangling, aria2c, history, subprocessVars>>

Found ==
    /\ known' = [known EXCEPT ![call.did] = NewDownload]
    /\ dangling' = dangling \cup ({call.did} \cap held)
    /\ call' = [call EXCEPT !.pc = "status", !.op = "again"]

FindActive ==
    /\ call.pc = "findActive"
    /\ \/ Works /\ call.did \in Active /\ Found /\ UNCHANGED failed
       \/ /\ Works /\ call.did \notin Active
          /\ call' = [call EXCEPT !.pc = "findWaiting"]
          /\ UNCHANGED <<known, dangling, failed>>
       \/ Goto("ready") /\ failed' = TRUE /\ UNCHANGED <<known, dangling>>
    /\ UNCHANGED <<held, asked, aria2c, missed, owed, subprocessVars>>

FindWaiting ==
    /\ call.pc = "findWaiting"
    /\ \/ Works /\ call.did \in Waiting /\ Found /\ UNCHANGED failed
       \/ Works /\ call.did \notin Waiting /\ Goto("ready") /\ UNCHANGED <<known, dangling, failed>>
       \/ Goto("ready") /\ failed' = TRUE /\ UNCHANGED <<known, dangling>>
    /\ UNCHANGED <<held, asked, aria2c, missed, owed, subprocessVars>>

(* pauseDownload, resumeDownload: aria2c refuses what does not apply, and  *)
(* the refusal is an exception; then the status is asked for.              *)
Control(did, from, to) ==
    /\ At("ready")
    /\ did \in held \ dangling
    /\ LET g == Target(did, TRUE) IN
       \/ /\ Works /\ task[g].status \in from
          /\ task' = [task EXCEPT ![g].status = to]
          /\ call' = [Off EXCEPT !.pc = "status", !.op = "control", !.did = did]
          /\ UNCHANGED failed
       \/ /\ \/ Works /\ task[g].status \in from /\ task' = [task EXCEPT ![g].status = to]
             \/ UNCHANGED task
          /\ failed' = TRUE
          /\ UNCHANGED call
    /\ UNCHANGED <<session, stopping, known, held, asked, dangling, missed, owed, subprocessVars>>

PauseDownload(did) == Control(did, {"active", "waiting"}, "paused")
ResumeDownload(did) == Control(did, {"paused"}, "waiting")

(* Mutant: the download is removed for us, whatever aria2c says. *)
CancelDownloadFirst(did) ==
    /\ At("ready")
    /\ did \in held \ dangling
    /\ LET g == Target(did, TRUE)
           remove == /\ Works /\ g \in Unfinished
                     /\ task' = [task EXCEPT ![g].status = "removed"]
       IN
       /\ known' = [known EXCEPT ![did].status = "removed"]
       /\ \/ remove /\ UNCHANGED failed
          \/ UNCHANGED task /\ failed' = TRUE
    /\ UNCHANGED <<session, stopping, call, held, asked, dangling, missed, owed, subprocessVars>>

CancelDownload(did) ==
    /\ At("ready")
    /\ did \in held \ dangling
    /\ LET g == Target(did, TRUE)
           remove == /\ Works /\ g \in Unfinished
                     /\ task' = [task EXCEPT ![g].status = "removed"]
       IN
       \/ remove /\ known' = [known EXCEPT ![did].status = "removed"] /\ UNCHANGED failed
       \/ (remove \/ UNCHANGED task) /\ failed' = TRUE /\ UNCHANGED known
    /\ UNCHANGED <<session, stopping, call, held, asked, dangling, missed, owed, subprocessVars>>

(* Mutant: the session is left for aria2c to save when it stops. *)
CloseUnsaved ==
    /\ At("ready")
    /\ \/ Works /\ Goto("closing") /\ UNCHANGED failed
       \/ failed' = TRUE /\ Goto("closed")
    /\ UNCHANGED <<session, task, stopping, known, held, asked, dangling, missed, owed, subprocessVars>>

(* close(): the session is saved, then aria2c is told to stop.  It is the  *)
(* last call of the application, whether it throws or not.                 *)
Close ==
    /\ At("ready")
    /\ \/ Works /\ session' = ToSave /\ Goto("closing") /\ UNCHANGED failed
       \/ failed' = TRUE /\ UNCHANGED session /\ Goto("closed")
    /\ UNCHANGED <<task, stopping, known, held, asked, dangling, missed, owed, subprocessVars>>

Shutdown ==
    /\ At("closing")
    /\ \/ /\ Works
          /\ stopping' = TRUE
          /\ owed' = {task[g].origin : g \in Unfinished}
          /\ Goto("closed")
          /\ UNCHANGED failed
       \/ failed' = TRUE /\ UNCHANGED <<stopping, owed>> /\ Goto("closed")
    /\ UNCHANGED <<task, session, known, held, asked, dangling, missed, subprocessVars>>

(* The Downloader and all of its downloads are deleted. *)
Forget ==
    /\ call' = Off
    /\ known' = [g \in Gid |-> NoDownload]
    /\ held' = {} /\ asked' = {} /\ dangling' = {}
    /\ failed' = FALSE /\ missed' = {}

(* The application destroys the Downloader, closed or not ... *)
Leave ==
    /\ At("ready") \/ At("closed")
    /\ Forget
    /\ UNCHANGED <<aria2c, owed, subprocessVars>>

(* ... or a constructor that failed does: the process is killed. *)
DestroyProcess ==
    /\ At("off")
    /\ Destroy
    /\ task' = [g \in Gid |-> NoTask]
    /\ UNCHANGED <<session, stopping, app, history>>

(* --stop-with-process: aria2c notices that the application has ended. *)
Crash ==
    /\ owner \notin {"none", "dead"}
    /\ owner' = "none" /\ waiter' = "none"
    /\ stopping' = TRUE
    /\ m_pid' = "zero" /\ m_running' = FALSE /\ m_shouldQuit' = FALSE
    /\ Forget
    /\ UNCHANGED <<child, struck, task, session, owed>>

-----------------------------------------------------------------------------
Aria2 ==
    \/ \E g \in Gid : TaskStarts(g) \/ TaskCompletes(g) \/ MetalinkCompletes(g) \/ TaskFails(g)
    \/ Aria2Stops \/ Aria2Crashes

Call ==
    \/ \E uri \in Wanted : StartKnown(uri) \/ StartNew(uri)
    \/ \E did \in Gid : GetDownload(did)
    \/ \E did \in Gid : PauseDownload(did) \/ ResumeDownload(did) \/ CancelDownload(did)
    \/ Close \/ Leave

Step ==
    \/ Construct \/ Connect \/ TellActive \/ TellWaiting \/ Register \/ UpdateStatus
    \/ FindActive \/ FindWaiting \/ Shutdown \/ DestroyProcess

Next ==
    \/ Aria2 \/ Call \/ Step \/ Crash
    \/ (Waiter \/ Destructor) /\ UNCHANGED <<aria2c, app, history>>

(* The kernel runs the waiting thread, and the thread that destroys the    *)
(* Downloader goes on until the destructor returns.  Nobody has to call    *)
(* anything, and aria2c need not make progress.                            *)
Spec ==
    /\ Init
    /\ [][Next]_vars
    /\ WF_vars(Waiter /\ UNCHANGED <<aria2c, app, history>>)
    /\ WF_vars(Destructor /\ UNCHANGED <<aria2c, app, history>>)

-----------------------------------------------------------------------------
(* The download that an id leads to: itself, or what a metalink led to. *)
Chain(g) == {g} \cup ({task[g].next} \ {None})

(* As long as no call to aria2c fails, a Download* that was handed out     *)
(* stays valid: getDownload makes a new object, and deletes the old one,   *)
(* only for a download that could not be asked.                            *)
PointersStayValid == ~failed => dangling = {}

(* Every download that aria2c works on is known, by its id or by the       *)
(* metalink it comes from, except for those that went from waiting to      *)
(* active between the two questions of the constructor.                    *)
TransfersAreKnown ==
    At("ready") /\ ~failed /\ Works =>
        Unfinished \subseteq UNION {Chain(g) : g \in Known \cup missed}

(* A download that was asked for and is said to be complete or removed is  *)
(* over: nothing that it led to is still under way, although a metalink    *)
(* is complete when the real download begins.                              *)
FinishedIsOver ==
    \A g \in asked : known[g].status \in {"complete", "removed"} =>
        Chain(g) \cap Unfinished = {}

(* What the application knows of the downloads is what aria2c does: an     *)
(* object for each, that stays, and none that is over and goes on.         *)
KnownDownloadsAreRight == PointersStayValid /\ TransfersAreKnown /\ FinishedIsOver

(* What was unfinished when close() returned is in the session file when   *)
(* the process is gone, although the destructor kills aria2c without       *)
(* waiting for it to stop.                                                 *)
ClosedSessionIsSaved ==
    child # "runs" => owed \subseteq {session[g].origin : g \in Gid}
=============================================================================
