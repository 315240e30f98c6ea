----------------------------- MODULE Subprocess -----------------------------
(***************************************************************************)
(* The child process that kiwix-lib starts for aria2c (and kiwix-serve),   *)
(* the thread that waits for it, and the destructor, on a POSIX system     *)
(* (src/src/subprocess.cpp, src/src/subprocess_unix.cpp).                  *)
(***************************************************************************)
VARIABLES
    child,       \* the process: "none", "runs", "zombie", "reaped"
    m_pid,       \* "zero" or "child"
    m_running,
    m_shouldQuit,
    waiter,      \* m_waitingThread: "none", "polls", "left" its loop, "quit"
    owner,       \* the object: "none", "lives", "killed" and "joins" (in the
                 \* destructor), "gone", "dead" (its process was killed)
    struck       \* history: whom SIGKILL was sent to

subprocessVars == <<child, m_pid, m_running, m_shouldQuit, waiter, owner, struck>>

SubprocessInit ==
    /\ child = "none" /\ m_pid = "zero"
    /\ m_running = FALSE /\ m_shouldQuit = FALSE
    /\ waiter = "none" /\ owner = "none"
    /\ struck = {}

(* Subprocess::run.  A child that cannot execute the command ends by       *)
(* itself (ChildEnds).                                                     *)
Fork ==
    /\ owner \in {"none", "gone"}
    /\ owner' = "lives"
    /\ child' = "runs" /\ m_pid' = "child"
    /\ m_running' = TRUE /\ m_shouldQuit' = FALSE
    /\ waiter' = "polls"
    /\ struck' = {}

ForkFails ==
    /\ owner \in {"none", "gone"}
    /\ owner' = "lives"
    /\ child' = "none" /\ m_pid' = "zero"
    /\ m_running' = FALSE /\ m_shouldQuit' = FALSE
    /\ waiter' = "none"
    /\ struck' = {}

ChildEnds ==
    /\ child = "runs"
    /\ child' = "zombie"
    /\ UNCHANGED <<m_pid, m_running, m_shouldQuit, waiter, owner, struck>>

(* waitForPID, one turn.  waitpid(WNOHANG) is 0 for a child that runs, its *)
(* pid once for a child that has ended, and an error from then on: the     *)
(* loop is left when the child RUNS.                                       *)
SawItRun ==
    /\ waiter = "polls"
    /\ child = "runs"
    /\ waiter' = "left"
    /\ m_running' = FALSE
    /\ UNCHANGED <<child, m_pid, m_shouldQuit, owner, struck>>

(* Mutant: the loop is left when the child has ended, too. *)
SawItEndedAndLeaves ==
    /\ waiter = "polls"
    /\ child # "runs"
    /\ child' = "reaped"
    /\ waiter' = "left"
    /\ m_running' = FALSE
    /\ UNCHANGED <<m_pid, m_shouldQuit, owner, struck>>

SawItEnded ==
    /\ waiter = "polls"
    /\ child # "runs"
    /\ child' = "reaped"
    /\ waiter' = IF m_shouldQuit THEN "quit" ELSE "polls"
    /\ UNCHANGED <<m_pid, m_running, m_shouldQuit, owner, struck>>

(* kill(m_pid, SIGKILL): a child that was reaped has given its pid back,   *)
(* and pid 0 is every process of the caller's group.                       *)
Kill ==
    /\ struck' = struck \cup
           CASE m_pid = "zero" -> {"group"}
             [] m_pid = "child" /\ child = "reaped" -> {"other"}
             [] OTHER -> {"child"}
    /\ child' = IF child = "runs" THEN "zombie" ELSE child
    /\ UNCHANGED <<m_pid, m_running, waiter>>

(* ~Subprocess, then ~UnixImpl, which kills a second time. *)
Destroy ==
    /\ owner = "lives"
    /\ Kill
    /\ owner' = IF m_pid = "zero" THEN "dead" ELSE "killed"
    /\ UNCHANGED m_shouldQuit

(* Mutant: the thread is not told to quit. *)
DestroyImplSilently ==
    /\ owner = "killed"
    /\ Kill
    /\ owner' = "joins"
    /\ UNCHANGED m_shouldQuit

DestroyImpl ==
    /\ owner = "killed"
    /\ Kill
    /\ m_shouldQuit' = TRUE
    /\ owner' = "joins"

Join ==
    /\ owner = "joins"
    /\ waiter \in {"left", "quit"}   \* join, and the object is gone
    /\ owner' = "gone"
    /\ waiter' = "none" /\ m_pid' = "zero"
    /\ m_running' = FALSE /\ m_shouldQuit' = FALSE
    /\ UNCHANGED <<child, struck>>

Waiter == SawItRun \/ SawItEnded

Destructor == DestroyImpl \/ Join

-----------------------------------------------------------------------------
(* SIGKILL never goes to a process that has nothing to do with us once the *)
(* waiting thread has seen the child run: the destructor kills twice, and  *)
(* the second time the child is dead, but nobody has reaped it, so that    *)
(* its pid is still its own.                                               *)
KillSparesOthers == waiter = "left" => "other" \notin struck

(* The destructor returns, unless the application ends in it: the waiting  *)
(* thread ends whatever it has seen of the child, and join() does not wait *)
(* for ever.                                                               *)
DestructorReturns == owner \in {"killed", "joins"} ~> owner \in {"gone", "none"}
=============================================================================
