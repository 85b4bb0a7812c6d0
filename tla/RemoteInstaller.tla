--------------------------- MODULE RemoteInstaller ---------------------------
(***************************************************************************)
(* A PS4 running Remote Package Installer, as internal/ps4 uses it through *)
(* RPIClient (rpi.go).  The console is not part of the repository: what it *)
(* does is taken from the client's requests and the comments beside them.  *)
(*                                                                         *)
(* A task is registered by /api/install, keeps its registration until it is*)
(* unregistered or its package is installed, and blocks another task for   *)
(* the same content ID (error 0x80990015).  It survives the manager.  It   *)
(* fetches its package from temporary URLs of the manager's content server,*)
(* which answer only while the registering job holds them.                 *)
(***************************************************************************)
EXTENDS Naturals, FiniteSets

CONSTANTS
    MaxTasks,   \* bound: tasks known to somebody at the same time
    Contents,   \* content IDs
    NoContent   \* none of them

ASSUME InstallerAssumption == MaxTasks \in Nat /\ NoContent \notin Contents

Tasks  == 1..MaxTasks
NoTask == 0

VARIABLES
    task,        \* what the console does with each task
    contentOf,   \* the content a task installs
    live         \* the tasks whose package URLs the content server answers

console == <<task, contentOf, live>>

TaskStates == {"none", "running", "paused", "finished", "broken"}

ConsoleInit ==
    /\ task = [t \in Tasks |-> "none"]
    /\ contentOf = [t \in Tasks |-> NoContent]
    /\ live = {}

Registered == {t \in Tasks : task[t] # "none"}
Holding(c) == {t \in Registered : contentOf[t] = c}

\* The console does not reuse the ids of its tasks.  An id that nothing refers to
\* any more is taken for a new one, the lowest first.
Fresh(t, known) ==
    /\ t \notin Registered \cup known
    /\ \A u \in Tasks \ (Registered \cup known) : t <= u

\* /api/install accepted: refused while the console holds a task for c.
RegisterTask(t, c, known) ==
    /\ Fresh(t, known)
    /\ Holding(c) = {}
    /\ task' = [task EXCEPT ![t] = "running"]
    /\ contentOf' = [contentOf EXCEPT ![t] = c]
    /\ live' = live \cup {t}

\* What a request about task t may leave behind, answered or not.
Unregistered(t) == [task EXCEPT ![t] = "none"]
Suspended(t) == [task EXCEPT ![t] = IF @ = "running" THEN "paused" ELSE @]
Continued(t) == [task EXCEPT ![t] = IF @ = "paused" THEN "running" ELSE @]

\* RPIClient.Cancel stops the task, then unregisters it.  When it returns an
\* error, neither, only the first or both requests may have been obeyed.
AfterFailedCancel(t) == {task, Suspended(t), Unregistered(t)}

\* The console on its own.  A download ends only while its URLs answer; any task
\* may break; an installed package gives its registration up at some time.
ConsoleFinishes(t) == /\ task[t] = "running" /\ t \in live
                      /\ task' = [task EXCEPT ![t] = "finished"]
                      /\ UNCHANGED <<contentOf, live>>

ConsoleBreaks(t) == /\ task[t] \in {"running", "paused"}
                    /\ task' = [task EXCEPT ![t] = "broken"]
                    /\ UNCHANGED <<contentOf, live>>

ConsoleRetires(t) == /\ task[t] = "finished"
                     /\ task' = Unregistered(t)
                     /\ UNCHANGED <<contentOf, live>>

ConsoleStep == \E t \in Tasks : \/ ConsoleFinishes(t)
                                \/ ConsoleBreaks(t)
                                \/ ConsoleRetires(t)

ConsoleTypeOK ==
    /\ task \in [Tasks -> TaskStates]
    /\ contentOf \in [Tasks -> Contents \cup {NoContent}]
    /\ live \subseteq Tasks
=============================================================================
