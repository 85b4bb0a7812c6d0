------------------------------ MODULE PS4Queue ------------------------------
(***************************************************************************)
(* The PS4 install queue of internal/ps4 (Queue, FileTaskStore and the     *)
(* package registrations of ContentServer) beside the console it drives.   *)
(* One worker goroutine installs one package at a time: it serves the      *)
(* package over HTTP, finds or registers a task on the console, records it *)
(* in a file, polls it, and unregisters it unless the install is verified. *)
(* HTTP handlers run beside it; PauseJob and ResumeJob call the console    *)
(* without holding the lock.  A restart of the manager forgets the queue   *)
(* but not the file or the console, and starts ReconcileOrphanedTasks      *)
(* beside the new worker (NewService).                                     *)
(*                                                                         *)
(* One action is one critical section of Queue.mu, one request to the      *)
(* console or one rewrite of the task file.  Sections that follow each     *)
(* other with nothing in between that another actor can tell are one step. *)
(***************************************************************************)
EXTENDS RemoteInstaller, Sequences

CONSTANTS
    MaxJobs,      \* bound: jobs ever created
    MaxQueues,    \* bound: calls of Enqueue
    MaxPending,   \* bound: a Retry is offered while pending is shorter
    MaxRestarts,  \* bound: restarts of the manager
    PausableJobs, \* bound: the jobs PauseJob and ResumeJob are called for
    PackageOf     \* the package of each job: its content, title and kind

JobIds == 1..MaxJobs
NoId   == 0

\* kind: "game" is a pkg-game with a title ID, "dependent" a patch, DLC or
\* license, "other" anything else.
ASSUME PS4Assumption ==
    /\ {MaxJobs, MaxQueues, MaxPending, MaxRestarts} \subseteq Nat
    /\ PausableJobs \subseteq JobIds
    /\ \A j \in JobIds : /\ PackageOf[j].content \in Contents
                         /\ PackageOf[j].kind \in {"game", "dependent", "other"}

\* isActive of queue.go.
Active == {"VALIDATING", "SERVING", "REQUESTING_INSTALL", "DOWNLOADING",
           "PAUSED", "VERIFYING"}
Unfinished == Active \cup {"WAITING"}
States == Unfinished \cup {"ABSENT", "COMPLETED", "FAILED", "CANCELLED"}

VARIABLES
    state, queueOf, lastJob, lastQueue, stopOnError, pending, paused, closed,
    activeID,  \* the job Cancel, PauseJob and ResumeJob may act on
    stopped,   \* the context of the active job is cancelled
    pc,        \* where the worker goroutine is
    item,      \* the job it claimed
    have,      \* its snapshot of the job was not empty
    taskID,    \* the console task it follows
    err,       \* the error process is about to return
    call,      \* the PauseJob or ResumeJob in flight, or NoCall
    store,     \* the task file, .rpi-pending-tasks.json
    recovery,  \* the progress of ReconcileOrphanedTasks
    restarts,  \* history: restarts so far
    retried,   \* history: the waiting jobs that a Retry put back
    excused    \* history: tasks that may be on the console and not in the file:
               \* never written to it, or verified to be installed

jobVars  == <<queueOf, lastJob, lastQueue, stopOnError>>
ctrlVars == <<paused, closed>>
workVars == <<item, have, taskID, err>>
history  == <<restarts, excused>>
vars == <<state, jobVars, pending, ctrlVars, activeID, stopped, pc, workVars,
          call, store, recovery, history, retried, console>>

NoCall == [job |-> NoId, pause |-> FALSE, task |-> NoTask, sent |-> FALSE]
Calls  == [job : JobIds \cup {NoId}, pause : BOOLEAN,
           task : Tasks \cup {NoTask}, sent : BOOLEAN]

\* todo: the tasks List returned; current: the one whose entry goes next.
Recovered == [todo |-> {}, current |-> NoTask]

WorkerPoints ==
    {"idle", "claimed", "snapped", "validating", "serving", "requesting",
     "adopting", "installing", "registered", "tracking", "polling",
     "verifying", "cleanup", "untracking", "finishing", "settle", "announce",
     "done"}

Init ==
    /\ ConsoleInit
    /\ state = [j \in JobIds |-> "ABSENT"]
    /\ pending = <<>>
    /\ paused = FALSE
    /\ closed = FALSE
    /\ stopped = FALSE
    /\ have = FALSE
    /\ activeID = NoId
    /\ item = NoId
    /\ taskID = NoTask
    /\ pc = "idle"
    /\ err = "none"
    /\ call = NoCall
    /\ retried = {}
    /\ queueOf = [j \in JobIds |-> NoId]
    /\ lastJob = 0
    /\ lastQueue = 0
    /\ stopOnError = {}
    /\ store = {}
    /\ recovery = Recovered
    /\ restarts = 0
    /\ excused = {}

----------------------------------------------------------------------------
(* The handlers.                                                            *)

handlerFrame == UNCHANGED <<activeID, pc, workVars, store, recovery, history>>

\* Mutant: ids counted from the last one handed out.
NewJobs_OffByOne(n) == [i \in 1..n |-> lastJob + i - 1]

NewJobs(n) == [i \in 1..n |-> lastJob + i]

Enqueue(n, stop) ==
    /\ ~closed
    /\ lastQueue < MaxQueues
    /\ lastJob + n <= MaxJobs
    /\ lastQueue' = lastQueue + 1
    /\ lastJob' = lastJob + n
    /\ stopOnError' = IF stop THEN stopOnError \cup {lastQueue'}
                              ELSE stopOnError
    /\ state' = [j \in JobIds |-> IF j \in lastJob + 1 .. lastJob'
                                  THEN "WAITING" ELSE state[j]]
    /\ queueOf' = [j \in JobIds |-> IF j \in lastJob + 1 .. lastJob'
                                    THEN lastQueue' ELSE queueOf[j]]
    /\ pending' = pending \o NewJobs(n)
    /\ handlerFrame
    /\ UNCHANGED <<ctrlVars, stopped, call, retried, console>>

\* Mutant: the state of an active job is written at once.
Cancel_OnTheSpot(j) ==
    /\ state[j] \in Unfinished
    /\ state' = [state EXCEPT ![j] = "CANCELLED"]
    /\ retried' = retried \ {j}
    /\ handlerFrame
    /\ UNCHANGED <<jobVars, pending, ctrlVars, stopped, call, console>>

\* A waiting job is cancelled on the spot; the active one through its context.
Cancel(j) ==
    /\ \/ /\ state[j] = "WAITING"
          /\ state' = [state EXCEPT ![j] = "CANCELLED"]
          /\ retried' = retried \ {j}
          /\ UNCHANGED stopped
       \/ /\ state[j] \in Active
          /\ activeID = j
          /\ stopped' = TRUE
          /\ UNCHANGED <<state, retried>>
    /\ handlerFrame
    /\ UNCHANGED <<jobVars, pending, ctrlVars, call, console>>

Retry(j) ==
    /\ state[j] \in {"FAILED", "CANCELLED"}
    /\ Len(pending) < MaxPending
    /\ state' = [state EXCEPT ![j] = "WAITING"]
    /\ pending' = Append(pending, j)
    /\ retried' = retried \cup {j}
    /\ handlerFrame
    /\ UNCHANGED <<jobVars, ctrlVars, stopped, call, console>>

SetPaused(value) ==
    /\ paused' = value
    /\ handlerFrame
    /\ UNCHANGED <<state, jobVars, pending, closed, stopped, call, retried,
                   console>>

ClearCompleted ==
    /\ state' = [j \in JobIds |-> IF state[j] \in {"COMPLETED", "CANCELLED"}
                                  THEN "ABSENT" ELSE state[j]]
    /\ handlerFrame
    /\ UNCHANGED <<jobVars, pending, ctrlVars, stopped, call, retried, console>>

\* Mutant: the install in progress is not cancelled.
Close_KeepsJob ==
    /\ closed' = TRUE
    /\ handlerFrame
    /\ UNCHANGED <<state, jobVars, pending, paused, stopped, call, retried,
                   console>>

Close ==
    /\ closed' = TRUE
    /\ stopped' = (stopped \/ (~closed /\ activeID # NoId))
    /\ handlerFrame
    /\ UNCHANGED <<state, jobVars, pending, paused, call, retried, console>>

callFrame ==
    /\ handlerFrame
    /\ UNCHANGED <<jobVars, pending, ctrlVars, stopped, retried>>

From(pause) == IF pause THEN "DOWNLOADING" ELSE "PAUSED"
To(pause) == From(~pause)

\* setJobPaused reads the job and its task, and releases the lock.
BeginCall(j, pause) ==
    /\ call = NoCall
    /\ state[j] = From(pause)
    /\ activeID = j
    /\ call' = [job |-> j, pause |-> pause, task |-> taskID, sent |-> FALSE]
    /\ callFrame
    /\ UNCHANGED <<state, console>>

\* The request: the console may act on it and the answer still be lost.
SendCall(answered) ==
    /\ call # NoCall /\ ~call.sent
    /\ task' \in {task, IF call.pause THEN Suspended(call.task)
                                      ELSE Continued(call.task)}
    /\ answered => task' # task
    /\ call' = IF answered THEN [call EXCEPT !.sent = TRUE] ELSE NoCall
    /\ callFrame
    /\ UNCHANGED <<state, contentOf, live>>

\* Locked again: written only while the job is in the state it was read in.
EndCall ==
    /\ call.sent
    /\ state' = [state EXCEPT ![call.job] =
                    IF @ = From(call.pause) THEN To(call.pause) ELSE @]
    /\ call' = NoCall
    /\ callFrame
    /\ UNCHANGED console

----------------------------------------------------------------------------
(* The worker goroutine.                                                    *)

workerFrame == UNCHANGED <<jobVars, ctrlVars, call, recovery, restarts>>
\* A step of the worker inside process that leaves the queue and files alone.
stepFrame == workerFrame /\ UNCHANGED <<pending, activeID, stopped, item,
                   store>>

update(s) == [state EXCEPT ![item] = IF @ = "ABSENT" THEN @ ELSE s]

CanDequeue == pc = "idle" /\ ~closed /\ ~paused /\ pending # <<>>

Skip ==
    /\ CanDequeue
    /\ state[Head(pending)] # "WAITING"
    /\ pending' = Tail(pending)
    /\ workerFrame
    /\ UNCHANGED <<state, activeID, stopped, pc, workVars, store, excused,
                   retried, console>>

\* Mutant: the state of the popped id is not checked.
Claim_Unchecked ==
    /\ CanDequeue
    /\ pending' = Tail(pending)
    /\ activeID' = Head(pending)
    /\ item' = Head(pending)
    /\ stopped' = FALSE
    /\ pc' = "claimed"
    /\ workerFrame
    /\ UNCHANGED <<state, have, taskID, err, store, excused, retried, console>>

\* The job is claimed but stays WAITING until process has started.
Claim ==
    /\ CanDequeue
    /\ state[Head(pending)] = "WAITING"
    /\ pending' = Tail(pending)
    /\ activeID' = Head(pending)
    /\ item' = Head(pending)
    /\ stopped' = FALSE
    /\ pc' = "claimed"
    /\ workerFrame
    /\ UNCHANGED <<state, have, taskID, err, store, excused, retried,
                   console>>

Exit ==
    /\ pc = "idle" /\ closed
    /\ pc' = "done"
    /\ workerFrame
    /\ UNCHANGED <<state, pending, activeID, stopped, workVars, store, excused,
                   retried, console>>

Snapshot ==
    /\ pc = "claimed"
    /\ have' = (state[item] # "ABSENT")
    /\ pc' = "snapped"
    /\ stepFrame
    /\ UNCHANGED <<state, taskID, err, excused, retried, console>>

Validate ==
    /\ pc = "snapped"
    /\ state' = update("VALIDATING")
    /\ retried' = retried \ {item}
    /\ pc' = "validating"
    /\ stepFrame
    /\ UNCHANGED <<have, taskID, err, excused, console>>

\* Leave process with an error before there is a task to clean up.
Fail(e) ==
    /\ err' = e
    /\ pc' = "finishing"
    /\ stepFrame
    /\ UNCHANGED <<state, have, taskID, excused, retried, console>>

\* ContentServer.Register, which fails when the files changed since the scan.
Serve ==
    /\ pc = "validating"
    /\ state' = update("SERVING")
    /\ pc' = "serving"
    /\ stepFrame
    /\ UNCHANGED <<have, taskID, err, excused, retried, console>>

ServeFails == pc = "validating" /\ Fail("error")

\* registerTask: without a content ID it goes straight to Install.
RequestInstall ==
    /\ pc = "serving"
    /\ state' = update("REQUESTING_INSTALL")
    /\ pc' = IF have THEN "requesting" ELSE "installing"
    /\ stepFrame
    /\ UNCHANGED <<have, taskID, err, excused, retried, console>>

Content == PackageOf[item].content

\* The tasks somebody still refers to.
Known == store \cup {taskID, call.task, recovery.current} \cup recovery.todo

\* The console holds a task for this content: the worker will follow it.
FindTask ==
    /\ pc = "requesting"
    /\ ~stopped
    /\ \E t \in Holding(Content) : taskID' = t
    /\ pc' = "adopting"
    /\ stepFrame
    /\ UNCHANGED <<state, have, err, excused, retried, console>>

\* No task, or the lookup failed: an error is not fatal.
FindsNone ==
    /\ pc = "requesting"
    /\ pc' = "installing"
    /\ stepFrame
    /\ UNCHANGED <<state, workVars, excused, retried, console>>

\* The resume of an adopted task is advisory.
AdoptTask ==
    /\ pc = "adopting"
    /\ task' \in {task, Continued(taskID)}
    /\ pc' = "registered"
    /\ stepFrame
    /\ UNCHANGED <<state, workVars, excused, retried, contentOf, live>>

Install(t) ==
    /\ pc = "installing" /\ have /\ ~stopped
    /\ RegisterTask(t, Content, Known)
    /\ taskID' = t
    /\ excused' = excused \cup {t}
    /\ pc' = "registered"
    /\ stepFrame
    /\ UNCHANGED <<state, have, err, retried>>

\* What went wrong: cancelling the context makes a pending request fail too.
Errors == IF stopped THEN {"error", "cancelled"} ELSE {"error"}

\* Refused, unreachable, or no URLs to install because the job is gone.
InstallFails ==
    /\ pc = "installing"
    /\ \E e \in IF have THEN Errors ELSE {"error"} : Fail(e)

\* The console registered the task and its answer never arrived.
InstallReplyLost(t) ==
    /\ pc = "installing" /\ have
    /\ RegisterTask(t, Content, Known)
    /\ excused' = excused \cup {t}
    /\ err' \in Errors
    /\ pc' = "finishing"
    /\ stepFrame
    /\ UNCHANGED <<state, have, taskID, retried>>

\* TaskID is set, then DOWNLOADING: PauseJob needs both.
StartDownload ==
    /\ pc = "registered"
    /\ state' = update("DOWNLOADING")
    /\ pc' = "tracking"
    /\ stepFrame
    /\ UNCHANGED <<have, taskID, err, excused, retried, console>>

\* tasks.Add; a failure to write is only published.
Track ==
    /\ pc = "tracking"
    /\ pc' = "polling"
    /\ \/ store' = store \cup {taskID} /\ excused' = excused \ {taskID}
       \/ UNCHANGED <<store, excused>>
    /\ workerFrame
    /\ UNCHANGED <<state, pending, activeID, stopped, workVars, retried,
                   console>>

\* Leave process with the deferred clean-up of the task still to run.
FailTask(e) ==
    /\ err' = e
    /\ pc' = "cleanup"
    /\ stepFrame
    /\ UNCHANGED <<state, have, taskID, excused, retried, console>>

\* Mutant: the context is not looked at while the console downloads.
PollStops_Late == /\ pc = "polling" /\ stopped /\ task[taskID] # "running"
                  /\ FailTask("cancelled")

PollStops == pc = "polling" /\ stopped /\ FailTask("cancelled")

\* The task broke or is no longer registered.
PollFindsFailure ==
    pc = "polling" /\ task[taskID] \in {"broken", "none"} /\ FailTask("error")

\* Three requests in a row went unanswered.
PollUnanswered == pc = "polling" /\ FailTask("error")

PollFindsComplete ==
    /\ pc = "polling"
    /\ task[taskID] = "finished"
    /\ state' = update("VERIFYING")
    /\ pc' = "verifying"
    /\ stepFrame
    /\ UNCHANGED <<have, taskID, err, excused, retried, console>>

\* Only a base game is looked up on the console.
Verify ==
    /\ pc = "verifying"
    /\ err' = "none"
    /\ excused' = excused \cup {taskID}
    /\ pc' = "untracking"
    /\ stepFrame
    /\ UNCHANGED <<state, have, taskID, retried, console>>

VerifyFails ==
    /\ pc = "verifying"
    /\ PackageOf[item].kind = "game"
    /\ \E e \in Errors : FailTask(e)

\* The deferred RPI Cancel: stop and unregister, which may go unanswered.
Unregister ==
    /\ pc = "cleanup"
    /\ task' = Unregistered(taskID)
    /\ pc' = "untracking"
    /\ stepFrame
    /\ UNCHANGED <<state, workVars, excused, retried, contentOf, live>>

\* Mutant: the entry is removed although the console did not answer.
UnregisterFails_Untracks ==
    /\ pc = "cleanup"
    /\ task' \in AfterFailedCancel(taskID)
    /\ pc' = "untracking"
    /\ stepFrame
    /\ UNCHANGED <<state, workVars, excused, retried, contentOf, live>>

UnregisterFails ==
    /\ pc = "cleanup"
    /\ task' \in AfterFailedCancel(taskID)
    /\ pc' = "finishing"
    /\ stepFrame
    /\ UNCHANGED <<state, workVars, excused, retried, contentOf, live>>

\* tasks.Remove, whose error is ignored.
Untrack ==
    /\ pc = "untracking"
    /\ store' \in {store, store \ {taskID}}
    /\ pc' = "finishing"
    /\ workerFrame
    /\ UNCHANGED <<state, pending, activeID, stopped, workVars, excused,
                   retried, console>>

Outcome(e) == CASE e = "none" -> "COMPLETED"
                [] e = "cancelled" -> "CANCELLED"
                [] e = "error" -> "FAILED"

\* Mutant: the package URLs are left to answer.
Finish_KeepsUrls ==
    /\ pc = "finishing"
    /\ state' = update(Outcome(err))
    /\ pc' = "settle"
    /\ stepFrame
    /\ UNCHANGED <<have, taskID, err, excused, retried, console>>

\* The package URLs are revoked (deferred in process), then finish.
Finish ==
    /\ pc = "finishing"
    /\ live' = {}
    /\ state' = update(Outcome(err))
    /\ pc' = "settle"
    /\ stepFrame
    /\ UNCHANGED <<have, taskID, err, excused, retried, task,
                   contentOf>>

WaitingIn(q) == {j \in JobIds : queueOf[j] = q /\ state[j] = "WAITING"}

\* cancelDependentsLocked: what cannot be installed without the base game.
DependentsOf(g) ==
    {j \in WaitingIn(queueOf[g]) : /\ PackageOf[j].kind = "dependent"
                                   /\ PackageOf[j].title = PackageOf[g].title}

\* Mutant: without stop on error a failure takes nothing with it.
Dragged_StopOnErrorOnly ==
    IF err = "error" /\ queueOf[item] \in stopOnError
    THEN WaitingIn(queueOf[item]) ELSE {}

\* The jobs the failure of the claimed one takes with it.
Dragged ==
    CASE err \in {"none", "cancelled"} -> {}
      [] err = "error" /\ queueOf[item] \in stopOnError ->
            WaitingIn(queueOf[item])
      [] err = "error" /\ queueOf[item] \notin stopOnError ->
            IF PackageOf[item].kind = "game" THEN DependentsOf(item) ELSE {}

queueDone(q, st) == \A j \in JobIds : queueOf[j] = q => st[j] \notin Unfinished

Settle ==
    /\ pc = "settle"
    /\ activeID' = NoId
    /\ stopped' = FALSE
    /\ state' = [j \in JobIds |-> IF j \in Dragged THEN "CANCELLED"
                                  ELSE state[j]]
    /\ retried' = retried \ Dragged
    /\ have' = FALSE
    /\ taskID' = NoTask
    /\ err' = "none"
    /\ IF queueDone(queueOf[item], state')
       THEN pc' = "announce" /\ item' = item
       ELSE pc' = "idle" /\ item' = NoId
    /\ excused' = excused \cap Registered
    /\ workerFrame
    /\ UNCHANGED <<pending, store, console>>

Announce ==
    /\ pc = "announce"
    /\ pc' = "idle"
    /\ item' = NoId
    /\ workerFrame
    /\ UNCHANGED <<state, pending, activeID, stopped, have, taskID, err, store,
                   excused, retried, console>>

----------------------------------------------------------------------------
(* Restart and recovery.                                                    *)

\* The process ends, at any point, and a new one starts: NewService reads the
\* file in a goroutine of its own and the queue is empty.  Ids carry the time of
\* their creation, so the new process may count from one again.
Restart ==
    /\ restarts < MaxRestarts
    /\ restarts' = restarts + 1
    /\ state' = [j \in JobIds |-> "ABSENT"]
    /\ pending' = <<>>
    /\ paused' = FALSE
    /\ closed' = FALSE
    /\ stopped' = FALSE
    /\ have' = FALSE
    /\ activeID' = NoId
    /\ item' = NoId
    /\ taskID' = NoTask
    /\ pc' = "idle"
    /\ err' = "none"
    /\ call' = NoCall
    /\ retried' = {}
    /\ recovery' = [todo |-> store, current |-> NoTask]
    /\ live' = {}
    /\ lastJob' = 0
    /\ lastQueue' = 0
    /\ queueOf' = [j \in JobIds |-> NoId]
    /\ stopOnError' = {}
    /\ UNCHANGED <<store, excused, task, contentOf>>

recoveryFrame ==
    UNCHANGED <<state, jobVars, pending, ctrlVars, activeID, stopped, pc,
                workVars, call, history, retried, contentOf, live>>

\* ReconcileOrphanedTasks unregisters the tasks it listed, one by one.
ReconcileTask(t) ==
    /\ recovery.current = NoTask
    /\ t \in recovery.todo
    /\ task' = Unregistered(t)
    /\ recovery' = [todo |-> recovery.todo \ {t}, current |-> t]
    /\ recoveryFrame
    /\ UNCHANGED store

\* Mutant: the entry goes although the console did not answer.
ReconcileFails_Removes(t) ==
    /\ recovery.current = NoTask
    /\ t \in recovery.todo
    /\ task' \in AfterFailedCancel(t)
    /\ recovery' = [todo |-> recovery.todo \ {t}, current |-> t]
    /\ recoveryFrame
    /\ UNCHANGED store

\* The console did not answer: the entry stays for the next start.
ReconcileFails(t) ==
    /\ recovery.current = NoTask
    /\ t \in recovery.todo
    /\ task' \in AfterFailedCancel(t)
    /\ recovery' = [recovery EXCEPT !.todo = @ \ {t}]
    /\ recoveryFrame
    /\ UNCHANGED store

ReconcileRemoves ==
    /\ recovery.current # NoTask
    /\ store' \in {store, store \ {recovery.current}}
    /\ recovery' = [recovery EXCEPT !.current = NoTask]
    /\ recoveryFrame
    /\ UNCHANGED task

Reconcile == (\E t \in Tasks : ReconcileTask(t) \/ ReconcileFails(t))
             \/ ReconcileRemoves

ConsoleAlone ==
    /\ ConsoleStep
    /\ UNCHANGED <<state, jobVars, pending, ctrlVars, activeID, stopped, pc,
                   workVars, call, store, recovery, history, retried>>

----------------------------------------------------------------------------
Handler ==
    \/ \E n \in 1..MaxJobs, stop \in BOOLEAN : Enqueue(n, stop)
    \/ \E j \in JobIds : Cancel(j)
    \/ \E j \in JobIds : Retry(j)
    \/ \E value \in BOOLEAN : SetPaused(value)
    \/ ClearCompleted
    \/ Close

JobCall ==
    \/ \E j \in PausableJobs, pause \in BOOLEAN : BeginCall(j, pause)
    \/ \E answered \in BOOLEAN : SendCall(answered)
    \/ EndCall

\* The steps of the worker that do not wait for the console to make progress.
Worker ==
    \/ Skip
    \/ Claim
    \/ Exit
    \/ Snapshot
    \/ Validate
    \/ Serve
    \/ ServeFails
    \/ RequestInstall
    \/ FindTask
    \/ FindsNone
    \/ AdoptTask
    \/ \E t \in Tasks : Install(t)
    \/ InstallFails
    \/ \E t \in Tasks : InstallReplyLost(t)
    \/ StartDownload
    \/ Track
    \/ PollStops
    \/ PollFindsFailure
    \/ PollFindsComplete
    \/ Verify
    \/ VerifyFails
    \/ Unregister
    \/ UnregisterFails
    \/ Untrack
    \/ Finish
    \/ Settle
    \/ Announce

Next == Handler \/ JobCall \/ Worker \/ PollUnanswered \/ ConsoleAlone
        \/ Restart \/ Reconcile

Spec == Init /\ [][Next]_vars

\* The worker goroutine runs whenever it can: every request to the console has a
\* deadline (the client's timeout, five seconds in the clean-up).  Nothing is
\* assumed of users, of the console's downloads, or of unanswered polls.
FairSpec == Spec /\ WF_vars(Worker)

----------------------------------------------------------------------------
(* Properties.                                                              *)

\* Type invariant.
TypeOK ==
    /\ ConsoleTypeOK
    /\ state \in [JobIds -> States]
    /\ queueOf \in [JobIds -> 0..MaxQueues]
    /\ lastJob \in 0..MaxJobs
    /\ lastQueue \in 0..MaxQueues
    /\ stopOnError \subseteq 1..MaxQueues
    /\ pending \in Seq(JobIds)
    /\ {paused, closed, stopped, have} \subseteq BOOLEAN
    /\ {activeID, item} \subseteq JobIds \cup {NoId}
    /\ pc \in WorkerPoints
    /\ taskID \in Tasks \cup {NoTask}
    /\ err \in {"none", "error", "cancelled"}
    /\ call \in Calls
    /\ recovery \in [todo : SUBSET Tasks, current : Tasks \cup {NoTask}]
    /\ restarts \in 0..MaxRestarts
    /\ retried \subseteq JobIds
    /\ {store, excused} \subseteq SUBSET Tasks

\* One package group at a time: an active job is the one the worker is on, in a
\* state that fits where the worker is, unless the user cleared it meanwhile.
StatesAt ==
    [p \in WorkerPoints \ {"idle", "claimed", "snapped", "settle", "announce",
                           "done"} |->
        CASE p = "validating" -> {"VALIDATING"}
          [] p = "serving" -> {"SERVING"}
          [] p \in {"requesting", "adopting", "installing", "registered"} ->
                {"REQUESTING_INSTALL"}
          [] p \in {"tracking", "polling"} -> {"DOWNLOADING", "PAUSED"}
          [] p = "verifying" -> {"VERIFYING"}
          [] p \in {"cleanup", "untracking", "finishing"} -> Active]

OneActiveJob ==
    /\ \A j \in JobIds : state[j] \in Active => j = activeID /\ j = item
    /\ pc \in DOMAIN StatesAt => state[item] \in StatesAt[pc] \cup {"ABSENT"}
    /\ pc \notin DOMAIN StatesAt => \A j \in JobIds : state[j] \notin Active

\* A cancelled, completed or cleared job is not claimed, whatever entries for it
\* are still in pending.  It runs again only if it was cancelled after its claim
\* and before process set VALIDATING, where it is still WAITING.
CancelledStartsOnlyIfClaimed ==
    [][\A j \in JobIds :
        state[j] \in {"CANCELLED", "COMPLETED", "ABSENT"} =>
            /\ activeID' = j => activeID = j
            /\ state'[j] \in Active => pc = "snapped" /\ item = j]_vars

\* Once a failure is settled, what it takes with it stays stopped: the whole
\* queue under stop on error, otherwise the patch, DLC and license jobs of a
\* failed base game, except what a user retried since.
FailureDragsItsQueue ==
    \A j, k \in JobIds :
        /\ state[j] = "FAILED" /\ ~(pc = "settle" /\ item = j)
        /\ queueOf[k] = queueOf[j] /\ state[k] = "WAITING"
        /\ \/ queueOf[j] \in stopOnError
           \/ PackageOf[j].kind = "game" /\ k \in DependentsOf(j)
        => k \in retried

\* No task is lost from sight: a task on the console is in the file, or was
\* installed and verified, or never made it into the file at all.  So the next
\* start can still clear it (ReconcileOrphanedTasks).
OrphansAreTracked == Registered \subseteq store \cup excused

\* README: package URLs are revoked after completion or failure.  The content
\* server answers for no task unless a job is between its registration and the
\* end of process.
UrlsAreRevoked == live # {} => pc \in DOMAIN StatesAt

\* A job being installed cannot be kept from ending by what the console does or
\* fails to do: once its context is cancelled, it ends.
CancelEnds == \A j \in JobIds : stopped /\ item = j ~> state[j] \notin Active

\* Close returns: the worker leaves run even in the middle of an install.
CloseReturns == closed ~> (pc = "done" \/ ~closed)

\* README: an existing task is adopted, preserving its progress.  A task that is
\* still downloading while a job follows it is unregistered only by the worker.
FollowedTaskIsKept ==
    [][pc = "polling" /\ task[taskID] \in {"running", "paused"}
       => task'[taskID] # "none"]_vars

\* The comment on registerTask: the download of an adopted task keeps running.
\* While a job follows a downloading task, its package URLs answer.
FollowedTaskIsServed ==
    pc = "polling" /\ task[taskID] \in {"running", "paused"} => taskID \in live
=============================================================================
