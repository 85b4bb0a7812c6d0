--------------------------- MODULE PS4QueueProofs ---------------------------
(***************************************************************************)
(* Machine-checked proofs about the PS4 queue beside its console, for any  *)
(* number of jobs, tasks, packages and restarts: type correctness and the  *)
(* safety invariants, through the inductive invariant IInv, and that a     *)
(* cancelled job starts only in the window of its claim.                   *)
(***************************************************************************)
EXTENDS PS4Queue, TLAPS, SequenceTheorems

----------------------------------------------------------------------------
(* The inductive invariant.                                                 *)

\* Where the worker has a job, and where that job follows a task.
Held == WorkerPoints \ {"idle", "announce", "done"}
Following == {"adopting", "registered", "tracking", "polling", "verifying",
              "cleanup", "untracking"}

\* The worker's local id is the active job, one that was submitted.
WorkerHolds ==
    /\ pc \in Held => item \in 1..lastJob /\ activeID = item
    /\ pc \notin Held => activeID = NoId

\* What Enqueue hands out next is in use nowhere.
IdsAreFresh ==
    /\ \A j \in JobIds : j > lastJob => state[j] = "ABSENT"
    /\ \A j \in JobIds : queueOf[j] <= lastQueue

CallsAreOfJobs == call # NoCall => call.job \in JobIds

FollowsATask == pc \in Following => taskID \in Tasks

\* A task whose entry is about to go is off the console, or was installed.
RemovalsAreSafe ==
    /\ pc = "untracking" => taskID \notin Registered \ excused
    /\ recovery.current \notin Registered

\* Until a failure is settled, its error says what it takes with it.
FailuresAreErrors == pc = "settle" /\ state[item] = "FAILED" => err = "error"

QueueInv == /\ OneActiveJob /\ WorkerHolds /\ IdsAreFresh /\ CallsAreOfJobs
            /\ FailureDragsItsQueue /\ FailuresAreErrors

TaskInv == UrlsAreRevoked /\ OrphansAreTracked /\ FollowsATask /\ RemovalsAreSafe

IInv == TypeOK /\ QueueInv /\ TaskInv

----------------------------------------------------------------------------
(* Type correctness.                                                        *)

\* A function on 1..n is a sequence.
LEMMA FunctionIsSeq ==
    ASSUME NEW S, NEW n \in Nat, NEW f \in [1..n -> S]
    PROVE  f \in Seq(S)
OBVIOUS

\* The ids that Enqueue hands out are ids.
LEMMA NewJobsAreJobs ==
    ASSUME TypeOK, NEW n \in 1..MaxJobs, lastJob + n <= MaxJobs
    PROVE  NewJobs(n) \in Seq(JobIds)
<1>1. n \in Nat /\ lastJob \in Nat /\ \A i \in 1..n : lastJob + i \in JobIds
  BY PS4Assumption DEF TypeOK, JobIds
<1>2. NewJobs(n) \in [1..n -> JobIds]
  BY <1>1 DEF NewJobs
<1>3. QED
  BY <1>1, <1>2, FunctionIsSeq

\* The variables of the queue, of the worker and of the console, apart.
QueueTypes ==
    /\ state \in [JobIds -> States]
    /\ queueOf \in [JobIds -> 0..MaxQueues]
    /\ lastJob \in 0..MaxJobs
    /\ lastQueue \in 0..MaxQueues
    /\ stopOnError \subseteq 1..MaxQueues
    /\ pending \in Seq(JobIds)
    /\ paused \in BOOLEAN /\ closed \in BOOLEAN
    /\ retried \subseteq JobIds

WorkerTypes ==
    /\ stopped \in BOOLEAN /\ have \in BOOLEAN
    /\ activeID \in JobIds \cup {NoId} /\ item \in JobIds \cup {NoId}
    /\ pc \in WorkerPoints
    /\ taskID \in Tasks \cup {NoTask}
    /\ err \in {"none", "error", "cancelled"}
    /\ call \in Calls

TaskTypes ==
    /\ ConsoleTypeOK
    /\ recovery \in [todo : SUBSET Tasks, current : Tasks \cup {NoTask}]
    /\ restarts \in 0..MaxRestarts
    /\ store \subseteq Tasks /\ excused \subseteq Tasks

\* The types of the queue, of its worker and of the tasks, apart.
LEMMA TypesSplit == TypeOK <=> QueueTypes /\ WorkerTypes /\ TaskTypes
BY DEF TypeOK, QueueTypes, WorkerTypes, TaskTypes

\* The same after a step.
LEMMA TypesSplitNext == TypeOK' <=> QueueTypes' /\ WorkerTypes' /\ TaskTypes'
BY DEF TypeOK, QueueTypes, WorkerTypes, TaskTypes

\* What a request does to the tasks keeps their types and registers none.
LEMMA ConsoleSteps ==
    ASSUME ConsoleTypeOK, NEW t, NEW f \in AfterFailedCancel(t) \cup
                                {Suspended(t), Continued(t), Unregistered(t)}
    PROVE  /\ f \in [Tasks -> TaskStates]
           /\ \A u \in Tasks : task[u] = "none" => f[u] = "none"
BY DEF ConsoleTypeOK, AfterFailedCancel, Suspended, Continued, Unregistered, TaskStates

\* A process begins with its types.
LEMMA InitTypeOK == Init => TypeOK
<1> SUFFICES ASSUME Init PROVE TypeOK
  OBVIOUS
<1>1. <<>> \in Seq(JobIds) /\ 0 \in 0..MaxJobs /\ 0 \in 0..MaxQueues
      /\ 0 \in 0..MaxRestarts
  BY EmptySeq, PS4Assumption
<1>2. QueueTypes
  BY <1>1 DEF Init, QueueTypes, States, Unfinished, NoId
<1>3. WorkerTypes
  BY DEF Init, WorkerTypes, WorkerPoints, NoCall, Calls
<1>4. TaskTypes
  BY <1>1 DEF Init, TaskTypes, ConsoleInit, ConsoleTypeOK, TaskStates, Recovered
<1>5. QED
  BY <1>2, <1>3, <1>4, TypesSplit

\* The steps of the worker that only report the job and move on.
Advance ==
    Validate \/ Serve \/ RequestInstall \/ StartDownload \/ PollFindsComplete

\* The steps of the worker that touch neither the queue nor its jobs.
Work == \/ Exit \/ Snapshot \/ ServeFails \/ FindTask \/ FindsNone \/ AdoptTask
        \/ (\E t \in Tasks : Install(t)) \/ InstallFails
        \/ (\E t \in Tasks : InstallReplyLost(t)) \/ Track \/ PollStops
        \/ PollFindsFailure \/ PollUnanswered \/ Verify \/ VerifyFails
        \/ Unregister \/ UnregisterFails \/ Untrack \/ Announce

\* The steps, in the groups that the proofs treat alike.
LEMMA NextCases ==
    Next <=> \/ (\E n \in 1..MaxJobs, stop \in BOOLEAN : Enqueue(n, stop))
             \/ (\E j \in JobIds : Cancel(j) \/ Retry(j))
             \/ (\E value \in BOOLEAN : SetPaused(value)) \/ ClearCompleted \/ Close
             \/ JobCall \/ Skip \/ Claim \/ Work \/ Advance \/ Finish \/ Settle
             \/ ConsoleAlone \/ Restart \/ Reconcile
BY DEF Next, Handler, Worker, Work, Advance

\* Every step keeps the types of the jobs.
LEMMA QueueTypesStep == TypeOK /\ [Next]_vars => QueueTypes'
<1> SUFFICES ASSUME TypeOK, [Next]_vars PROVE QueueTypes'
  OBVIOUS
<1>0. QueueTypes
  BY TypesSplit
<1> USE <1>0 DEF QueueTypes, jobVars, ctrlVars, States, Unfinished, Active
<1>1. ASSUME NEW n \in 1..MaxJobs, NEW stop \in BOOLEAN, Enqueue(n, stop)
      PROVE  QueueTypes'
  <2>1. pending' \in Seq(JobIds)
    BY <1>1, NewJobsAreJobs, ConcatProperties DEF Enqueue
  <2>2. lastJob' \in 0..MaxJobs /\ lastQueue' \in 1..MaxQueues
    BY <1>1, PS4Assumption DEF Enqueue
  <2>3. stopOnError' \subseteq 1..MaxQueues
    BY <1>1, <2>2 DEF Enqueue
  <2>4. state' \in [JobIds -> States] /\ queueOf' \in [JobIds -> 0..MaxQueues]
    BY <1>1, <2>2 DEF Enqueue
  <2>5. QED
    BY <1>1, <2>1, <2>2, <2>3, <2>4 DEF Enqueue
<1>2. ASSUME NEW j \in JobIds, Cancel(j) \/ Retry(j) PROVE QueueTypes'
  <2>1. pending' = pending \/ pending' = Append(pending, j)
    BY <1>2 DEF Cancel, Retry
  <2>2. Append(pending, j) \in Seq(JobIds)
    BY AppendProperties
  <2>3. pending' \in Seq(JobIds)
    BY <2>1, <2>2
  <2>4. QED
    BY <1>2, <2>3 DEF Cancel, Retry
<1>3. CASE (\E value \in BOOLEAN : SetPaused(value)) \/ ClearCompleted \/ Close
  BY <1>3 DEF SetPaused, ClearCompleted, Close
<1>4. CASE JobCall
  BY <1>4 DEF JobCall, BeginCall, SendCall, EndCall, callFrame, To, From
<1>5. CASE Skip \/ Claim
  <2>1. pending' \in Seq(JobIds)
    BY <1>5, HeadTailProperties DEF Skip, Claim, CanDequeue
  <2>2. QED
    BY <1>5, <2>1 DEF Skip, Claim, workerFrame
<1>6. CASE Work
  BY <1>6 DEF Work, Exit, Snapshot, ServeFails, FindTask, FindsNone, AdoptTask, Install,
     InstallFails, InstallReplyLost, Track, PollStops, PollFindsFailure, PollUnanswered,
     Verify, VerifyFails, Unregister, UnregisterFails, Untrack, Announce, Fail, FailTask,
     stepFrame, workerFrame
<1>7. CASE Advance
  BY <1>7 DEF Advance, Validate, Serve, RequestInstall, StartDownload, PollFindsComplete,
     update, stepFrame, workerFrame
<1>8. CASE Finish \/ Settle
  <2>1. Outcome(err) \in States
    BY TypesSplit DEF WorkerTypes, Outcome
  <2>2. QED
    BY <1>8, <2>1 DEF Finish, Settle, update, stepFrame, workerFrame
<1>9. CASE ConsoleAlone \/ Reconcile
  BY <1>9 DEF ConsoleAlone, Reconcile, ReconcileTask, ReconcileFails, ReconcileRemoves,
     recoveryFrame
<1>10. CASE Restart
  <2>1. <<>> \in Seq(JobIds) /\ 0 \in 0..MaxJobs /\ 0 \in 0..MaxQueues
    BY PS4Assumption, EmptySeq
  <2>2. state' \in [JobIds -> States] /\ queueOf' \in [JobIds -> 0..MaxQueues]
    BY <1>10, <2>1 DEF Restart, NoId
  <2>3. QED
    BY <1>10, <2>1, <2>2 DEF Restart
<1>11. CASE UNCHANGED vars
  BY <1>11 DEF vars
<1>12. QED
  BY <1>1, <1>2, <1>3, <1>4, <1>5, <1>6, <1>7, <1>8, <1>9, <1>10, <1>11, NextCases

\* Every step keeps the types of the worker.
LEMMA WorkerTypesStep == TypeOK /\ [Next]_vars => WorkerTypes'
<1> SUFFICES ASSUME TypeOK, [Next]_vars PROVE WorkerTypes'
  OBVIOUS
<1>0. WorkerTypes /\ QueueTypes
  BY TypesSplit
<1> USE <1>0 DEF WorkerTypes, ctrlVars, workVars, WorkerPoints, Calls
<1>1. ASSUME NEW n \in 1..MaxJobs, NEW stop \in BOOLEAN, Enqueue(n, stop)
      PROVE  WorkerTypes'
  <2>1. UNCHANGED <<stopped, activeID, pc, workVars, call>>
    BY <1>1 DEF Enqueue, handlerFrame
  <2>2. QED
    BY <2>1
<1>2. ASSUME NEW j \in JobIds, Cancel(j) \/ Retry(j) PROVE WorkerTypes'
  <2>1. UNCHANGED <<activeID, pc, workVars, call>>
    BY <1>2 DEF Cancel, Retry, handlerFrame
  <2>2. stopped' \in BOOLEAN
    BY <1>2 DEF Cancel, Retry
  <2>3. QED
    BY <2>1, <2>2
<1>3. CASE (\E value \in BOOLEAN : SetPaused(value)) \/ ClearCompleted \/ Close
  <2>1. UNCHANGED <<activeID, pc, workVars, call>>
    BY <1>3 DEF SetPaused, ClearCompleted, Close, handlerFrame
  <2>2. stopped' \in BOOLEAN
    BY <1>3 DEF SetPaused, ClearCompleted, Close
  <2>3. QED
    BY <2>1, <2>2
<1>4. CASE JobCall
  <2>1. PausableJobs \subseteq JobIds
    BY PS4Assumption
  <2>2. call' \in Calls
    <3>1. ASSUME NEW j \in PausableJobs, NEW pause \in BOOLEAN, BeginCall(j, pause)
          PROVE  call' \in Calls
      <4>1. call' = [job |-> j, pause |-> pause, task |-> taskID, sent |-> FALSE]
        BY <3>1 DEF BeginCall
      <4>2. QED
        BY <2>1, <4>1
    <3>2. NoCall \in Calls
      BY DEF NoCall
    <3>3. [call EXCEPT !.sent = TRUE] \in Calls
      OBVIOUS
    <3>4. QED
      BY <1>4, <3>1, <3>2, <3>3 DEF JobCall, SendCall, EndCall
  <2>3. UNCHANGED <<stopped, activeID, pc, workVars>>
    BY <1>4 DEF JobCall, BeginCall, SendCall, EndCall, callFrame, handlerFrame
  <2>4. QED
    BY <2>2, <2>3
<1>5. CASE Skip \/ Claim
  <2>1. Head(pending) \in JobIds
    BY <1>5, HeadTailProperties DEF Skip, Claim, CanDequeue, QueueTypes
  <2>2. QED
    BY <1>5, <2>1, ZenonT(60) DEF Skip, Claim, workerFrame
<1>6. CASE Work
  <2>1. UNCHANGED <<stopped, activeID, call>> /\ item' \in {item, NoId}
    BY <1>6 DEF Work, Exit, Snapshot, ServeFails, FindTask, FindsNone, AdoptTask,
       Install, InstallFails, InstallReplyLost, Track, PollStops, PollFindsFailure,
       PollUnanswered, Verify, VerifyFails, Unregister, UnregisterFails, Untrack,
       Announce, Fail, FailTask, stepFrame, workerFrame
  <2>2. pc' \in WorkerPoints /\ have' \in BOOLEAN
    BY <1>6 DEF Work, Exit, Snapshot, ServeFails, FindTask, FindsNone, AdoptTask,
       Install, InstallFails, InstallReplyLost, Track, PollStops, PollFindsFailure,
       PollUnanswered, Verify, VerifyFails, Unregister, UnregisterFails, Untrack,
       Announce, Fail, FailTask
  <2>3. taskID' \in Tasks \cup {NoTask}
    BY <1>6 DEF Work, Exit, Snapshot, ServeFails, FindTask, FindsNone, AdoptTask,
       Install, InstallFails, InstallReplyLost, Track, PollStops, PollFindsFailure,
       PollUnanswered, Verify, VerifyFails, Unregister, UnregisterFails, Untrack,
       Announce, Fail, FailTask, Holding, Registered
  <2>4. err' \in {"none", "error", "cancelled"}
    BY <1>6 DEF Work, Exit, Snapshot, ServeFails, FindTask, FindsNone, AdoptTask,
       Install, InstallFails, InstallReplyLost, Track, PollStops, PollFindsFailure,
       PollUnanswered, Verify, VerifyFails, Unregister, UnregisterFails, Untrack,
       Announce, Fail, FailTask, Errors
  <2>5. QED
    BY <2>1, <2>2, <2>3, <2>4
<1>7. CASE Advance
  BY <1>7 DEF Advance, Validate, Serve, RequestInstall, StartDownload, PollFindsComplete,
     stepFrame, workerFrame
<1>8. CASE Finish \/ Settle
  BY <1>8 DEF Finish, Settle, stepFrame, workerFrame
<1>9. CASE ConsoleAlone \/ Reconcile
  BY <1>9 DEF ConsoleAlone, Reconcile, ReconcileTask, ReconcileFails, ReconcileRemoves,
     recoveryFrame
<1>10. CASE Restart
  BY <1>10 DEF Restart, NoCall
<1>11. CASE UNCHANGED vars
  BY <1>11 DEF vars
<1>12. QED
  BY <1>1, <1>2, <1>3, <1>4, <1>5, <1>6, <1>7, <1>8, <1>9, <1>10, <1>11, NextCases

\* The worker's local id was handed out.
LEMMA ItemIsAJob ==
    ASSUME TypeOK, WorkerHolds, pc \in Held
    PROVE  item \in JobIds /\ NoId \notin JobIds
<1>1. item \in 1..lastJob /\ lastJob \in 0..MaxJobs /\ MaxJobs \in Nat
  BY PS4Assumption DEF TypeOK, WorkerHolds
<1>2. QED
  BY <1>1 DEF JobIds, NoId

\* What the worker adds to the file or to the history is a task it follows.
LEMMA TaskTypesStep ==
    ASSUME TypeOK, FollowsATask, WorkerHolds, [Next]_vars
    PROVE  TaskTypes'
<1>0. TaskTypes /\ WorkerTypes
  BY TypesSplit
<1> USE <1>0 DEF TaskTypes, ConsoleTypeOK, console, history
<1>1. CASE \/ \E n \in 1..MaxJobs, stop \in BOOLEAN : Enqueue(n, stop)
           \/ \E j \in JobIds : Cancel(j) \/ Retry(j)
           \/ (\E value \in BOOLEAN : SetPaused(value)) \/ ClearCompleted \/ Close
  <2>1. UNCHANGED <<console, store, recovery, history>>
    BY <1>1 DEF Enqueue, Cancel, Retry, SetPaused, ClearCompleted, Close, handlerFrame
  <2>2. QED
    BY <2>1
<1>2. CASE JobCall
  <2>1. UNCHANGED <<contentOf, live, store, recovery, history>>
    BY <1>2 DEF JobCall, BeginCall, SendCall, EndCall, callFrame, handlerFrame
  <2>2. task' \in [Tasks -> TaskStates]
    BY <1>2, ConsoleSteps DEF JobCall, BeginCall, SendCall, EndCall
  <2>3. QED
    BY <2>1, <2>2
<1>3. CASE Skip \/ Claim \/ Advance \/ Finish \/ Settle
  <2>1. UNCHANGED <<task, contentOf, store, recovery, restarts>>
        /\ live' \subseteq live /\ excused' \subseteq excused
    BY <1>3 DEF Skip, Claim, Advance, Validate, Serve, RequestInstall, StartDownload,
       PollFindsComplete, Finish, Settle, stepFrame, workerFrame
  <2>2. QED
    BY <2>1
<1>4. CASE Work
  <2>1. UNCHANGED <<recovery, restarts>>
    BY <1>4 DEF Work, Exit, Snapshot, ServeFails, FindTask, FindsNone, AdoptTask,
       Install, InstallFails, InstallReplyLost, Track, PollStops, PollFindsFailure,
       PollUnanswered, Verify, VerifyFails, Unregister, UnregisterFails, Untrack,
       Announce, Fail, FailTask, stepFrame, workerFrame
  <2>2. store' \subseteq Tasks /\ excused' \subseteq Tasks
    BY <1>4 DEF Work, Exit, Snapshot, ServeFails, FindTask, FindsNone, AdoptTask,
       Install, InstallFails, InstallReplyLost, Track, PollStops, PollFindsFailure,
       PollUnanswered, Verify, VerifyFails, Unregister, UnregisterFails, Untrack,
       Announce, Fail, FailTask, stepFrame, FollowsATask, Following
  <2>3. ASSUME NEW t \in Tasks, RegisterTask(t, Content, Known), Content \in Contents
        PROVE  ConsoleTypeOK'
    BY <2>3 DEF RegisterTask, TaskStates
  <2>4. CASE \E t \in Tasks : Install(t) \/ InstallReplyLost(t)
    <3>1. pc = "installing"
      BY <2>4 DEF Install, InstallReplyLost
    <3>2. item \in JobIds
      BY <3>1, ItemIsAJob DEF Held, WorkerPoints
    <3>3. Content \in Contents
      BY <3>2, PS4Assumption DEF Content
    <3>4. ConsoleTypeOK'
      BY <2>3, <2>4, <3>3 DEF Install, InstallReplyLost
    <3>5. QED
      BY <2>1, <2>2, <3>4
  <2>5. CASE AdoptTask \/ Unregister \/ UnregisterFails
    <3>1. UNCHANGED <<contentOf, live>>
      BY <2>5 DEF AdoptTask, Unregister, UnregisterFails
    <3>2. task' \in [Tasks -> TaskStates]
      BY <2>5, ConsoleSteps DEF AdoptTask, Unregister, UnregisterFails
    <3>3. QED
      BY <2>1, <2>2, <3>1, <3>2
  <2>6. CASE UNCHANGED console
    BY <2>1, <2>2, <2>6
  <2>7. QED
    BY <1>4, <2>1, <2>2, <2>4, <2>5, <2>6 DEF Work, Exit, Snapshot, ServeFails,
       FindTask, FindsNone, InstallFails, Track, PollStops, PollFindsFailure,
       PollUnanswered, Verify, VerifyFails, Untrack, Announce, Fail, FailTask
<1>5. CASE ConsoleAlone
  BY <1>5 DEF ConsoleAlone, ConsoleStep, ConsoleFinishes, ConsoleBreaks,
     ConsoleRetires, Unregistered, TaskStates
<1>6. CASE Reconcile
  <2>1. UNCHANGED <<contentOf, live, history>> /\ store' \subseteq store
    BY <1>6 DEF Reconcile, ReconcileTask, ReconcileFails, ReconcileRemoves,
       recoveryFrame
  <2>2. task' \in [Tasks -> TaskStates]
    BY <1>6, ConsoleSteps DEF Reconcile, ReconcileTask, ReconcileFails, ReconcileRemoves
  <2>3. recovery' \in [todo : SUBSET Tasks, current : Tasks \cup {NoTask}]
    BY <1>6 DEF Reconcile, ReconcileTask, ReconcileFails, ReconcileRemoves
  <2>4. QED
    BY <2>1, <2>2, <2>3
<1>7. CASE Restart
  BY <1>7, PS4Assumption DEF Restart
<1>8. CASE UNCHANGED vars
  BY <1>8 DEF vars
<1>9. QED
  BY <1>1, <1>2, <1>3, <1>4, <1>5, <1>6, <1>7, <1>8, NextCases

----------------------------------------------------------------------------
(* The tasks: what the worker, the recovery and the console do to them.     *)

\* Where process has a job to report on, with the states it may have there.
Served == {"validating", "serving", "requesting", "adopting", "installing",
           "registered", "tracking", "polling", "verifying", "cleanup",
           "untracking", "finishing"}

\* The states a job may have at each step of process.
LEMMA StatesAtValues ==
    /\ DOMAIN StatesAt = Served
    /\ StatesAt["validating"] = {"VALIDATING"}
    /\ StatesAt["serving"] = {"SERVING"}
    /\ \A p \in {"requesting", "adopting", "installing", "registered"} :
          StatesAt[p] = {"REQUESTING_INSTALL"}
    /\ \A p \in {"tracking", "polling"} : StatesAt[p] = {"DOWNLOADING", "PAUSED"}
    /\ StatesAt["verifying"] = {"VERIFYING"}
    /\ \A p \in {"cleanup", "untracking", "finishing"} : StatesAt[p] = Active
    /\ \A p \in Served : StatesAt[p] \subseteq Active
<1>1. DOMAIN StatesAt = Served
  BY DEF StatesAt, Served, WorkerPoints
<1>2. QED
  BY <1>1 DEF StatesAt, Served, WorkerPoints, Active

\* A step that registers no task, moves process on and drops no entry.
LEMMA QuietTaskStep ==
    ASSUME TaskInv, Registered' \subseteq Registered, excused \subseteq excused',
           store \subseteq store', live' \subseteq live, UNCHANGED <<taskID, recovery>>,
           pc \in Served => pc' \in Served,
           pc' \in Following => taskID' \in Tasks,
           pc' = "untracking" => \/ pc = "untracking"
                                 \/ taskID \notin Registered' \ excused'
    PROVE  TaskInv'
BY StatesAtValues DEF TaskInv, UrlsAreRevoked, OrphansAreTracked, FollowsATask,
   RemovalsAreSafe

\* A new task is known to nobody, and excused until it is in the file.
LEMMA RegisterStep ==
    ASSUME TypeOK, TaskInv, NEW t \in Tasks,
           RegisterTask(t, Content, Known), excused' = excused \cup {t},
           UNCHANGED <<store, recovery>>, pc' \in Served \ {"untracking"},
           taskID' \in Tasks \/ pc' \notin Following
    PROVE  TaskInv'
<1>1. Registered' \subseteq Registered \cup {t} /\ t # recovery.current
  BY DEF RegisterTask, Registered, Fresh, Known, TypeOK, ConsoleTypeOK
<1>2. QED
  BY <1>1, StatesAtValues DEF TaskInv, UrlsAreRevoked, OrphansAreTracked, FollowsATask,
     RemovalsAreSafe

\* Every step keeps what is said of the console.
LEMMA TaskInvStep ==
    ASSUME IInv, [Next]_vars
    PROVE  TaskInv'
<1>0. TypeOK /\ TaskInv /\ ConsoleTypeOK
  BY DEF IInv, TypeOK
<1>1. CASE \/ \E n \in 1..MaxJobs, stop \in BOOLEAN : Enqueue(n, stop)
           \/ \E j \in JobIds : Cancel(j) \/ Retry(j)
           \/ (\E value \in BOOLEAN : SetPaused(value)) \/ ClearCompleted \/ Close
           \/ UNCHANGED vars
  <2>1. UNCHANGED <<console, store, excused, recovery, taskID, pc>>
    BY <1>1 DEF Enqueue, Cancel, Retry, SetPaused, ClearCompleted, Close, handlerFrame,
       workVars, history, vars
  <2>2. Registered' = Registered
    BY <2>1 DEF Registered, console
  <2>3. QED
    BY <1>0, <2>1, <2>2, QuietTaskStep DEF TaskInv, FollowsATask, console
<1>2. CASE JobCall
  <2>1. UNCHANGED <<live, store, excused, recovery, taskID, pc>>
    BY <1>2 DEF JobCall, BeginCall, SendCall, EndCall, callFrame, handlerFrame, workVars,
       history, console
  <2>2. \A u \in Tasks : task[u] = "none" => task'[u] = "none"
    BY <1>0, <1>2, ConsoleSteps DEF JobCall, BeginCall, SendCall, EndCall, console
  <2>3. Registered' \subseteq Registered
    BY <2>2 DEF Registered
  <2>4. QED
    BY <1>0, <2>1, <2>3, QuietTaskStep DEF TaskInv, FollowsATask
<1>3. CASE Skip \/ Claim \/ Exit \/ Snapshot \/ Advance \/ ServeFails \/ FindsNone
           \/ InstallFails \/ PollStops \/ PollFindsFailure \/ PollUnanswered
           \/ VerifyFails \/ Announce
  <2>1. UNCHANGED <<console, store, excused, recovery, taskID>>
    BY <1>3 DEF Skip, Claim, Exit, Snapshot, Advance, Validate, Serve, RequestInstall,
       StartDownload, PollFindsComplete, ServeFails, FindsNone, InstallFails, PollStops,
       PollFindsFailure, PollUnanswered, VerifyFails, Announce, Fail, FailTask,
       stepFrame, workerFrame, workVars
  <2>2. /\ pc \in Served => pc' \in Served
        /\ pc' \in Following => pc \in Following
        /\ pc' = "untracking" => pc = "untracking"
    BY <1>3 DEF Skip, Claim, Exit, Snapshot, Advance, Validate, Serve, RequestInstall,
       StartDownload, PollFindsComplete, ServeFails, FindsNone, InstallFails, PollStops,
       PollFindsFailure, PollUnanswered, VerifyFails, Announce, Fail, FailTask,
       CanDequeue, Served, Following
  <2>3. Registered' = Registered
    BY <2>1 DEF Registered, console
  <2>4. QED
    BY <1>0, <2>1, <2>2, <2>3, QuietTaskStep DEF TaskInv, FollowsATask, console
<1>4. CASE AdoptTask \/ Verify \/ Unregister \/ UnregisterFails
  <2>1. /\ UNCHANGED <<live, store, recovery, taskID>> /\ excused \subseteq excused'
        /\ pc \in Served => pc' \in Served
        /\ pc' \in Following => pc \in Following
    BY <1>4 DEF AdoptTask, Verify, Unregister, UnregisterFails, stepFrame, workerFrame,
       workVars, console, Served, Following
  <2>2. \A u \in Tasks : task[u] = "none" => task'[u] = "none"
    BY <1>0, <1>4, ConsoleSteps DEF AdoptTask, Verify, Unregister, UnregisterFails,
       console
  <2>3. Registered' \subseteq Registered
    BY <2>2 DEF Registered
  <2>4. pc' = "untracking" => taskID \notin Registered' \ excused'
    <3>1. pc' = "untracking" => \/ taskID \in excused'
                                \/ task' = Unregistered(taskID)
      BY <1>4 DEF AdoptTask, Verify, Unregister, UnregisterFails
    <3>2. task' = Unregistered(taskID) => taskID \notin Registered'
      BY <1>0 DEF Registered, Unregistered, ConsoleTypeOK
    <3>3. QED
      BY <3>1, <3>2
  <2>5. QED
    BY <1>0, <2>1, <2>3, <2>4, QuietTaskStep DEF TaskInv, FollowsATask
<1>5. CASE FindTask
  <2>1. /\ UNCHANGED <<console, store, excused, recovery>>
        /\ pc = "requesting" /\ pc' = "adopting" /\ taskID' \in Tasks
    BY <1>5 DEF FindTask, stepFrame, workerFrame, Holding, Registered
  <2>2. Registered' = Registered
    BY <2>1 DEF Registered, console
  <2>3. QED
    BY <1>0, <2>1, <2>2, StatesAtValues DEF TaskInv, UrlsAreRevoked, OrphansAreTracked,
       FollowsATask, RemovalsAreSafe, Served, console
<1>6. ASSUME NEW t \in Tasks, Install(t) \/ InstallReplyLost(t) PROVE TaskInv'
  <2>1. /\ RegisterTask(t, Content, Known) /\ excused' = excused \cup {t}
        /\ UNCHANGED <<store, recovery>>
        /\ pc' \in {"registered", "finishing"}
        /\ taskID' \in Tasks \/ pc' \notin Following
    BY <1>6 DEF Install, InstallReplyLost, stepFrame, workerFrame, Following
  <2>2. QED
    BY <1>0, <2>1, RegisterStep DEF Served
<1>7. CASE Track
  <2>1. /\ UNCHANGED <<console, recovery, taskID>>
        /\ pc = "tracking" /\ pc' = "polling"
        /\ store \cup excused \subseteq store' \cup excused'
    BY <1>7 DEF Track, workerFrame, workVars
  <2>2. Registered' = Registered
    BY <2>1 DEF Registered, console
  <2>3. QED
    BY <1>0, <2>1, <2>2, StatesAtValues DEF TaskInv, UrlsAreRevoked, OrphansAreTracked,
       FollowsATask, RemovalsAreSafe, Served, Following, console
<1>8. CASE Untrack
  <2>1. /\ UNCHANGED <<console, excused, recovery, taskID>>
        /\ pc = "untracking" /\ pc' = "finishing"
        /\ store \ {taskID} \subseteq store'
    BY <1>8 DEF Untrack, workerFrame, workVars
  <2>2. Registered' = Registered
    BY <2>1 DEF Registered, console
  <2>3. OrphansAreTracked'
    BY <1>0, <2>1, <2>2 DEF TaskInv, OrphansAreTracked, RemovalsAreSafe
  <2>4. QED
    BY <1>0, <2>1, <2>2, <2>3, StatesAtValues DEF TaskInv, UrlsAreRevoked,
       FollowsATask, RemovalsAreSafe, Served, Following, console
<1>9. CASE Finish \/ Settle
  <2>1. /\ UNCHANGED <<task, store, recovery>>
        /\ \/ live' = {}
           \/ live' = live /\ pc \notin Served
        /\ pc' \notin Following /\ excused \cap Registered \subseteq excused'
    BY <1>9 DEF Finish, Settle, stepFrame, workerFrame, Served, Following, console
  <2>2. Registered' = Registered
    BY <2>1 DEF Registered
  <2>3. pc' # "untracking"
    BY <2>1 DEF Following
  <2>4. QED
    BY <1>0, <2>1, <2>2, <2>3, StatesAtValues DEF TaskInv, UrlsAreRevoked,
       OrphansAreTracked, FollowsATask, RemovalsAreSafe
<1>10. CASE ConsoleAlone
  <2>1. UNCHANGED <<live, store, excused, recovery, taskID, pc>>
    BY <1>10 DEF ConsoleAlone, ConsoleStep, ConsoleFinishes, ConsoleBreaks,
       ConsoleRetires, workVars, history
  <2>2. \A u \in Tasks : task[u] = "none" => task'[u] = "none"
    BY <1>0, <1>10 DEF ConsoleAlone, ConsoleStep, ConsoleFinishes, ConsoleBreaks,
       ConsoleRetires, Unregistered, ConsoleTypeOK
  <2>3. Registered' \subseteq Registered
    BY <2>2 DEF Registered
  <2>4. QED
    BY <1>0, <2>1, <2>3, QuietTaskStep DEF TaskInv, FollowsATask
<1>11. CASE Reconcile
  <2>1. UNCHANGED <<live, excused, taskID, pc>>
    BY <1>11 DEF Reconcile, ReconcileTask, ReconcileFails, ReconcileRemoves,
       recoveryFrame, workVars, history
  <2>2. \A u \in Tasks : task[u] = "none" => task'[u] = "none"
    BY <1>0, <1>11, ConsoleSteps DEF Reconcile, ReconcileTask, ReconcileFails,
       ReconcileRemoves
  <2>3. Registered' \subseteq Registered
    BY <2>2 DEF Registered
  <2>4. Registered \cap store \subseteq store'
    BY <1>0, <1>11 DEF Reconcile, ReconcileTask, ReconcileFails, ReconcileRemoves,
       TaskInv, RemovalsAreSafe
  <2>5. recovery'.current \notin Registered'
    <3>1. ASSUME NEW t \in Tasks, ReconcileTask(t)
          PROVE  recovery'.current = t /\ t \notin Registered'
      BY <1>0, <3>1 DEF ReconcileTask, Registered, Unregistered, ConsoleTypeOK
    <3>2. ASSUME NEW t \in Tasks, ReconcileFails(t)
          PROVE  recovery'.current = recovery.current
      BY <1>0, <3>2 DEF ReconcileFails, TypeOK
    <3>3. CASE ReconcileRemoves
      <4>1. recovery'.current = NoTask /\ NoTask \notin Tasks
        BY <1>0, <3>3, InstallerAssumption DEF ReconcileRemoves, TypeOK, NoTask, Tasks
      <4>2. QED
        BY <4>1 DEF Registered
    <3>4. QED
      BY <1>0, <1>11, <2>3, <3>1, <3>2, <3>3 DEF Reconcile, TaskInv, RemovalsAreSafe
  <2>6. QED
    BY <1>0, <2>1, <2>3, <2>4, <2>5, StatesAtValues DEF TaskInv, UrlsAreRevoked,
       OrphansAreTracked, FollowsATask, RemovalsAreSafe
<1>12. CASE Restart
  <2>1. /\ UNCHANGED <<task, store, excused>>
        /\ live' = {} /\ pc' = "idle" /\ recovery'.current = NoTask
    BY <1>12 DEF Restart
  <2>2. Registered' = Registered
    BY <2>1 DEF Registered
  <2>3. NoTask \notin Registered'
    BY InstallerAssumption DEF NoTask, Tasks, Registered
  <2>4. QED
    BY <1>0, <2>1, <2>2, <2>3 DEF TaskInv, UrlsAreRevoked, OrphansAreTracked,
       FollowsATask, RemovalsAreSafe, Following
<1>13. QED
  BY <1>1, <1>2, <1>3, <1>4, <1>5, <1>6, <1>7, <1>8, <1>9, <1>10, <1>11, <1>12,
     NextCases DEF Work

----------------------------------------------------------------------------
(* The jobs: what the handlers and the worker do to them.                   *)

\* What a failed job takes with it, one job at a time.
Takes(j, k, stop) ==
    \/ queueOf[j] \in stop
    \/ /\ PackageOf[j].kind = "game"
       /\ PackageOf[k].kind = "dependent" /\ PackageOf[k].title = PackageOf[j].title

Drags ==
    \A j, k \in JobIds :
        /\ state[j] = "FAILED" /\ ~(pc = "settle" /\ item = j)
        /\ queueOf[k] = queueOf[j] /\ state[k] = "WAITING"
        /\ Takes(j, k, stopOnError)
        => k \in retried

\* What a failure takes with it, job by job.
LEMMA DragsPointwise == FailureDragsItsQueue <=> Drags
BY DEF FailureDragsItsQueue, Drags, Takes, DependentsOf, WaitingIn

\* The same after a step.
LEMMA DragsPointwiseNext == FailureDragsItsQueue' <=> Drags'
BY DEF FailureDragsItsQueue, Drags, Takes, DependentsOf, WaitingIn

jobs == <<state, jobVars, retried>>

\* The jobs stay as they are, and so does the worker.
LEMMA FrameStep ==
    ASSUME QueueInv, UNCHANGED <<jobs, activeID, item, pc, err>>,
           CallsAreOfJobs'
    PROVE  QueueInv'
<1>1. /\ UNCHANGED <<state, queueOf, lastJob, lastQueue, stopOnError, retried>>
      /\ UNCHANGED <<activeID, item, pc, err>>
  BY DEF jobs, jobVars
<1>2. OneActiveJob' /\ WorkerHolds' /\ IdsAreFresh' /\ FailuresAreErrors'
  BY <1>1 DEF QueueInv, OneActiveJob, WorkerHolds, IdsAreFresh, FailuresAreErrors
<1>3. Drags'
  BY <1>1, DragsPointwise DEF QueueInv, Drags, Takes
<1>4. QED
  BY <1>2, <1>3, DragsPointwiseNext DEF QueueInv

\* The worker moves on inside process, and no job changes.
LEMMA MoveStep ==
    ASSUME TypeOK, QueueInv, UNCHANGED <<jobs, activeID, item, call>>,
           pc \in Served, pc' \in Served, StatesAt[pc] \subseteq StatesAt[pc']
    PROVE  QueueInv'
<1>1. /\ UNCHANGED <<state, queueOf, lastJob, lastQueue, stopOnError, retried>>
      /\ UNCHANGED <<activeID, item, call>>
      /\ pc # "settle" /\ pc' # "settle" /\ pc \in Held /\ pc' \in Held
  BY DEF jobs, jobVars, Served, Held, WorkerPoints
<1>2. OneActiveJob'
  BY <1>1, StatesAtValues DEF QueueInv, OneActiveJob
<1>3. WorkerHolds' /\ IdsAreFresh' /\ CallsAreOfJobs' /\ FailuresAreErrors'
  BY <1>1 DEF QueueInv, WorkerHolds, IdsAreFresh, CallsAreOfJobs, FailuresAreErrors
<1>4. Drags'
  BY <1>1, DragsPointwise DEF QueueInv, Drags, Takes
<1>5. QED
  BY <1>2, <1>3, <1>4, DragsPointwiseNext DEF QueueInv

\* The worker moves on outside of it, and no job changes: none is active.
LEMMA IdleStep ==
    ASSUME TypeOK, QueueInv, UNCHANGED <<jobs, call>>,
           pc \notin Served \cup {"settle"}, pc' \notin Served \cup {"settle"},
           WorkerHolds'
    PROVE  QueueInv'
<1>1. /\ UNCHANGED <<state, queueOf, lastJob, lastQueue, stopOnError, retried, call>>
      /\ pc # "settle" /\ pc' # "settle"
  BY DEF jobs, jobVars
<1>2. OneActiveJob'
  BY <1>1, StatesAtValues DEF QueueInv, OneActiveJob
<1>3. IdsAreFresh' /\ CallsAreOfJobs' /\ FailuresAreErrors'
  BY <1>1 DEF QueueInv, IdsAreFresh, CallsAreOfJobs, FailuresAreErrors
<1>4. Drags'
  BY <1>1, DragsPointwise DEF QueueInv, Drags, Takes
<1>5. QED
  BY <1>2, <1>3, <1>4, DragsPointwiseNext DEF QueueInv

\* The worker reports the job it is on, unless the user cleared it.
LEMMA ReportStep ==
    ASSUME TypeOK, QueueInv, UNCHANGED <<jobVars, activeID, item, call>>,
           retried \ {item} \subseteq retried',
           pc \in Served \cup {"snapped"}, pc' \in Served,
           NEW s \in StatesAt[pc'], state' = update(s)
    PROVE  QueueInv'
<1>1. /\ UNCHANGED <<queueOf, lastJob, lastQueue, stopOnError>>
      /\ pc # "settle" /\ pc' # "settle" /\ pc \in Held /\ pc' \in Held
      /\ item \in JobIds /\ activeID = item /\ item \in 1..lastJob
      /\ s \in Active
  BY ItemIsAJob, StatesAtValues DEF jobVars, Served, Held, WorkerPoints, QueueInv,
     WorkerHolds
<1>2. \A j \in JobIds :
        state'[j] = IF j = item /\ state[item] # "ABSENT" THEN s ELSE state[j]
  BY <1>1 DEF update, TypeOK
<1>3. \A j \in JobIds : j # item => state[j] \notin Active
  BY <1>1 DEF QueueInv, OneActiveJob
<1>4. OneActiveJob'
  BY <1>1, <1>2, <1>3, StatesAtValues DEF OneActiveJob
<1>5. WorkerHolds' /\ IdsAreFresh' /\ CallsAreOfJobs' /\ FailuresAreErrors'
  BY <1>1, <1>2 DEF QueueInv, WorkerHolds, IdsAreFresh, CallsAreOfJobs,
     FailuresAreErrors
<1>6. Drags'
  BY <1>1, <1>2, DragsPointwise DEF QueueInv, Drags, Takes, Active
<1>7. QED
  BY <1>4, <1>5, <1>6, DragsPointwiseNext DEF QueueInv

\* A submission overwrites no job, and its queue has no failure in it.
LEMMA EnqueueStep ==
    ASSUME TypeOK, QueueInv, NEW n \in 1..MaxJobs, NEW stop \in BOOLEAN,
           Enqueue(n, stop)
    PROVE  QueueInv'
<1> DEFINE new == lastJob + 1 .. lastJob + n
<1>1. /\ lastJob \in Nat /\ n \in Nat /\ lastQueue \in Nat
      /\ lastJob' = lastJob + n /\ lastQueue' = lastQueue + 1
      /\ UNCHANGED <<activeID, item, pc, err, call, retried>>
      /\ stopOnError \subseteq stopOnError'
      /\ stopOnError' \subseteq stopOnError \cup {lastQueue'}
      /\ \A j \in JobIds :
            /\ state'[j] = IF j \in new THEN "WAITING" ELSE state[j]
            /\ queueOf'[j] = IF j \in new THEN lastQueue' ELSE queueOf[j]
  BY PS4Assumption DEF Enqueue, handlerFrame, workVars, TypeOK
<1>2. \A j \in JobIds : /\ j \in Nat
                        /\ j \in new => j > lastJob /\ ~(j > lastJob')
                        /\ j > lastJob' => j > lastJob /\ j \notin new
  BY <1>1 DEF JobIds
<1>3. \A j \in JobIds : j \in new => state[j] = "ABSENT"
  BY <1>2 DEF QueueInv, IdsAreFresh
<1>4. \A j \in JobIds : queueOf[j] \in Nat /\ queueOf[j] <= lastQueue
                        /\ queueOf[j] # lastQueue'
  BY <1>1, PS4Assumption DEF QueueInv, IdsAreFresh, TypeOK
<1>5. pc \in Served => item \in JobIds /\ item \notin new
  BY <1>1, <1>2, ItemIsAJob DEF QueueInv, WorkerHolds, Served, Held, WorkerPoints
<1>6. OneActiveJob'
  BY <1>1, <1>5, StatesAtValues DEF QueueInv, OneActiveJob, Active
<1>7. WorkerHolds' /\ CallsAreOfJobs'
  BY <1>1 DEF QueueInv, WorkerHolds, CallsAreOfJobs
<1>8. IdsAreFresh'
  BY <1>1, <1>2, <1>4 DEF QueueInv, IdsAreFresh
<1>9. FailuresAreErrors'
  <2>1. pc = "settle" => item \in JobIds
    BY ItemIsAJob DEF QueueInv, Held, WorkerPoints
  <2>2. QED
    BY <1>1, <2>1 DEF QueueInv, FailuresAreErrors
<1>10. Drags'
  <2> SUFFICES ASSUME NEW j \in JobIds, NEW k \in JobIds,
                      state'[j] = "FAILED", ~(pc = "settle" /\ item = j),
                      queueOf'[k] = queueOf'[j], state'[k] = "WAITING",
                      Takes(j, k, stopOnError)'
               PROVE  k \in retried
    BY <1>1 DEF Drags
  <2>1. j \notin new /\ k \notin new
    BY <1>1, <1>4
  <2>2. Takes(j, k, stopOnError)
    BY <1>1, <1>4, <2>1 DEF Takes
  <2>3. QED
    BY <1>1, <2>1, <2>2, DragsPointwise DEF QueueInv, Drags
<1>11. QED
  BY <1>6, <1>7, <1>8, <1>9, <1>10, DragsPointwiseNext DEF QueueInv

\* A job that is not active is cancelled, retried or cleared.
LEMMA UserStep ==
    ASSUME TypeOK, QueueInv, UNCHANGED <<activeID, item, pc, err, call, jobVars>>,
           NEW to \in {"CANCELLED", "WAITING", "ABSENT"}, NEW S \in SUBSET JobIds,
           \A j \in JobIds : state'[j] = IF j \in S THEN to ELSE state[j],
           \A j \in S : state[j] \notin Active \cup {"ABSENT"},
           to = "WAITING" => retried \cup S \subseteq retried',
           retried \ S \subseteq retried'
    PROVE  QueueInv'
<1>1. UNCHANGED <<activeID, item, pc, err, call, queueOf, lastJob, lastQueue,
                  stopOnError>>
  BY DEF jobVars
<1>2. pc \in Held => item \in JobIds
  BY ItemIsAJob DEF QueueInv
<1>3. OneActiveJob'
  BY <1>1, <1>2, StatesAtValues DEF QueueInv, OneActiveJob, Active, Served, Held,
     WorkerPoints
<1>4. WorkerHolds' /\ IdsAreFresh' /\ CallsAreOfJobs'
  BY <1>1 DEF QueueInv, WorkerHolds, IdsAreFresh, CallsAreOfJobs
<1>5. FailuresAreErrors'
  BY <1>1, <1>2 DEF QueueInv, FailuresAreErrors, Held, WorkerPoints
<1>6. Drags'
  BY <1>1, DragsPointwise DEF QueueInv, Drags, Takes
<1>7. QED
  BY <1>3, <1>4, <1>5, <1>6, DragsPointwiseNext DEF QueueInv

\* PauseJob and ResumeJob write only what the worker left as it was.
LEMMA EndCallStep ==
    ASSUME TypeOK, QueueInv, EndCall
    PROVE  QueueInv'
<1> DEFINE from == From(call.pause)
           to   == To(call.pause)
           k    == call.job
<1>1. /\ UNCHANGED <<queueOf, lastJob, lastQueue, stopOnError, retried, activeID, item,
                     pc, err>>
      /\ call' = NoCall
      /\ from \in {"DOWNLOADING", "PAUSED"} /\ to \in {"DOWNLOADING", "PAUSED"}
  BY DEF EndCall, callFrame, handlerFrame, workVars, jobVars, From, To
<1>2. \A j \in JobIds :
        state'[j] = IF j = k /\ state[j] = from THEN to ELSE state[j]
  BY DEF EndCall, TypeOK
<1>3. \A j \in JobIds : \/ state'[j] = state[j]
                        \/ /\ state[j] \in {"DOWNLOADING", "PAUSED"}
                           /\ state'[j] \in {"DOWNLOADING", "PAUSED"}
  BY <1>1, <1>2
<1>4. pc \in Held => item \in JobIds
  BY ItemIsAJob DEF QueueInv
<1>5. OneActiveJob'
  <2>1. \A j \in JobIds : state'[j] \in Active <=> state[j] \in Active
    BY <1>3 DEF Active
  <2>2. ASSUME pc \in Served PROVE state'[item] \in StatesAt[pc] \cup {"ABSENT"}
    <3>1. item \in JobIds /\ state[item] \in StatesAt[pc] \cup {"ABSENT"}
      BY <1>4, <2>2, StatesAtValues DEF QueueInv, OneActiveJob, Served, Held,
         WorkerPoints
    <3>2. CASE state'[item] = state[item]
      BY <3>1, <3>2
    <3>3. CASE /\ state[item] \in {"DOWNLOADING", "PAUSED"}
               /\ state'[item] \in {"DOWNLOADING", "PAUSED"}
      BY <2>2, <3>1, <3>3, StatesAtValues DEF Served, Active
    <3>4. QED
      BY <1>3, <3>1, <3>2, <3>3
  <2>3. QED
    BY <1>1, <2>1, <2>2, StatesAtValues DEF QueueInv, OneActiveJob
<1>6. WorkerHolds' /\ IdsAreFresh' /\ CallsAreOfJobs'
  BY <1>1, <1>3 DEF QueueInv, WorkerHolds, IdsAreFresh, CallsAreOfJobs
<1>7. FailuresAreErrors'
  BY <1>1, <1>3, <1>4 DEF QueueInv, FailuresAreErrors, Held, WorkerPoints
<1>8. Drags'
  BY <1>1, <1>3, DragsPointwise DEF QueueInv, Drags, Takes
<1>9. QED
  BY <1>5, <1>6, <1>7, <1>8, DragsPointwiseNext DEF QueueInv

\* The outcome of the job; what its failure takes with it is still to come.
LEMMA FinishStep ==
    ASSUME TypeOK, QueueInv, Finish
    PROVE  QueueInv'
<1> DEFINE s == Outcome(err)
<1>1. /\ UNCHANGED <<queueOf, lastJob, lastQueue, stopOnError, retried, activeID, item,
                     err, call>>
      /\ pc = "finishing" /\ pc' = "settle" /\ pc \in Held
  BY DEF Finish, stepFrame, workerFrame, jobVars, Held, WorkerPoints
<1>2. item \in JobIds /\ activeID = item
  BY <1>1, ItemIsAJob DEF QueueInv, WorkerHolds
<1>3. s \in {"COMPLETED", "CANCELLED", "FAILED"} /\ (s = "FAILED" => err = "error")
  BY DEF Outcome, TypeOK
<1>4. \A j \in JobIds :
        state'[j] = IF j = item /\ state[item] # "ABSENT" THEN s ELSE state[j]
  BY <1>2 DEF Finish, update, TypeOK
<1>5. \A j \in JobIds : j # item => state[j] \notin Active
  BY <1>2 DEF QueueInv, OneActiveJob
<1>6. state[item] \in Active \cup {"ABSENT"}
  BY <1>1, StatesAtValues DEF QueueInv, OneActiveJob, Served
<1>7. OneActiveJob'
  <2>1. \A j \in JobIds : state'[j] \notin Active
    BY <1>3, <1>4, <1>5 DEF Active
  <2>2. pc' \notin Served
    BY <1>1 DEF Served
  <2>3. QED
    BY <2>1, <2>2, StatesAtValues DEF OneActiveJob
<1>8. WorkerHolds' /\ IdsAreFresh' /\ CallsAreOfJobs'
  BY <1>1, <1>2, <1>4 DEF QueueInv, WorkerHolds, IdsAreFresh, CallsAreOfJobs, Held,
     WorkerPoints
<1>9. FailuresAreErrors'
  BY <1>1, <1>2, <1>3, <1>4, <1>6 DEF FailuresAreErrors, Active
<1>10. Drags'
  BY <1>1, <1>3, <1>4, DragsPointwise DEF QueueInv, Drags, Takes
<1>11. QED
  BY <1>7, <1>8, <1>9, <1>10, DragsPointwiseNext DEF QueueInv

\* The failure takes what it takes, and the worker lets go of the job.
LEMMA SettleStep ==
    ASSUME TypeOK, QueueInv, Settle
    PROVE  QueueInv'
<1>1. /\ UNCHANGED <<queueOf, lastJob, lastQueue, stopOnError, call>>
      /\ pc = "settle" /\ pc' \in {"announce", "idle"} /\ activeID' = NoId
      /\ retried' = retried \ Dragged
      /\ \A j \in JobIds :
            state'[j] = IF j \in Dragged THEN "CANCELLED" ELSE state[j]
  BY DEF Settle, workerFrame, jobVars
<1>2. item \in JobIds
  BY <1>1, ItemIsAJob DEF QueueInv, Held, WorkerPoints
<1>3. /\ Dragged \subseteq {j \in JobIds : state[j] = "WAITING"}
      /\ err = "error" => \A k \in JobIds :
            /\ queueOf[k] = queueOf[item] /\ state[k] = "WAITING"
            /\ Takes(item, k, stopOnError)
            => k \in Dragged
  BY DEF Dragged, WaitingIn, DependentsOf, Takes, TypeOK
<1>4. \A j \in JobIds : state[j] \notin Active
  BY <1>1, StatesAtValues DEF QueueInv, OneActiveJob, Served
<1>5. OneActiveJob'
  <2>1. \A j \in JobIds : state'[j] \notin Active
    BY <1>1, <1>4 DEF Active
  <2>2. pc' \notin Served
    BY <1>1 DEF Served
  <2>3. QED
    BY <2>1, <2>2, StatesAtValues DEF OneActiveJob
<1>6. WorkerHolds' /\ IdsAreFresh' /\ CallsAreOfJobs' /\ FailuresAreErrors'
  BY <1>1, <1>3 DEF QueueInv, WorkerHolds, IdsAreFresh, CallsAreOfJobs,
     FailuresAreErrors, Held
<1>7. Drags'
  <2> SUFFICES ASSUME NEW j \in JobIds, NEW k \in JobIds,
                      state'[j] = "FAILED",
                      queueOf[k] = queueOf[j], state'[k] = "WAITING",
                      Takes(j, k, stopOnError)
               PROVE  k \in retried'
    BY <1>1 DEF Drags, Takes
  <2>1. j \notin Dragged /\ state[j] = "FAILED" /\ k \notin Dragged
        /\ state[k] = "WAITING"
    BY <1>1
  <2>2. CASE j = item
    <3>1. err = "error"
      BY <1>1, <2>1, <2>2 DEF QueueInv, FailuresAreErrors
    <3>2. QED
      BY <1>3, <2>1, <2>2, <3>1
  <2>3. CASE j # item
    BY <1>1, <2>1, <2>3, DragsPointwise DEF QueueInv, Drags
  <2>4. QED
    BY <2>2, <2>3
<1>8. QED
  BY <1>5, <1>6, <1>7, DragsPointwiseNext DEF QueueInv

\* A new process knows no job.
LEMMA RestartStep ==
    ASSUME TypeOK, QueueInv, Restart
    PROVE  QueueInv'
<1>1. /\ \A j \in JobIds : state'[j] = "ABSENT" /\ queueOf'[j] = NoId
      /\ pc' = "idle" /\ activeID' = NoId /\ call' = NoCall
      /\ lastQueue' = 0
  BY DEF Restart
<1>2. OneActiveJob'
  BY <1>1, StatesAtValues DEF OneActiveJob, Served, Active
<1>3. WorkerHolds' /\ IdsAreFresh' /\ CallsAreOfJobs' /\ FailuresAreErrors' /\ Drags'
  BY <1>1 DEF WorkerHolds, IdsAreFresh, CallsAreOfJobs, FailuresAreErrors, Drags, Held,
     NoId
<1>4. QED
  BY <1>2, <1>3, DragsPointwiseNext DEF QueueInv

\* A step of the worker that does not move process on keeps what is said of the jobs.
LEMMA WorkQueueStep ==
    ASSUME TypeOK, QueueInv, Work
    PROVE  QueueInv'
<1>1. UNCHANGED <<jobs, call>>
  BY DEF Work, Exit, Snapshot, ServeFails, FindTask, FindsNone, AdoptTask, Install,
     InstallFails, InstallReplyLost, Track, PollStops, PollFindsFailure, PollUnanswered,
     Verify, VerifyFails, Unregister, UnregisterFails, Untrack, Announce, Fail, FailTask,
     stepFrame, workerFrame, jobs
<1>2. CASE Exit \/ Snapshot \/ Announce
  <2>1. \/ pc = "idle" /\ pc' = "done" /\ UNCHANGED <<activeID, item>>
        \/ pc = "claimed" /\ pc' = "snapped" /\ UNCHANGED <<activeID, item, lastJob>>
        \/ pc = "announce" /\ pc' = "idle" /\ UNCHANGED activeID
    BY <1>2 DEF Exit, Snapshot, Announce, stepFrame, workerFrame, workVars, jobVars
  <2>2. WorkerHolds'
    BY <2>1 DEF QueueInv, WorkerHolds, Held, WorkerPoints
  <2>3. QED
    BY <1>1, <2>1, <2>2, IdleStep DEF Served
<1>3. CASE ~(Exit \/ Snapshot \/ Announce)
  <2>1. UNCHANGED <<activeID, item>>
    BY <1>3 DEF Work, ServeFails, FindTask, FindsNone, AdoptTask, Install, InstallFails,
       InstallReplyLost, Track, PollStops, PollFindsFailure, PollUnanswered, Verify,
       VerifyFails, Unregister, UnregisterFails, Untrack, Fail, FailTask, stepFrame,
       workVars
  <2>2. \/ pc = "validating" /\ pc' = "finishing"
        \/ pc = "requesting" /\ pc' \in {"adopting", "installing"}
        \/ pc = "adopting" /\ pc' = "registered"
        \/ pc = "installing" /\ pc' \in {"registered", "finishing"}
        \/ pc = "tracking" /\ pc' = "polling"
        \/ pc \in {"polling", "verifying"} /\ pc' \in {"cleanup", "untracking"}
        \/ pc = "cleanup" /\ pc' \in {"untracking", "finishing"}
        \/ pc = "untracking" /\ pc' = "finishing"
    BY <1>3 DEF Work, ServeFails, FindTask, FindsNone, AdoptTask, Install, InstallFails,
       InstallReplyLost, Track, PollStops, PollFindsFailure, PollUnanswered, Verify,
       VerifyFails, Unregister, UnregisterFails, Untrack, Fail, FailTask
  <2>3. pc \in Served /\ pc' \in Served /\ StatesAt[pc] \subseteq StatesAt[pc']
    BY <2>2, StatesAtValues DEF Served
  <2>4. QED
    BY <1>1, <2>1, <2>3, MoveStep
<1>4. QED
  BY <1>2, <1>3

\* So does one that does, with the state it gives the job.
LEMMA AdvanceQueueStep ==
    ASSUME TypeOK, QueueInv, Advance
    PROVE  QueueInv'
<1>1. /\ UNCHANGED <<jobVars, activeID, item, call>>
      /\ retried \ {item} \subseteq retried'
  BY DEF Advance, Validate, Serve, RequestInstall, StartDownload, PollFindsComplete,
     stepFrame, workerFrame
<1>2. \/ pc = "snapped" /\ pc' = "validating" /\ state' = update("VALIDATING")
      \/ pc = "validating" /\ pc' = "serving" /\ state' = update("SERVING")
      \/ /\ pc = "serving" /\ pc' \in {"requesting", "installing"}
         /\ state' = update("REQUESTING_INSTALL")
      \/ pc = "registered" /\ pc' = "tracking" /\ state' = update("DOWNLOADING")
      \/ pc = "polling" /\ pc' = "verifying" /\ state' = update("VERIFYING")
  BY DEF Advance, Validate, Serve, RequestInstall, StartDownload, PollFindsComplete
<1>3. PICK s : s \in StatesAt[pc'] /\ state' = update(s)
  BY <1>2, StatesAtValues
<1>4. pc \in Served \cup {"snapped"} /\ pc' \in Served
  BY <1>2 DEF Served
<1>5. QED
  BY <1>1, <1>3, <1>4, ReportStep

\* Every step keeps what is said of the jobs.
LEMMA QueueInvStep ==
    ASSUME IInv, [Next]_vars
    PROVE  QueueInv'
<1>0. TypeOK /\ QueueInv
  BY DEF IInv
<1>1. ASSUME NEW n \in 1..MaxJobs, NEW stop \in BOOLEAN, Enqueue(n, stop)
      PROVE  QueueInv'
  BY <1>0, <1>1, EnqueueStep
<1>2. ASSUME NEW j \in JobIds, Cancel(j) PROVE QueueInv'
  <2>1. UNCHANGED <<activeID, item, pc, err, call, jobVars>>
    BY <1>2 DEF Cancel, handlerFrame, workVars
  <2>2. CASE UNCHANGED <<state, retried>>
    BY <1>0, <2>1, <2>2, FrameStep DEF jobs, QueueInv, CallsAreOfJobs
  <2>3. CASE /\ state[j] = "WAITING" /\ state' = [state EXCEPT ![j] = "CANCELLED"]
             /\ retried' = retried \ {j}
    <3>1. \A k \in JobIds : state'[k] = IF k \in {j} THEN "CANCELLED" ELSE state[k]
      BY <1>0, <2>3 DEF TypeOK
    <3>2. state[j] \notin Active \cup {"ABSENT"}
      BY <2>3 DEF Active
    <3>3. QED
      BY <1>0, <2>1, <2>3, <3>1, <3>2, UserStep
  <2>4. QED
    BY <1>2, <2>2, <2>3 DEF Cancel
<1>3. ASSUME NEW j \in JobIds, Retry(j) PROVE QueueInv'
  <2>1. UNCHANGED <<activeID, item, pc, err, call, jobVars>>
        /\ retried' = retried \cup {j}
    BY <1>3 DEF Retry, handlerFrame, workVars
  <2>2. \A k \in JobIds : state'[k] = IF k \in {j} THEN "WAITING" ELSE state[k]
    BY <1>0, <1>3 DEF Retry, TypeOK
  <2>3. state[j] \notin Active \cup {"ABSENT"}
    BY <1>3 DEF Retry, Active
  <2>4. QED
    BY <1>0, <2>1, <2>2, <2>3, UserStep
<1>4. CASE ClearCompleted
  <2> DEFINE S == {j \in JobIds : state[j] \in {"COMPLETED", "CANCELLED"}}
  <2>1. UNCHANGED <<activeID, item, pc, err, call, jobVars, retried>>
    BY <1>4 DEF ClearCompleted, handlerFrame, workVars
  <2>2. \A k \in JobIds : state'[k] = IF k \in S THEN "ABSENT" ELSE state[k]
    BY <1>4 DEF ClearCompleted
  <2>3. \A k \in S : state[k] \notin Active \cup {"ABSENT"}
    BY DEF Active
  <2>4. QED
    BY <1>0, <2>1, <2>2, <2>3, UserStep
<1>5. CASE \/ (\E value \in BOOLEAN : SetPaused(value)) \/ Close \/ Skip \/ ConsoleAlone
           \/ Reconcile \/ UNCHANGED vars
  <2>1. UNCHANGED <<jobs, activeID, item, pc, err, call>>
    BY <1>5 DEF SetPaused, Close, Skip, ConsoleAlone, Reconcile, ReconcileTask,
       ReconcileFails, ReconcileRemoves, recoveryFrame, workerFrame, handlerFrame,
       workVars, vars, jobs
  <2>2. QED
    BY <1>0, <2>1, FrameStep DEF QueueInv, CallsAreOfJobs
<1>6. CASE JobCall
  <2>1. CASE EndCall
    BY <1>0, <2>1, EndCallStep
  <2>2. ASSUME \/ \E j \in PausableJobs, pause \in BOOLEAN : BeginCall(j, pause)
               \/ \E answered \in BOOLEAN : SendCall(answered)
        PROVE  QueueInv'
    <3>1. UNCHANGED <<jobs, activeID, item, pc, err>>
      BY <2>2 DEF BeginCall, SendCall, callFrame, handlerFrame, workVars, jobs
    <3>2. call' = NoCall \/ call'.job \in JobIds
      <4>1. ASSUME NEW j \in PausableJobs, NEW pause \in BOOLEAN, BeginCall(j, pause)
            PROVE  call'.job \in JobIds
        BY <4>1, PS4Assumption DEF BeginCall
      <4>2. ASSUME NEW answered \in BOOLEAN, SendCall(answered)
            PROVE  call' = NoCall \/ call'.job \in JobIds
        BY <1>0, <4>2 DEF SendCall, QueueInv, CallsAreOfJobs, TypeOK, Calls
      <4>3. QED
        BY <2>2, <4>1, <4>2
    <3>3. QED
      BY <1>0, <3>1, <3>2, FrameStep DEF CallsAreOfJobs
  <2>3. QED
    BY <1>6, <2>1, <2>2 DEF JobCall
<1>7. CASE Claim
  <2>1. /\ UNCHANGED <<jobs, lastJob, call>> /\ pc = "idle" /\ pc' = "claimed"
        /\ item' = Head(pending) /\ activeID' = item' /\ item' \in JobIds
        /\ state[item'] = "WAITING"
    BY <1>0, <1>7, HeadTailProperties DEF Claim, CanDequeue, workerFrame, jobs, jobVars,
       TypeOK
  <2>2. item' \in 1..lastJob
    <3>1. lastJob \in Nat /\ item' \in Nat /\ 1 <= item'
      BY <1>0, <2>1, PS4Assumption DEF TypeOK, JobIds
    <3>2. ~(item' > lastJob)
      BY <1>0, <2>1 DEF QueueInv, IdsAreFresh
    <3>3. QED
      BY <3>1, <3>2
  <2>3. WorkerHolds'
    BY <2>1, <2>2 DEF WorkerHolds, Held, WorkerPoints
  <2>4. QED
    BY <1>0, <2>1, <2>3, IdleStep DEF Served
<1>8. CASE Work
  BY <1>0, <1>8, WorkQueueStep
<1>9. CASE Advance
  BY <1>0, <1>9, AdvanceQueueStep
<1>10. CASE Finish \/ Settle
  BY <1>0, <1>10, FinishStep, SettleStep
<1>11. CASE Restart
  BY <1>0, <1>11, RestartStep
<1>12. QED
  BY <1>1, <1>2, <1>3, <1>4, <1>5, <1>6, <1>7, <1>8, <1>9, <1>10, <1>11, NextCases

----------------------------------------------------------------------------
(* The theorems.                                                            *)

\* A process begins within the invariant.
LEMMA InitInv == Init => IInv
<1> SUFFICES ASSUME Init PROVE IInv
  OBVIOUS
<1>1. TypeOK
  BY InitTypeOK
<1>2. QueueInv
  <2>1. OneActiveJob
    BY StatesAtValues DEF Init, OneActiveJob, Served, Active
  <2>2. WorkerHolds /\ IdsAreFresh /\ CallsAreOfJobs /\ FailuresAreErrors /\ Drags
    BY DEF Init, WorkerHolds, IdsAreFresh, CallsAreOfJobs, FailuresAreErrors, Drags,
       Held, NoId
  <2>3. QED
    BY <2>1, <2>2, DragsPointwise DEF QueueInv
<1>3. TaskInv
  <2>1. Registered = {} /\ live = {} /\ recovery.current = NoTask
    BY DEF Init, ConsoleInit, Registered, Recovered
  <2>2. QED
    BY <2>1 DEF Init, TaskInv, UrlsAreRevoked, OrphansAreTracked, FollowsATask,
       RemovalsAreSafe, Following
<1>4. QED
  BY <1>1, <1>2, <1>3 DEF IInv

\* Every step keeps the invariant.
LEMMA IInvStep == IInv /\ [Next]_vars => IInv'
<1> SUFFICES ASSUME IInv, [Next]_vars PROVE IInv'
  OBVIOUS
<1>1. TypeOK'
  BY QueueTypesStep, WorkerTypesStep, TaskTypesStep, TypesSplitNext
     DEF IInv, QueueInv, TaskInv
<1>2. QueueInv' /\ TaskInv'
  BY QueueInvStep, TaskInvStep
<1>3. QED
  BY <1>1, <1>2 DEF IInv

\* IInv holds in every reachable state.
THEOREM Invariance == Spec => []IInv
BY InitInv, IInvStep, PTL DEF Spec

\* The queue, its worker, the task file and the console keep their types in every
\* behavior.
THEOREM TypeCorrect == Spec => []TypeOK
<1>1. IInv => TypeOK
  BY DEF IInv
<1>2. QED
  BY <1>1, Invariance, PTL

\* One package group at a time, in a state that fits where the worker is, for any
\* number of jobs, queues and calls of PauseJob and ResumeJob.
THEOREM OneGroupAtATime == Spec => []OneActiveJob
<1>1. IInv => OneActiveJob
  BY DEF IInv, QueueInv
<1>2. QED
  BY <1>1, Invariance, PTL

\* A package URL answers only while process has its job.
THEOREM UrlsEndWithTheJob == Spec => []UrlsAreRevoked
<1>1. IInv => UrlsAreRevoked
  BY DEF IInv, TaskInv
<1>2. QED
  BY <1>1, Invariance, PTL

\* However often the manager restarts and whatever requests are lost, a task on the
\* console is in the file unless it never got there or was installed.
THEOREM TasksAreNotLost == Spec => []OrphansAreTracked
<1>1. IInv => OrphansAreTracked
  BY DEF IInv, TaskInv
<1>2. QED
  BY <1>1, Invariance, PTL

\* What a settled failure took with it stays stopped unless a user retried it.
THEOREM FailuresDrag == Spec => []FailureDragsItsQueue
<1>1. IInv => FailureDragsItsQueue
  BY DEF IInv, QueueInv
<1>2. QED
  BY <1>1, Invariance, PTL

\* A cancelled, completed or cleared job starts only in the window of its claim.
THEOREM CancelIsKept == Spec => CancelledStartsOnlyIfClaimed
<1> DEFINE A == \A j \in JobIds :
                  state[j] \in {"CANCELLED", "COMPLETED", "ABSENT"} =>
                      /\ activeID' = j => activeID = j
                      /\ state'[j] \in Active => pc = "snapped" /\ item = j
<1>1. IInv /\ [Next]_vars => [A]_vars
  <2> SUFFICES ASSUME IInv, [Next]_vars, NEW j \in JobIds,
                      state[j] \in {"CANCELLED", "COMPLETED", "ABSENT"}
               PROVE  /\ activeID' = j => activeID = j
                      /\ state'[j] \in Active => pc = "snapped" /\ item = j
    OBVIOUS
  <2>0. TypeOK /\ QueueInv /\ state[j] \notin Active
    BY DEF IInv, Active
  <2>1. activeID' = j => activeID = j
    <3>1. \/ activeID' = activeID \/ activeID' = NoId
          \/ activeID' = Head(pending) /\ state[Head(pending)] = "WAITING"
      BY NextCases DEF vars, Enqueue, Cancel, Retry, SetPaused, ClearCompleted, Close,
         JobCall, BeginCall, SendCall, EndCall, callFrame, handlerFrame, Skip, Claim,
         Work, Exit, Snapshot, ServeFails, FindTask, FindsNone, AdoptTask, Install,
         InstallFails, InstallReplyLost, Track, PollStops, PollFindsFailure,
         PollUnanswered, Verify, VerifyFails, Unregister, UnregisterFails, Untrack,
         Announce, Fail, FailTask, Advance, Validate, Serve, RequestInstall,
         StartDownload, PollFindsComplete, stepFrame, Finish, Settle, ConsoleAlone,
         Restart, Reconcile, ReconcileTask, ReconcileFails, ReconcileRemoves,
         recoveryFrame
    <3>2. NoId \notin JobIds
      BY PS4Assumption DEF NoId, JobIds
    <3>3. QED
      BY <3>1, <3>2
  <2>2. ASSUME state'[j] \in Active PROVE pc = "snapped" /\ item = j
    <3>1. CASE Validate
      BY <2>0, <2>2, <3>1 DEF Validate, update, TypeOK
    <3>2. CASE Serve \/ RequestInstall \/ StartDownload \/ PollFindsComplete \/ Finish
      <4>1. state[item] \in Active \cup {"ABSENT"} /\ item \in JobIds
        BY <2>0, <3>2, StatesAtValues, ItemIsAJob DEF Serve, RequestInstall,
           StartDownload, PollFindsComplete, Finish, QueueInv, OneActiveJob, Served,
           Held, WorkerPoints
      <4>2. PICK s : state' = update(s)
        BY <3>2 DEF Serve, RequestInstall, StartDownload, PollFindsComplete, Finish
      <4>3. j = item => state'[j] = state[j]
        BY <2>0, <4>1, <4>2 DEF update, TypeOK
      <4>4. j # item => state'[j] = state[j]
        BY <2>0, <4>1, <4>2 DEF update, TypeOK
      <4>5. QED
        BY <2>0, <2>2, <4>3, <4>4
    <3>3. CASE EndCall
      BY <2>0, <2>2, <3>3 DEF EndCall, From, To, Active, TypeOK
    <3>4. CASE UNCHANGED state
      BY <2>0, <2>2, <3>4
    <3>5. CASE \/ \E n \in 1..MaxJobs, stop \in BOOLEAN : Enqueue(n, stop)
               \/ (\E k \in JobIds : Cancel(k) \/ Retry(k)) \/ ClearCompleted \/ Settle
               \/ Restart
      BY <2>0, <2>2, <3>5 DEF Enqueue, Cancel, Retry, ClearCompleted, Settle, Restart,
         Active, TypeOK
    <3>6. QED
      BY <3>1, <3>2, <3>3, <3>4, <3>5, NextCases DEF vars, SetPaused, Close, JobCall,
         BeginCall, SendCall, Skip, Claim, Work, Exit, Snapshot, ServeFails, FindTask,
         FindsNone, AdoptTask, Install, InstallFails, InstallReplyLost, Track, PollStops,
         PollFindsFailure, PollUnanswered, Verify, VerifyFails, Unregister,
         UnregisterFails, Untrack, Announce, Fail, FailTask, Advance, ConsoleAlone,
         Reconcile, ReconcileTask, ReconcileFails, ReconcileRemoves, recoveryFrame
  <2>3. QED
    BY <2>1, <2>2
<1>2. QED
  BY <1>1, Invariance, PTL DEF Spec, CancelledStartsOnlyIfClaimed
=============================================================================
