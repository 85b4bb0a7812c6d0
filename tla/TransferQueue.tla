---------------------------- MODULE TransferQueue ----------------------------
(***************************************************************************)
(* The sequential transfer queue of internal/transfers (transfers.Manager).*)
(* One worker goroutine (run) takes the jobs of a FIFO one at a time and   *)
(* uploads or downloads them over FTP, while any number of HTTP handlers   *)
(* call Enqueue, Cancel, Retry, Pause, Resume, ClearCompleted and Close.   *)
(* The same Manager drives the PS3 and PS5 uploads and every pull queue.   *)
(*                                                                         *)
(* One action is one critical section of Manager.mu; between two critical  *)
(* sections of the worker the handlers interleave freely.  Ids handed out  *)
(* by Manager.id are counted from 1; byte counts, speeds and times are     *)
(* left out.                                                               *)
(***************************************************************************)
EXTENDS Naturals, Sequences

CONSTANTS
    MaxJobs,     \* bound: jobs ever created
    MaxQueues,   \* bound: calls of Enqueue
    MaxPending   \* bound: a Retry is offered while pending is shorter than this

ASSUME BoundsAssumption ==
    /\ MaxJobs \in Nat
    /\ MaxQueues \in Nat
    /\ MaxPending \in Nat

JobIds   == 1..MaxJobs
QueueIds == 1..MaxQueues
NoId     == 0             \* the empty activeID

\* domain.QueueState; ABSENT is an id with no entry in Manager.items.
InFlight == {"STARTING", "TRANSFERRING", "VERIFYING"}
Unfinished == {"WAITING"} \cup InFlight
States   == Unfinished \cup {"ABSENT", "COMPLETED", "FAILED", "CANCELLED"}

VARIABLES
    state,        \* items[id].State
    queueOf,      \* items[id].QueueID
    lastJob,      \* job ids handed out by Manager.id
    lastQueue,    \* queue ids handed out by Manager.id
    stopOnError,  \* the set of queue ids submitted with StopOnError
    pending,      \* the FIFO of job ids; may hold stale and repeated ids
    paused,
    closed,
    activeID,     \* the job the handlers may cancel; NoId between jobs
    stopped,      \* the context of the active job is cancelled
    pc,           \* where the worker goroutine is between critical sections
    item,         \* the worker's local item
    outcome,      \* history: how the transfer of item ended
    retried       \* history: the waiting jobs that a Retry put back

handlerVars == <<lastJob, lastQueue, stopOnError, queueOf>>
vars == <<state, queueOf, lastJob, lastQueue, stopOnError, pending, paused,
          closed, activeID, stopped, pc, item, outcome, retried>>

WorkerPoints ==
    {"idle",         \* in the wait loop of run
     "started",      \* claimed a job, publishing queue.item_started
     "transferring", \* inside UploadGame or DownloadGame
     "verifying",    \* between the two updates that end a success
     "settle",       \* process returned, run has not locked again
     "announce",     \* run unlocked, about to publish queue.completed
     "done"}         \* run returned, channel done closed

Init ==
    /\ state = [j \in JobIds |-> "ABSENT"]
    /\ queueOf = [j \in JobIds |-> NoId]
    /\ lastJob = 0
    /\ lastQueue = 0
    /\ stopOnError = {}
    /\ pending = <<>>
    /\ paused = FALSE
    /\ closed = FALSE
    /\ activeID = NoId
    /\ stopped = FALSE
    /\ pc = "idle"
    /\ item = NoId
    /\ outcome = "none"
    /\ retried = {}

----------------------------------------------------------------------------
(* The handlers.                                                            *)

\* Mutant: ids counted from the last one handed out.
NewJobs_OffByOne(n) == [i \in 1..n |-> lastJob + i - 1]

NewJobs(n) == [i \in 1..n |-> lastJob + i]

Enqueue(n, stop) ==
    /\ ~closed
    /\ lastQueue < MaxQueues
    /\ lastJob + n <= MaxJobs
    /\ lastQueue' = lastQueue + 1
    /\ lastJob' = lastJob + n
    /\ stopOnError' = IF stop THEN stopOnError \cup {lastQueue + 1}
                              ELSE stopOnError
    /\ state' = [j \in JobIds |-> IF j \in lastJob + 1 .. lastJob + n
                                  THEN "WAITING" ELSE state[j]]
    /\ queueOf' = [j \in JobIds |-> IF j \in lastJob + 1 .. lastJob + n
                                    THEN lastQueue + 1 ELSE queueOf[j]]
    /\ pending' = pending \o NewJobs(n)
    /\ UNCHANGED <<paused, closed, activeID, stopped, pc, item, outcome,
                   retried>>

\* Mutant: the state of an active job is written at once.
Cancel_OnTheSpot(j) ==
    /\ state[j] \in Unfinished
    /\ state' = [state EXCEPT ![j] = "CANCELLED"]
    /\ retried' = retried \ {j}
    /\ UNCHANGED <<handlerVars, pending, paused, closed, activeID, stopped, pc,
                   item, outcome>>

\* A waiting job is cancelled on the spot; the active one through its context.
Cancel(j) ==
    /\ \/ /\ state[j] = "WAITING"
          /\ state' = [state EXCEPT ![j] = "CANCELLED"]
          /\ retried' = retried \ {j}
          /\ UNCHANGED stopped
       \/ /\ state[j] \in InFlight
          /\ activeID = j
          /\ stopped' = TRUE
          /\ UNCHANGED <<state, retried>>
    /\ UNCHANGED <<handlerVars, pending, paused, closed, activeID, pc, item,
                   outcome>>

\* Mutant: the job is reset but not put back into pending.
Retry_NotQueued(j) ==
    /\ state[j] \in {"FAILED", "CANCELLED"}
    /\ state' = [state EXCEPT ![j] = "WAITING"]
    /\ retried' = retried \cup {j}
    /\ UNCHANGED <<handlerVars, pending, paused, closed, activeID, stopped, pc,
                   item, outcome>>

Retry(j) ==
    /\ state[j] \in {"FAILED", "CANCELLED"}
    /\ Len(pending) < MaxPending
    /\ state' = [state EXCEPT ![j] = "WAITING"]
    /\ pending' = Append(pending, j)
    /\ retried' = retried \cup {j}
    /\ UNCHANGED <<handlerVars, paused, closed, activeID, stopped, pc, item,
                   outcome>>

SetPaused(value) ==
    /\ paused' = value
    /\ UNCHANGED <<state, handlerVars, pending, closed, activeID, stopped, pc,
                   item, outcome, retried>>

Pause  == SetPaused(TRUE)
Resume == SetPaused(FALSE)

\* Mutant: failed jobs are cleared too.
ClearCompleted_Failed ==
    /\ state' = [j \in JobIds |->
                    IF state[j] \in {"COMPLETED", "CANCELLED", "FAILED"}
                    THEN "ABSENT" ELSE state[j]]
    /\ UNCHANGED <<handlerVars, pending, paused, closed, activeID, stopped, pc,
                   item, outcome, retried>>

ClearCompleted ==
    /\ state' = [j \in JobIds |-> IF state[j] \in {"COMPLETED", "CANCELLED"}
                                  THEN "ABSENT" ELSE state[j]]
    /\ UNCHANGED <<handlerVars, pending, paused, closed, activeID, stopped, pc,
                   item, outcome, retried>>

Close ==
    /\ closed' = TRUE
    /\ stopped' = (stopped \/ (~closed /\ activeID # NoId))
    /\ UNCHANGED <<state, handlerVars, pending, paused, activeID, pc, item,
                   outcome, retried>>

----------------------------------------------------------------------------
(* The worker goroutine.                                                    *)

\* update: write the state of a job that is still in items.
update(j, s) == [state EXCEPT ![j] = IF @ = "ABSENT" THEN @ ELSE s]

CanDequeue == pc = "idle" /\ ~closed /\ ~paused /\ pending # <<>>

\* Mutant: a stale id is left at the head of pending.
Skip_KeepsHead ==
    /\ CanDequeue
    /\ state[Head(pending)] # "WAITING"
    /\ UNCHANGED vars

\* The popped id was cancelled, cleared, or already ran from an earlier entry.
Skip ==
    /\ CanDequeue
    /\ state[Head(pending)] # "WAITING"
    /\ pending' = Tail(pending)
    /\ UNCHANGED <<state, handlerVars, paused, closed, activeID, stopped, pc,
                   item, outcome, retried>>

\* Mutant: the state of the popped id is not checked.
Claim_Unchecked ==
    /\ CanDequeue
    /\ pending' = Tail(pending)
    /\ activeID' = Head(pending)
    /\ item' = Head(pending)
    /\ stopped' = FALSE
    /\ state' = [state EXCEPT ![Head(pending)] = "STARTING"]
    /\ retried' = retried \ {Head(pending)}
    /\ pc' = "started"
    /\ UNCHANGED <<handlerVars, paused, closed, outcome>>

Claim ==
    /\ CanDequeue
    /\ state[Head(pending)] = "WAITING"
    /\ pending' = Tail(pending)
    /\ activeID' = Head(pending)
    /\ item' = Head(pending)
    /\ stopped' = FALSE
    /\ state' = [state EXCEPT ![Head(pending)] = "STARTING"]
    /\ retried' = retried \ {Head(pending)}
    /\ pc' = "started"
    /\ UNCHANGED <<handlerVars, paused, closed, outcome>>

\* Mutant: the wait loop looks at closed only while it is not paused.
Exit_UnlessPaused ==
    /\ pc = "idle" /\ closed /\ ~paused
    /\ pc' = "done"
    /\ UNCHANGED <<state, handlerVars, pending, paused, closed, activeID,
                   stopped, item, outcome, retried>>

Exit ==
    /\ pc = "idle" /\ closed
    /\ pc' = "done"
    /\ UNCHANGED <<state, handlerVars, pending, paused, closed, activeID,
                   stopped, item, outcome, retried>>

StartTransfer ==
    /\ pc = "started"
    /\ state' = update(item, "TRANSFERRING")
    /\ pc' = "transferring"
    /\ UNCHANGED <<handlerVars, pending, paused, closed, activeID, stopped,
                   item, outcome, retried>>

\* The error branch of process: it writes through m.items without a nil check.
TransferFails(result) ==
    /\ pc = "transferring"
    /\ result = "CANCELLED" => stopped
    /\ state' = [state EXCEPT ![item] = result]
    /\ outcome' = result
    /\ pc' = "settle"
    /\ UNCHANGED <<handlerVars, pending, paused, closed, activeID, stopped,
                   item, retried>>

TransferSucceeds ==
    /\ pc = "transferring"
    /\ state' = update(item, "VERIFYING")
    /\ outcome' = "COMPLETED"
    /\ pc' = "verifying"
    /\ UNCHANGED <<handlerVars, pending, paused, closed, activeID, stopped,
                   item, retried>>

Complete ==
    /\ pc = "verifying"
    /\ state' = update(item, "COMPLETED")
    /\ pc' = "settle"
    /\ UNCHANGED <<handlerVars, pending, paused, closed, activeID, stopped,
                   item, outcome, retried>>

\* Mutant: only the next job of the queue is found.
WaitingIn_NextOnly(q) ==
    {j \in JobIds : /\ queueOf[j] = q /\ state[j] = "WAITING"
                    /\ pending # <<>> /\ j = Head(pending)}

WaitingIn(q) == {j \in JobIds : queueOf[j] = q /\ state[j] = "WAITING"}

\* cancelWaitingQueueLocked applies to these jobs when item is still FAILED.
StoppedBy(j) ==
    IF state[j] = "FAILED" /\ queueOf[j] \in stopOnError
    THEN WaitingIn(queueOf[j]) ELSE {}

\* Mutant: a queue counts as finished while jobs of it wait.
queueFinished_InFlightOnly(q, st) ==
    \A j \in JobIds : queueOf[j] = q => st[j] \notin InFlight

queueFinished(q, st) ==
    \A j \in JobIds : queueOf[j] = q => st[j] \notin Unfinished

\* The second critical section of run: it reads item.State again.
Settle ==
    /\ pc = "settle"
    /\ activeID' = NoId
    /\ stopped' = FALSE
    /\ outcome' = "none"
    /\ state' = [j \in JobIds |-> IF j \in StoppedBy(item) THEN "CANCELLED"
                                  ELSE state[j]]
    /\ retried' = retried \ StoppedBy(item)
    /\ IF queueFinished(queueOf[item], state')
       THEN pc' = "announce" /\ item' = item
       ELSE pc' = "idle" /\ item' = NoId
    /\ UNCHANGED <<handlerVars, pending, paused, closed>>

\* publish queue.completed, then back to the wait loop.
Announce ==
    /\ pc = "announce"
    /\ pc' = "idle"
    /\ item' = NoId
    /\ UNCHANGED <<state, handlerVars, pending, paused, closed, activeID,
                   stopped, outcome, retried>>

----------------------------------------------------------------------------
Handler ==
    \/ \E n \in 1..MaxJobs, stop \in BOOLEAN : Enqueue(n, stop)
    \/ \E j \in JobIds : Cancel(j)
    \/ \E j \in JobIds : Retry(j)
    \/ Pause
    \/ Resume
    \/ ClearCompleted
    \/ Close

Worker ==
    \/ Skip
    \/ Claim
    \/ Exit
    \/ StartTransfer
    \/ \E result \in {"FAILED", "CANCELLED"} : TransferFails(result)
    \/ TransferSucceeds
    \/ Complete
    \/ Settle
    \/ Announce

Next == Handler \/ Worker

Spec == Init /\ [][Next]_vars

\* The goroutine runs whenever it can, and a transfer returns in the end: reads
\* and writes of a file have deadlines, and a file at most three attempts.  That a
\* server ends the listing of a directory, which has none, is assumed.  Nothing is
\* assumed of the handlers.
FairSpec == Spec /\ WF_vars(Worker)

----------------------------------------------------------------------------
(* Properties.                                                              *)

\* Type invariant of the Manager fields.
TypeOK ==
    /\ state \in [JobIds -> States]
    /\ queueOf \in [JobIds -> 0..MaxQueues]
    /\ lastJob \in 0..MaxJobs
    /\ lastQueue \in 0..MaxQueues
    /\ stopOnError \subseteq QueueIds
    /\ pending \in Seq(JobIds)
    /\ paused \in BOOLEAN
    /\ closed \in BOOLEAN
    /\ activeID \in JobIds \cup {NoId}
    /\ stopped \in BOOLEAN
    /\ pc \in WorkerPoints
    /\ item \in JobIds \cup {NoId}
    /\ outcome \in {"none", "COMPLETED", "FAILED", "CANCELLED"}
    /\ retried \subseteq JobIds

Occurs(j, ids) == \E i \in DOMAIN ids : ids[i] = j

\* No accepted job is forgotten: a WAITING job always has an entry in pending,
\* however often it was cancelled, retried, or skipped as a stale entry.
WaitingIsQueued == \A j \in JobIds : state[j] = "WAITING" => Occurs(j, pending)

\* Where the worker is fixes the one job in flight: while it transfers a job the
\* handlers can neither delete that job (process would dereference nil) nor
\* rewrite its state, and no other job is in flight (README: one at a time).
StateAt ==
    [p \in {"started", "transferring", "verifying"} |->
        CASE p = "started" -> "STARTING"
          [] p = "transferring" -> "TRANSFERRING"
          [] p = "verifying" -> "VERIFYING"]

OneInFlight ==
    /\ \A j \in JobIds : state[j] \in InFlight => j = activeID
    /\ pc \in DOMAIN StateAt => item = activeID /\ activeID # NoId
                                /\ state[item] = StateAt[pc]
    /\ pc \notin DOMAIN StateAt => \A j \in JobIds : state[j] \notin InFlight

\* Stop on error holds from the moment the worker has settled a failure: no job
\* of that queue is waiting beside the failed one, unless a user retried it.
StoppedQueueStaysStopped ==
    \A j, k \in JobIds :
        /\ state[j] = "FAILED"
        /\ queueOf[j] \in stopOnError
        /\ ~(pc = "settle" /\ item = j)
        /\ queueOf[k] = queueOf[j]
        /\ state[k] = "WAITING"
        => k \in retried

\* queue.completed is published after the lock is released: by then the queue
\* it names has nothing left to do but jobs a user has just retried.
AnnouncedQueueIsFinished ==
    pc = "announce" =>
        \A j \in JobIds : queueOf[j] = queueOf[item] /\ state[j] \in Unfinished
                          => state[j] = "WAITING" /\ j \in retried

\* A job whose Cancel was accepted while it waited is never transferred: only a
\* Retry brings it back, whatever entries for it are still in pending.
CancelledNeverStarts ==
    [][\A j \in JobIds : state[j] \in {"CANCELLED", "COMPLETED", "ABSENT"}
                         => state'[j] \notin InFlight]_vars

\* README: stop on error cancels the remainder of that submitted queue.  When the
\* worker is past the failure of a job, no job of the queue is left waiting
\* except the retried ones.  The code re-reads item.State, so a Retry of the
\* failed job before the worker locks again makes it forget the failure.
StopOnErrorCancelsRemainder ==
    [][pc = "settle" /\ pc' # "settle" /\ outcome = "FAILED"
         /\ queueOf[item] \in stopOnError
       => \A k \in JobIds : queueOf[k] = queueOf[item] /\ state'[k] = "WAITING"
                            => k \in retried]_vars

\* What the worker holds: between the claim and the second lock, activeID is its
\* local item; an id it works on was handed out before.
WorkerHoldsItem ==
    /\ activeID = IF pc \in DOMAIN StateAt \cup {"settle"} THEN item ELSE NoId
    /\ pc \in DOMAIN StateAt \cup {"settle", "announce"} => item \in 1..lastJob

\* Ids are fresh: no job or queue has an id that is still to be handed out.
IdsAreFresh ==
    /\ \A j \in JobIds : j > lastJob => state[j] = "ABSENT"
    /\ \A j \in JobIds : queueOf[j] <= lastQueue

\* The inductive invariant behind the safety properties above.
IInv ==
    /\ TypeOK
    /\ WaitingIsQueued
    /\ OneInFlight
    /\ StoppedQueueStaysStopped
    /\ AnnouncedQueueIsFinished
    /\ WorkerHoldsItem
    /\ IdsAreFresh

\* The transfer queue keeps the promises of WorkQueue: a job runs from the moment
\* the worker claims it until its outcome is recorded, and is withdrawn by Cancel
\* or by stop on error only while it waits.
statusOf(s, handedOut) ==
    CASE s = "ABSENT" -> IF handedOut THEN "forgotten" ELSE "none"
      [] s = "WAITING" -> "waiting"
      [] s \in InFlight -> "running"
      [] s = "COMPLETED" -> "completed"
      [] s = "FAILED" -> "failed"
      [] s = "CANCELLED" -> "cancelled"

jobStatus == [j \in JobIds |-> statusOf(state[j], j <= lastJob)]

Queue == INSTANCE WorkQueue WITH Jobs <- JobIds, status <- jobStatus

ImplementsWorkQueue == Queue!Spec

\* No starvation: every waiting job is started or cancelled in the end, unless
\* the queue is paused or shut down, even when other jobs are retried forever.
WaitingIsServed ==
    \A j \in JobIds : state[j] = "WAITING"
                      ~> (state[j] # "WAITING" \/ paused \/ closed)

\* Close returns: the worker leaves run whatever it was doing, paused or not.
CloseReturns == closed ~> pc = "done"
=============================================================================
