------------------------- MODULE TransferQueueProofs -------------------------
(***************************************************************************)
(* Machine-checked proofs about the transfer queue, for any number of jobs,*)
(* submissions and pending entries: type correctness, the safety           *)
(* invariants (through the inductive invariant IInv), the action property  *)
(* CancelledNeverStarts and the refinement of WorkQueue.                   *)
(***************************************************************************)
EXTENDS TransferQueue, TLAPS, SequenceTheorems

----------------------------------------------------------------------------
(* What the three operations on pending do to the ids that occur in it.     *)

\* Appending an id keeps every id and adds the new one.
LEMMA OccursAppend ==
    ASSUME NEW S, NEW ids \in Seq(S), NEW e \in S
    PROVE  /\ Append(ids, e) \in Seq(S)
           /\ Occurs(e, Append(ids, e))
           /\ \A j : Occurs(j, ids) => Occurs(j, Append(ids, e))
<1>1. /\ Append(ids, e) \in Seq(S)
      /\ DOMAIN ids = 1..Len(ids) /\ Len(ids) \in Nat
      /\ DOMAIN Append(ids, e) = 1..(Len(ids) + 1)
      /\ \A i \in 1..Len(ids) : Append(ids, e)[i] = ids[i]
      /\ Append(ids, e)[Len(ids) + 1] = e
  BY LenProperties
<1>2. \A i \in 1..Len(ids) : i \in 1..(Len(ids) + 1)
  BY <1>1
<1>3. Len(ids) + 1 \in 1..(Len(ids) + 1)
  BY <1>1
<1>4. QED
  BY <1>1, <1>2, <1>3 DEF Occurs

\* Popping the head loses no other id.
LEMMA OccursTail ==
    ASSUME NEW S, NEW ids \in Seq(S), ids # <<>>
    PROVE  /\ Head(ids) \in S
           /\ Tail(ids) \in Seq(S)
           /\ Occurs(Head(ids), ids)
           /\ \A j : Occurs(j, ids) => j = Head(ids) \/ Occurs(j, Tail(ids))
<1>1. /\ Head(ids) \in S
      /\ Tail(ids) \in Seq(S)
      /\ Len(Tail(ids)) = Len(ids) - 1
      /\ \A i \in 1..Len(Tail(ids)) : Tail(ids)[i] = ids[i + 1]
  BY HeadTailProperties
<1>2. /\ DOMAIN ids = 1..Len(ids) /\ Len(ids) \in Nat \ {0}
      /\ DOMAIN Tail(ids) = 1..Len(Tail(ids))
      /\ Head(ids) = ids[1]
  BY <1>1, LenProperties, EmptySeq
<1>3. ASSUME NEW i \in DOMAIN ids, i # 1
      PROVE  i - 1 \in DOMAIN Tail(ids) /\ Tail(ids)[i - 1] = ids[i]
  BY <1>1, <1>2, <1>3
<1>4. Occurs(Head(ids), ids)
  BY <1>2 DEF Occurs
<1>5. ASSUME NEW j, Occurs(j, ids), j # Head(ids)
      PROVE  Occurs(j, Tail(ids))
  <2>1. PICK i \in DOMAIN ids : ids[i] = j
    BY <1>5 DEF Occurs
  <2>2. i # 1
    BY <2>1, <1>2, <1>5
  <2>3. QED
    BY <1>3, <2>1, <2>2 DEF Occurs
<1>6. QED
  BY <1>1, <1>4, <1>5

\* Concatenation keeps the ids of both sequences.
LEMMA OccursConcat ==
    ASSUME NEW S, NEW ids \in Seq(S), NEW new \in Seq(S)
    PROVE  /\ ids \o new \in Seq(S)
           /\ \A j : Occurs(j, ids) \/ Occurs(j, new) => Occurs(j, ids \o new)
<1>1. /\ ids \o new \in Seq(S)
      /\ Len(ids \o new) = Len(ids) + Len(new)
      /\ \A i \in 1..Len(ids) + Len(new) :
            (ids \o new)[i] = IF i <= Len(ids) THEN ids[i] ELSE new[i - Len(ids)]
  BY ConcatProperties
<1>2. /\ DOMAIN ids = 1..Len(ids) /\ Len(ids) \in Nat
      /\ DOMAIN new = 1..Len(new) /\ Len(new) \in Nat
      /\ DOMAIN (ids \o new) = 1..Len(ids \o new)
  BY <1>1, LenProperties
<1>3. ASSUME NEW i \in DOMAIN ids
      PROVE  i \in DOMAIN (ids \o new) /\ (ids \o new)[i] = ids[i]
  BY <1>1, <1>2
<1>4. ASSUME NEW i \in DOMAIN new
      PROVE  /\ Len(ids) + i \in DOMAIN (ids \o new)
             /\ (ids \o new)[Len(ids) + i] = new[i]
  BY <1>1, <1>2
<1>5. QED
  BY <1>1, <1>3, <1>4 DEF Occurs

\* A function on 1..n is a sequence.
LEMMA FunctionIsSeq ==
    ASSUME NEW S, NEW n \in Nat, NEW f \in [1..n -> S]
    PROVE  f \in Seq(S)
OBVIOUS

\* The ids of one submission: a sequence of exactly the fresh ids.
LEMMA NewJobsOccur ==
    ASSUME TypeOK, NEW n \in 1..MaxJobs, lastJob + n <= MaxJobs
    PROVE  /\ NewJobs(n) \in Seq(JobIds)
           /\ \A j \in lastJob + 1 .. lastJob + n : Occurs(j, NewJobs(n))
<1> USE BoundsAssumption DEF TypeOK, JobIds
<1>1. n \in Nat /\ lastJob \in Nat
  OBVIOUS
<1>2. \A i \in 1..n : lastJob + i \in JobIds
  BY <1>1
<1>3. NewJobs(n) \in [1..n -> JobIds]
  BY <1>2 DEF NewJobs
<1>4. NewJobs(n) \in Seq(JobIds)
  BY <1>1, <1>3, FunctionIsSeq
<1>5. ASSUME NEW j \in lastJob + 1 .. lastJob + n
      PROVE  j - lastJob \in DOMAIN NewJobs(n) /\ NewJobs(n)[j - lastJob] = j
  BY <1>1 DEF NewJobs
<1>6. QED
  BY <1>4, <1>5 DEF Occurs

----------------------------------------------------------------------------
(* Type correctness.                                                        *)

\* Every handler call and every worker step keeps the types of the fields.
LEMMA TypeOKStep == TypeOK /\ [Next]_vars => TypeOK'
<1> SUFFICES ASSUME TypeOK, [Next]_vars PROVE TypeOK'
  OBVIOUS
<1> USE BoundsAssumption DEF TypeOK, JobIds, QueueIds, NoId, States,
        Unfinished, InFlight, WorkerPoints, handlerVars
<1>1. ASSUME NEW n \in 1..MaxJobs, NEW stop \in BOOLEAN, Enqueue(n, stop)
      PROVE  TypeOK'
  <2>1. pending' \in Seq(JobIds)
    BY <1>1, NewJobsOccur, OccursConcat DEF Enqueue
  <2>2. QED
    BY <1>1, <2>1 DEF Enqueue
<1>2. ASSUME NEW j \in JobIds, Cancel(j) PROVE TypeOK'
  BY <1>2, ZenonT(60) DEF Cancel
<1>3. ASSUME NEW j \in JobIds, Retry(j) PROVE TypeOK'
  BY <1>3, OccursAppend DEF Retry
<1>4. CASE Pause \/ Resume
  BY <1>4 DEF Pause, Resume, SetPaused
<1>5. CASE ClearCompleted
  BY <1>5 DEF ClearCompleted
<1>6. CASE Close
  BY <1>6 DEF Close
<1>7. CASE Skip
  BY <1>7, OccursTail DEF Skip, CanDequeue
<1>8. CASE Claim
  BY <1>8, OccursTail DEF Claim, CanDequeue
<1>9. CASE Exit
  BY <1>9 DEF Exit
<1>10. CASE StartTransfer
  BY <1>10 DEF StartTransfer, update
<1>11. ASSUME NEW result \in {"FAILED", "CANCELLED"}, TransferFails(result)
       PROVE  TypeOK'
  BY <1>11 DEF TransferFails
<1>12. CASE TransferSucceeds
  BY <1>12 DEF TransferSucceeds, update
<1>13. CASE Complete
  BY <1>13 DEF Complete, update
<1>14. CASE Settle
  BY <1>14 DEF Settle
<1>15. CASE Announce
  BY <1>15 DEF Announce
<1>16. CASE UNCHANGED vars
  BY <1>16 DEF vars
<1>17. QED
  BY <1>1, <1>2, <1>3, <1>4, <1>5, <1>6, <1>7, <1>8, <1>9, <1>10, <1>11, <1>12,
     <1>13, <1>14, <1>15, <1>16 DEF Next, Handler, Worker

\* A new Manager has well-typed fields.
LEMMA InitTypeOK == Init => TypeOK
<1> SUFFICES ASSUME Init PROVE TypeOK
  OBVIOUS
<1>1. <<>> \in Seq(JobIds)
  BY EmptySeq
<1>2. 0 \in 0..MaxJobs /\ 0 \in 0..MaxQueues
  BY BoundsAssumption
<1>3. state \in [JobIds -> States] /\ queueOf \in [JobIds -> 0..MaxQueues]
  BY <1>2 DEF Init, States, NoId
<1>4. QED
  BY <1>1, <1>2, <1>3 DEF Init, TypeOK, NoId, WorkerPoints

\* The Manager fields keep their types in every behavior.
THEOREM TypeCorrect == Spec => []TypeOK
BY InitTypeOK, TypeOKStep, PTL DEF Spec

----------------------------------------------------------------------------
(* The inductive invariant, one action at a time.                           *)

\* Submitting jobs: their ids are fresh, so nothing known about older jobs and
\* queues changes, and each of them is put into pending.
LEMMA EnqueueStep ==
    ASSUME IInv, NEW n \in 1..MaxJobs, NEW stop \in BOOLEAN, Enqueue(n, stop)
    PROVE  IInv'
<1> USE BoundsAssumption DEF IInv
<1> DEFINE new == lastJob + 1 .. lastJob + n
<1>1. TypeOK'
  BY TypeOKStep DEF Next, Handler
<1>2. /\ lastJob \in Nat /\ lastQueue \in Nat /\ n \in Nat
      /\ \A j \in JobIds : queueOf[j] \in Nat
      /\ state' = [j \in JobIds |-> IF j \in new THEN "WAITING" ELSE state[j]]
      /\ queueOf' = [j \in JobIds |-> IF j \in new THEN lastQueue + 1
                                                    ELSE queueOf[j]]
      /\ lastJob' = lastJob + n /\ lastQueue' = lastQueue + 1
      /\ stopOnError' \subseteq stopOnError \cup {lastQueue + 1}
      /\ UNCHANGED <<activeID, pc, item, retried>>
      /\ \A j \in new : j > lastJob /\ state[j] = "ABSENT"
  BY DEF TypeOK, IdsAreFresh, Enqueue, JobIds
<1>3. WaitingIsQueued'
  <2>1. \A j : Occurs(j, pending) \/ j \in new => Occurs(j, pending')
    BY NewJobsOccur, OccursConcat DEF TypeOK, Enqueue
  <2>2. QED
    BY <1>2, <2>1 DEF WaitingIsQueued
<1>4. OneInFlight'
  BY <1>2 DEF OneInFlight, InFlight, StateAt, TypeOK, NoId, WorkerHoldsItem
<1>5. StoppedQueueStaysStopped'
  <2> SUFFICES ASSUME NEW j \in JobIds, NEW k \in JobIds,
                      state'[j] = "FAILED", queueOf'[j] \in stopOnError',
                      ~(pc' = "settle" /\ item' = j),
                      queueOf'[k] = queueOf'[j], state'[k] = "WAITING"
               PROVE  k \in retried'
    BY DEF StoppedQueueStaysStopped
  <2>1. j \notin new /\ queueOf[j] <= lastQueue
    BY <1>2 DEF IdsAreFresh
  <2>2. k \notin new /\ queueOf[j] \in stopOnError
    BY <1>2, <2>1
  <2>3. QED
    BY <1>2, <2>1, <2>2 DEF StoppedQueueStaysStopped
<1>6. AnnouncedQueueIsFinished'
  <2> SUFFICES ASSUME pc' = "announce", NEW j \in JobIds,
                      queueOf'[j] = queueOf'[item'], state'[j] \in Unfinished
               PROVE  state'[j] = "WAITING" /\ j \in retried'
    BY DEF AnnouncedQueueIsFinished
  <2>1. item \in JobIds /\ item \notin new /\ queueOf[item] <= lastQueue
    BY <1>2 DEF WorkerHoldsItem, IdsAreFresh, TypeOK, JobIds
  <2>2. j \notin new
    BY <1>2, <2>1
  <2>3. QED
    BY <1>2, <2>1, <2>2 DEF AnnouncedQueueIsFinished
<1>7. WorkerHoldsItem'
  BY <1>2 DEF WorkerHoldsItem, TypeOK, StateAt
<1>8. IdsAreFresh'
  BY <1>2 DEF IdsAreFresh, JobIds, TypeOK
<1>9. QED
  BY <1>1, <1>3, <1>4, <1>5, <1>6, <1>7, <1>8

\* The other handlers: Cancel, Retry, Pause, Resume, ClearCompleted, Close.
LEMMA CancelStep ==
    ASSUME IInv, NEW j \in JobIds, Cancel(j)
    PROVE  IInv'
<1> USE DEF IInv
<1>1. TypeOK'
  BY TypeOKStep DEF Next, Handler
<1>2. CASE state[j] = "WAITING" /\ state' = [state EXCEPT ![j] = "CANCELLED"]
                               /\ retried' = retried \ {j}
  <2> USE <1>2 DEF Cancel, handlerVars
  <2>1. WaitingIsQueued' /\ WorkerHoldsItem' /\ IdsAreFresh'
    BY DEF WaitingIsQueued, WorkerHoldsItem, IdsAreFresh, TypeOK, StateAt
  <2>2. OneInFlight'
    BY DEF OneInFlight, InFlight, StateAt, TypeOK
  <2>3. StoppedQueueStaysStopped' /\ AnnouncedQueueIsFinished'
    BY DEF StoppedQueueStaysStopped, AnnouncedQueueIsFinished, TypeOK,
           Unfinished, InFlight
  <2>4. QED
    BY <1>1, <2>1, <2>2, <2>3
<1>3. CASE UNCHANGED <<state, retried>>
  BY <1>1, <1>3 DEF Cancel, handlerVars, WaitingIsQueued, WorkerHoldsItem,
     IdsAreFresh, OneInFlight, StateAt, StoppedQueueStaysStopped,
     AnnouncedQueueIsFinished
<1>4. QED
  BY <1>2, <1>3 DEF Cancel

\* A retried job waits again, with an entry.
LEMMA RetryStep ==
    ASSUME IInv, NEW j \in JobIds, Retry(j)
    PROVE  IInv'
<1> USE DEF IInv, Retry, handlerVars
<1>1. TypeOK'
  BY TypeOKStep DEF Next, Handler
<1>2. WaitingIsQueued'
  BY OccursAppend DEF WaitingIsQueued, TypeOK
<1>3. WorkerHoldsItem' /\ IdsAreFresh'
  BY DEF WorkerHoldsItem, IdsAreFresh, TypeOK, StateAt
<1>4. OneInFlight'
  BY DEF OneInFlight, InFlight, StateAt, TypeOK
<1>5. StoppedQueueStaysStopped' /\ AnnouncedQueueIsFinished'
  BY DEF StoppedQueueStaysStopped, AnnouncedQueueIsFinished, TypeOK, Unfinished
<1>6. QED
  BY <1>1, <1>2, <1>3, <1>4, <1>5

\* Clearing removes only jobs that have ended.
LEMMA ClearCompletedStep == IInv /\ ClearCompleted => IInv'
<1> SUFFICES ASSUME IInv, ClearCompleted PROVE IInv'
  OBVIOUS
<1> USE DEF IInv, ClearCompleted, handlerVars
<1>1. TypeOK'
  BY TypeOKStep DEF Next, Handler
<1>2. WaitingIsQueued' /\ WorkerHoldsItem' /\ IdsAreFresh'
  BY DEF WaitingIsQueued, WorkerHoldsItem, IdsAreFresh, TypeOK, StateAt
<1>3. OneInFlight'
  BY DEF OneInFlight, InFlight, StateAt, TypeOK, NoId
<1>4. StoppedQueueStaysStopped' /\ AnnouncedQueueIsFinished'
  BY DEF StoppedQueueStaysStopped, AnnouncedQueueIsFinished, TypeOK,
         Unfinished, InFlight
<1>5. QED
  BY <1>1, <1>2, <1>3, <1>4

\* Pause, Resume and Close touch no job.
LEMMA SwitchStep == IInv /\ (Pause \/ Resume \/ Close) => IInv'
<1> SUFFICES ASSUME IInv, Pause \/ Resume \/ Close PROVE IInv'
  OBVIOUS
<1>1. TypeOK'
  BY TypeOKStep DEF IInv, Next, Handler
<1>2. UNCHANGED <<state, handlerVars, pending, activeID, pc, item, retried>>
  BY DEF Pause, Resume, SetPaused, Close
<1>3. QED
  BY <1>1, <1>2 DEF IInv, handlerVars, WaitingIsQueued, WorkerHoldsItem,
     IdsAreFresh, OneInFlight, StateAt, StoppedQueueStaysStopped,
     AnnouncedQueueIsFinished

\* The worker pops a stale entry: it was not the entry of a waiting job.
LEMMA SkipStep == IInv /\ Skip => IInv'
<1> SUFFICES ASSUME IInv, Skip PROVE IInv'
  OBVIOUS
<1> USE DEF IInv, Skip, CanDequeue, handlerVars
<1>1. TypeOK'
  BY TypeOKStep DEF Next, Worker
<1>2. WaitingIsQueued'
  BY OccursTail DEF WaitingIsQueued, TypeOK
<1>3. QED
  BY <1>1, <1>2 DEF WorkerHoldsItem, IdsAreFresh, OneInFlight, StateAt,
     StoppedQueueStaysStopped, AnnouncedQueueIsFinished

\* The worker claims the job at the head: it leaves WAITING and its entry goes.
LEMMA ClaimStep == IInv /\ Claim => IInv'
<1> SUFFICES ASSUME IInv, Claim PROVE IInv'
  OBVIOUS
<1> USE DEF IInv, Claim, CanDequeue, handlerVars
<1> DEFINE j == Head(pending)
<1>1. TypeOK'
  BY TypeOKStep DEF Next, Worker
<1>2. j \in JobIds /\ j \in 1..lastJob
  BY OccursTail, BoundsAssumption DEF TypeOK, IdsAreFresh, JobIds
<1>3. WaitingIsQueued'
  BY <1>2, OccursTail DEF WaitingIsQueued, TypeOK
<1>4. OneInFlight'
  BY <1>2, BoundsAssumption DEF OneInFlight, InFlight, StateAt, TypeOK, NoId, JobIds
<1>5. WorkerHoldsItem' /\ IdsAreFresh'
  BY <1>2 DEF WorkerHoldsItem, IdsAreFresh, StateAt, TypeOK
<1>6. StoppedQueueStaysStopped' /\ AnnouncedQueueIsFinished'
  BY <1>2 DEF StoppedQueueStaysStopped, AnnouncedQueueIsFinished, TypeOK
<1>7. QED
  BY <1>1, <1>3, <1>4, <1>5, <1>6

\* The worker moves its own job along: only the state of item changes, and not
\* to WAITING.
LEMMA MoveItemStep ==
    ASSUME IInv,
           \/ StartTransfer \/ TransferSucceeds \/ Complete
           \/ \E result \in {"FAILED", "CANCELLED"} : TransferFails(result)
    PROVE  IInv'
<1> USE DEF IInv
<1>1. TypeOK'
  BY TypeOKStep DEF Next, Worker
<1>2. /\ pc \in {"started", "transferring", "verifying"}
      /\ item \in JobIds /\ item = activeID
      /\ item \in 1..lastJob
      /\ state[item] = StateAt[pc]
  BY DEF StartTransfer, TransferSucceeds, Complete, TransferFails,
         OneInFlight, StateAt, TypeOK, WorkerHoldsItem, NoId
<1>3. PICK s \in {"TRANSFERRING", "VERIFYING", "COMPLETED", "FAILED", "CANCELLED"} :
        /\ state' = [state EXCEPT ![item] = s]
        /\ \/ s = "TRANSFERRING" /\ pc' = "transferring"
           \/ s = "VERIFYING" /\ pc' = "verifying"
           \/ s \notin InFlight /\ pc' = "settle"
  BY <1>2 DEF StartTransfer, TransferSucceeds, Complete, TransferFails, update,
              StateAt, InFlight, TypeOK
<1>4. UNCHANGED <<handlerVars, pending, activeID, item, retried>>
  BY DEF StartTransfer, TransferSucceeds, Complete, TransferFails
<1> USE DEF handlerVars
<1>5. WaitingIsQueued' /\ IdsAreFresh'
  BY <1>2, <1>3, <1>4 DEF WaitingIsQueued, IdsAreFresh, TypeOK, JobIds
<1>6. OneInFlight' /\ WorkerHoldsItem'
  BY <1>2, <1>3, <1>4 DEF OneInFlight, WorkerHoldsItem, InFlight, StateAt, TypeOK
<1>7. StoppedQueueStaysStopped'
  BY <1>2, <1>3, <1>4 DEF StoppedQueueStaysStopped, TypeOK, InFlight
<1>8. AnnouncedQueueIsFinished'
  BY <1>3 DEF AnnouncedQueueIsFinished
<1>9. QED
  BY <1>1, <1>5, <1>6, <1>7, <1>8

\* The second lock of run: stop on error empties the queue of a failed job, and
\* only a finished queue is announced.
LEMMA SettleStep == IInv /\ Settle => IInv'
<1> SUFFICES ASSUME IInv, Settle PROVE IInv'
  OBVIOUS
<1> USE DEF IInv, handlerVars
<1>1. TypeOK'
  BY TypeOKStep DEF Next, Worker
<1>2. /\ pc = "settle" /\ item \in 1..lastJob /\ item \in JobIds
      /\ activeID' = NoId
      /\ pc' \in {"announce", "idle"}
      /\ UNCHANGED <<handlerVars, pending>>
      /\ retried' = retried \ StoppedBy(item)
      /\ \A j \in JobIds : state[j] \notin InFlight
  BY BoundsAssumption DEF Settle, WorkerHoldsItem, OneInFlight, StateAt, TypeOK,
     JobIds
<1>3. /\ \A j \in JobIds : state'[j] = IF j \in StoppedBy(item) THEN "CANCELLED"
                                        ELSE state[j]
      /\ \A j \in StoppedBy(item) : j \in JobIds /\ state[j] = "WAITING"
  BY DEF Settle, StoppedBy, WaitingIn
<1>4. WaitingIsQueued' /\ IdsAreFresh'
  BY <1>2, <1>3 DEF WaitingIsQueued, IdsAreFresh
<1>5. OneInFlight' /\ WorkerHoldsItem'
  <2>1. pc' = "announce" => item' = item
    BY DEF Settle
  <2>2. QED
    BY <1>2, <1>3, <2>1 DEF OneInFlight, WorkerHoldsItem, InFlight, StateAt
<1>6. StoppedQueueStaysStopped'
  <2> SUFFICES ASSUME NEW j \in JobIds, NEW k \in JobIds,
                      state'[j] = "FAILED", queueOf[j] \in stopOnError,
                      queueOf[k] = queueOf[j], state'[k] = "WAITING"
               PROVE  k \in retried'
    BY <1>2 DEF StoppedQueueStaysStopped
  <2>1. state[j] = "FAILED" /\ state[k] = "WAITING" /\ k \notin StoppedBy(item)
    BY <1>3
  <2>2. j # item
    BY <2>1 DEF StoppedBy, WaitingIn
  <2>3. QED
    BY <1>2, <2>1, <2>2 DEF StoppedQueueStaysStopped
<1>7. AnnouncedQueueIsFinished'
  BY <1>2 DEF AnnouncedQueueIsFinished, Settle, queueFinished
<1>8. QED
  BY <1>1, <1>4, <1>5, <1>6, <1>7

\* Announcing a queue and leaving the loop rewrite no job.
LEMMA AnnounceOrExitStep == IInv /\ (Announce \/ Exit) => IInv'
<1> SUFFICES ASSUME IInv, Announce \/ Exit PROVE IInv'
  OBVIOUS
<1>1. TypeOK'
  BY TypeOKStep DEF IInv, Next, Worker
<1>2. /\ UNCHANGED <<state, handlerVars, pending, activeID, retried>>
      /\ pc \in {"announce", "idle"} /\ pc' \in {"idle", "done"}
  BY DEF Announce, Exit
<1>3. QED
  BY <1>1, <1>2 DEF IInv, handlerVars, WaitingIsQueued, WorkerHoldsItem,
     IdsAreFresh, OneInFlight, StateAt, StoppedQueueStaysStopped,
     AnnouncedQueueIsFinished

\* IInv is inductive.
LEMMA IInvStep == IInv /\ [Next]_vars => IInv'
<1> SUFFICES ASSUME IInv, [Next]_vars PROVE IInv'
  OBVIOUS
<1>1. CASE Handler
  BY <1>1, EnqueueStep, CancelStep, RetryStep, SwitchStep, ClearCompletedStep
  DEF Handler
<1>2. CASE Worker
  BY <1>2, SkipStep, ClaimStep, MoveItemStep, SettleStep, AnnounceOrExitStep
  DEF Worker
<1>3. CASE UNCHANGED vars
  <2>1. TypeOK'
    BY TypeOKStep DEF IInv
  <2>2. QED
    BY <1>3, <2>1 DEF IInv, vars, WaitingIsQueued, WorkerHoldsItem,
       IdsAreFresh, OneInFlight, StateAt, StoppedQueueStaysStopped,
       AnnouncedQueueIsFinished
<1>4. QED
  BY <1>1, <1>2, <1>3 DEF Next

\* The inductive invariant holds in every reachable state.
THEOREM Invariance == Spec => []IInv
<1>1. Init => IInv
  <2>1. Init => TypeOK
    BY InitTypeOK
  <2>2. QED
    BY <2>1 DEF Init, IInv, WaitingIsQueued, WorkerHoldsItem, IdsAreFresh,
       OneInFlight, InFlight, StateAt, StoppedQueueStaysStopped,
       AnnouncedQueueIsFinished, NoId
<1>2. QED
  BY <1>1, IInvStep, PTL DEF Spec

----------------------------------------------------------------------------
(* What follows from the invariant.                                         *)

\* A waiting job always has its entry in pending: no accepted job is forgotten.
THEOREM NoJobForgotten == Spec => []WaitingIsQueued
BY Invariance, PTL DEF IInv

\* Transfers are strictly sequential and the handlers never touch the job the
\* worker is transferring, so process never dereferences a deleted item.
THEOREM TransfersAreSequential == Spec => []OneInFlight
BY Invariance, PTL DEF IInv

\* Once the worker has settled a failure of a stop-on-error queue, only jobs a
\* user retried wait in it.
THEOREM StopOnErrorIsKept == Spec => []StoppedQueueStaysStopped
BY Invariance, PTL DEF IInv

\* queue.completed names a queue with no job left but freshly retried ones.
THEOREM AnnouncementsAreSound == Spec => []AnnouncedQueueIsFinished
BY Invariance, PTL DEF IInv

\* What a step of the worker or of a handler can do to the state of one job,
\* as the abstract queue sees it.
LEMMA JobSteps ==
    ASSUME IInv, Worker, NEW j \in JobIds, state'[j] \in InFlight
    PROVE  state[j] \in InFlight \cup {"WAITING"}
<1> USE DEF IInv
<1>1. ASSUME Claim PROVE state[j] \in InFlight \cup {"WAITING"}
  <2>1. Head(pending) \in JobIds
    BY <1>1, OccursTail DEF Claim, CanDequeue, TypeOK
  <2>2. QED
    BY <1>1, <2>1 DEF Claim, TypeOK, InFlight
<1>2. ASSUME StartTransfer \/ TransferSucceeds \/ Complete
             \/ \E result \in {"FAILED", "CANCELLED"} : TransferFails(result)
      PROVE  state[j] \in InFlight \cup {"WAITING"}
  <2>1. item \in JobIds /\ state[item] \in InFlight
    BY <1>2 DEF StartTransfer, TransferSucceeds, Complete, TransferFails,
       OneInFlight, StateAt, InFlight, TypeOK, NoId
  <2>2. j # item => state'[j] = state[j]
    BY <1>2, <2>1 DEF StartTransfer, TransferSucceeds, Complete, TransferFails,
       update, TypeOK
  <2>3. QED
    BY <2>1, <2>2
<1>3. ASSUME Settle PROVE state'[j] = state[j] \/ state'[j] = "CANCELLED"
  BY <1>3 DEF Settle
<1>4. QED
  BY <1>1, <1>2, <1>3 DEF Worker, Skip, Exit, Announce, InFlight

\* A cancelled, completed or cleared job is not transferred again until a Retry
\* makes it wait once more.
THEOREM CancelIsKept == Spec => CancelledNeverStarts
<1>1. ASSUME IInv, [Next]_vars, NEW j \in JobIds,
             state[j] \in {"CANCELLED", "COMPLETED", "ABSENT"}
      PROVE  state'[j] \notin InFlight
  <2>1. state[j] \notin InFlight \cup {"WAITING"}
    BY <1>1 DEF InFlight
  <2>2. CASE Worker
    BY <1>1, <2>1, <2>2, JobSteps
  <2>3. CASE Handler
    BY <1>1, <2>1, <2>3 DEF Handler, Enqueue, Cancel, Retry, Pause, Resume,
       SetPaused, ClearCompleted, Close, InFlight, IInv, TypeOK
  <2>4. CASE UNCHANGED vars
    BY <1>1, <2>1, <2>4 DEF vars
  <2>5. QED
    BY <1>1, <2>2, <2>3, <2>4 DEF Next
<1>2. IInv /\ [Next]_vars
      => [\A j \in JobIds : state[j] \in {"CANCELLED", "COMPLETED", "ABSENT"}
                            => state'[j] \notin InFlight]_vars
  BY <1>1
<1>3. QED
  BY <1>2, Invariance, PTL DEF Spec, CancelledNeverStarts

----------------------------------------------------------------------------
(* Refinement of WorkQueue.                                                 *)

\* The abstract status of a job, read off its state.
LEMMA StatusOfJob ==
    ASSUME NEW j \in JobIds
    PROVE  /\ state[j] = "ABSENT" /\ ~(j <= lastJob) => jobStatus[j] = "none"
           /\ state[j] = "ABSENT" /\ j <= lastJob => jobStatus[j] = "forgotten"
           /\ state[j] = "WAITING" => jobStatus[j] = "waiting"
           /\ state[j] \in InFlight => jobStatus[j] = "running"
           /\ state[j] = "COMPLETED" => jobStatus[j] = "completed"
           /\ state[j] = "FAILED" => jobStatus[j] = "failed"
           /\ state[j] = "CANCELLED" => jobStatus[j] = "cancelled"
BY DEF jobStatus, statusOf, InFlight

\* The status of a job in WorkQueue after a step.
LEMMA StatusOfJobNext ==
    ASSUME NEW j \in JobIds
    PROVE  /\ state'[j] = "ABSENT" /\ ~(j <= lastJob') => jobStatus'[j] = "none"
           /\ state'[j] = "ABSENT" /\ j <= lastJob' => jobStatus'[j] = "forgotten"
           /\ state'[j] = "WAITING" => jobStatus'[j] = "waiting"
           /\ state'[j] \in InFlight => jobStatus'[j] = "running"
           /\ state'[j] = "COMPLETED" => jobStatus'[j] = "completed"
           /\ state'[j] = "FAILED" => jobStatus'[j] = "failed"
           /\ state'[j] = "CANCELLED" => jobStatus'[j] = "cancelled"
BY DEF jobStatus, statusOf, InFlight

\* A job whose state does not change keeps its status, unless its id is new.
LEMMA SameStatus ==
    ASSUME NEW j \in JobIds, state'[j] = state[j],
           (j <= lastJob') = (j <= lastJob)
    PROVE  jobStatus'[j] = jobStatus[j]
BY DEF jobStatus

\* Statuses are equal as soon as they agree on every job.
LEMMA MoveByJob ==
    ASSUME NEW T \in SUBSET JobIds, NEW s,
           \A j \in T : jobStatus'[j] = s,
           \A j \in JobIds \ T : jobStatus'[j] = jobStatus[j]
    PROVE  Queue!Move(T, s)
<1>1. jobStatus' = [j \in JobIds |-> jobStatus'[j]]
  BY DEF jobStatus
<1>2. \A j \in JobIds : jobStatus'[j] = IF j \in T THEN s ELSE jobStatus[j]
  OBVIOUS
<1>3. QED
  BY <1>1, <1>2 DEF Queue!Move

\* It stays when the state does.
LEMMA StatusUnchanged ==
    ASSUME \A j \in JobIds : jobStatus'[j] = jobStatus[j]
    PROVE  jobStatus' = jobStatus
<1>1. /\ jobStatus' = [j \in JobIds |-> jobStatus'[j]]
      /\ jobStatus = [j \in JobIds |-> jobStatus[j]]
  BY DEF jobStatus
<1>2. QED
  BY <1>1

\* Every handler call is a step of the abstract queue, or invisible to it.
LEMMA HandlerRefines ==
    ASSUME IInv, Handler
    PROVE  [Queue!Next]_jobStatus
<1> USE DEF IInv, handlerVars
<1>1. ASSUME NEW n \in 1..MaxJobs, NEW stop \in BOOLEAN, Enqueue(n, stop)
      PROVE  Queue!Next
  <2> DEFINE new == lastJob + 1 .. lastJob + n
  <2>1. new \subseteq JobIds
    BY <1>1, BoundsAssumption DEF Enqueue, JobIds, TypeOK
  <2>2. \A j \in new : ~(j <= lastJob) /\ state[j] = "ABSENT"
    BY <2>1 DEF IdsAreFresh, TypeOK
  <2>3. \A j \in new : jobStatus[j] = "none" /\ jobStatus'[j] = "waiting"
    BY <1>1, <2>1, <2>2, StatusOfJob, StatusOfJobNext DEF Enqueue
  <2>4. \A j \in JobIds \ new : jobStatus'[j] = jobStatus[j]
    <3>1. \A j \in JobIds \ new : state'[j] = state[j]
                                 /\ (j <= lastJob') = (j <= lastJob)
      BY <1>1, BoundsAssumption DEF Enqueue, TypeOK, JobIds
    <3>2. QED
      BY <3>1, SameStatus
  <2>5. Queue!Submit(new)
    BY <2>1, <2>3, <2>4, MoveByJob DEF Queue!Submit
  <2>6. QED
    BY <2>1, <2>5 DEF Queue!Next
<1>2. ASSUME NEW j \in JobIds, Cancel(j) PROVE [Queue!Next]_jobStatus
  <2>1. CASE state[j] = "WAITING" /\ state' = [state EXCEPT ![j] = "CANCELLED"]
    <3>1. jobStatus[j] = "waiting" /\ jobStatus'[j] = "cancelled"
      BY <2>1, StatusOfJob, StatusOfJobNext DEF TypeOK
    <3>2. \A k \in JobIds \ {j} : jobStatus'[k] = jobStatus[k]
      BY <1>2, <2>1, SameStatus DEF Cancel, TypeOK
    <3>3. Queue!Withdraw({j})
      BY <3>1, <3>2, MoveByJob DEF Queue!Withdraw
    <3>4. QED
      BY <3>3 DEF Queue!Next
  <2>2. CASE UNCHANGED state
    BY <1>2, <2>2, SameStatus, StatusUnchanged DEF Cancel
  <2>3. QED
    BY <1>2, <2>1, <2>2 DEF Cancel
<1>3. ASSUME NEW j \in JobIds, Retry(j) PROVE Queue!Next
  <2>1. jobStatus[j] \in {"failed", "cancelled"} /\ jobStatus'[j] = "waiting"
    BY <1>3, StatusOfJob, StatusOfJobNext DEF Retry, TypeOK
  <2>2. \A k \in JobIds \ {j} : jobStatus'[k] = jobStatus[k]
    BY <1>3, SameStatus DEF Retry, TypeOK
  <2>3. Queue!Resubmit(j)
    BY <2>1, <2>2, MoveByJob DEF Queue!Resubmit
  <2>4. QED
    BY <2>3 DEF Queue!Next
<1>4. CASE ClearCompleted
  <2> DEFINE T == {j \in JobIds : state[j] \in {"COMPLETED", "CANCELLED"}}
  <2>1. \A j \in T : j <= lastJob /\ lastJob' = lastJob /\ state'[j] = "ABSENT"
    BY <1>4, BoundsAssumption DEF ClearCompleted, IdsAreFresh, TypeOK, JobIds
  <2>2. \A j \in T : /\ jobStatus[j] \in {"completed", "cancelled"}
                    /\ jobStatus'[j] = "forgotten"
    BY <2>1, StatusOfJob, StatusOfJobNext
  <2>3. \A k \in JobIds \ T : jobStatus'[k] = jobStatus[k]
    BY <1>4, SameStatus DEF ClearCompleted, TypeOK
  <2>4. Queue!Forget(T)
    BY <2>2, <2>3, MoveByJob DEF Queue!Forget
  <2>5. QED
    BY <2>4 DEF Queue!Next
<1>5. CASE Pause \/ Resume \/ Close
  BY <1>5, SameStatus, StatusUnchanged DEF Pause, Resume, SetPaused, Close
<1>6. QED
  BY <1>1, <1>2, <1>3, <1>4, <1>5 DEF Handler

\* Every worker step is a step of the abstract queue, or invisible to it.
LEMMA WorkerRefines ==
    ASSUME IInv, Worker
    PROVE  [Queue!Next]_jobStatus
<1> USE DEF IInv, handlerVars
<1>1. CASE Claim
  <2> DEFINE j == Head(pending)
  <2>1. /\ j \in JobIds
        /\ state[j] = "WAITING" /\ state'[j] = "STARTING"
        /\ \A k \in JobIds \ {j} : state'[k] = state[k]
        /\ lastJob' = lastJob
        /\ \A k \in JobIds : state[k] \notin InFlight
    BY <1>1, OccursTail DEF Claim, CanDequeue, TypeOK, OneInFlight, StateAt
  <2>2. jobStatus[j] = "waiting" /\ jobStatus'[j] = "running"
    BY <2>1, StatusOfJob, StatusOfJobNext DEF InFlight
  <2>3. \A k \in JobIds \ {j} : jobStatus'[k] = jobStatus[k]
    BY <2>1, SameStatus
  <2>4. Queue!Running = {}
    BY <2>1, StatusOfJob DEF Queue!Running, TypeOK, States, Unfinished, InFlight
  <2>5. Queue!Start(j)
    BY <2>1, <2>2, <2>3, <2>4, MoveByJob DEF Queue!Start
  <2>6. QED
    BY <2>1, <2>5 DEF Queue!Next
<1>2. CASE StartTransfer \/ TransferSucceeds
  <2>1. /\ item \in JobIds
        /\ state[item] \in InFlight /\ state'[item] \in InFlight
        /\ \A k \in JobIds \ {item} : state'[k] = state[k]
        /\ lastJob' = lastJob
    BY <1>2 DEF StartTransfer, TransferSucceeds, update, OneInFlight, StateAt,
       InFlight, TypeOK, NoId
  <2>2. jobStatus[item] = "running" /\ jobStatus'[item] = "running"
    BY <2>1, StatusOfJob, StatusOfJobNext
  <2>3. \A k \in JobIds \ {item} : jobStatus'[k] = jobStatus[k]
    BY <2>1, SameStatus
  <2>4. QED
    BY <2>2, <2>3, StatusUnchanged
<1>3. CASE Complete \/ \E result \in {"FAILED", "CANCELLED"} : TransferFails(result)
  <2>1. /\ item \in JobIds
        /\ state[item] \in InFlight
        /\ state'[item] \in {"COMPLETED", "FAILED", "CANCELLED"}
        /\ \A k \in JobIds \ {item} : state'[k] = state[k]
        /\ lastJob' = lastJob
    BY <1>3 DEF Complete, TransferFails, update, OneInFlight, StateAt,
       InFlight, TypeOK, NoId
  <2>2. PICK s \in {"completed", "failed", "cancelled"} :
            jobStatus[item] = "running" /\ jobStatus'[item] = s
    BY <2>1, StatusOfJob, StatusOfJobNext
  <2>3. \A k \in JobIds \ {item} : jobStatus'[k] = jobStatus[k]
    BY <2>1, SameStatus
  <2>4. Queue!End(item, s)
    BY <2>1, <2>2, <2>3, MoveByJob DEF Queue!End
  <2>5. QED
    BY <2>1, <2>4 DEF Queue!Next
<1>4. CASE Settle
  <2> DEFINE T == StoppedBy(item)
  <2>1. /\ T \subseteq JobIds
        /\ \A j \in T : state[j] = "WAITING" /\ state'[j] = "CANCELLED"
        /\ \A k \in JobIds \ T : state'[k] = state[k]
        /\ lastJob' = lastJob
    BY <1>4 DEF Settle, StoppedBy, WaitingIn
  <2> HIDE DEF T
  <2>2. \A j \in T : jobStatus[j] = "waiting" /\ jobStatus'[j] = "cancelled"
    BY <2>1, StatusOfJob, StatusOfJobNext
  <2>3. \A k \in JobIds \ T : jobStatus'[k] = jobStatus[k]
    BY <2>1, SameStatus
  <2>4. Queue!Withdraw(T)
    BY <2>1, <2>2, <2>3, MoveByJob DEF Queue!Withdraw
  <2>5. QED
    BY <2>1, <2>4 DEF Queue!Next
<1>5. CASE Skip \/ Exit \/ Announce
  <2>1. UNCHANGED <<state, lastJob>>
    BY <1>5 DEF Skip, Exit, Announce
  <2>2. QED
    BY <2>1, SameStatus, StatusUnchanged
<1>6. QED
  BY <1>1, <1>2, <1>3, <1>4, <1>5 DEF Worker

\* The transfer queue implements the abstract queue of jobs: one at a time, each
\* accepted Cancel of a waiting job honoured, no running job forgotten.
THEOREM Refinement == Spec => ImplementsWorkQueue
<1>1. Init => Queue!Init
  <2> SUFFICES ASSUME Init PROVE Queue!Init
    OBVIOUS
  <2>1. \A j \in JobIds : ~(j <= lastJob) /\ state[j] = "ABSENT"
    BY BoundsAssumption DEF Init, JobIds
  <2>2. \A j \in JobIds : jobStatus[j] = "none"
    BY <2>1, StatusOfJob
  <2>3. jobStatus = [j \in JobIds |-> jobStatus[j]]
    BY DEF jobStatus
  <2>4. QED
    BY <2>2, <2>3 DEF Queue!Init
<1>2. IInv /\ [Next]_vars => [Queue!Next]_jobStatus
  <2> SUFFICES ASSUME IInv, [Next]_vars PROVE [Queue!Next]_jobStatus
    OBVIOUS
  <2>1. CASE UNCHANGED vars
    BY <2>1 DEF vars, jobStatus
  <2>2. QED
    BY <2>1, HandlerRefines, WorkerRefines DEF Next
<1>3. QED
  BY <1>1, <1>2, Invariance, PTL DEF Spec, ImplementsWorkQueue, Queue!Spec
=============================================================================
