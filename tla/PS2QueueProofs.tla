--------------------------- MODULE PS2QueueProofs ---------------------------
(***************************************************************************)
(* Machine-checked proofs about the PS2 queues, for any number of jobs and *)
(* pending entries: type correctness, the safety invariants (through the   *)
(* inductive invariant IInv) and both action properties.                   *)
(***************************************************************************)
EXTENDS PS2Queue, TLAPS, SequenceTheorems

----------------------------------------------------------------------------
(* Ids that lead a sequence: its first entries are the ids of a set, once   *)
(* each.                                                                    *)

Leads(ids, R) ==
    \E n \in 0..Len(ids) :
        /\ \A i \in 1..n : ids[i] \in R
        /\ \A i, k \in 1..n : ids[i] = ids[k] => i = k
        /\ \A j \in R : \E i \in 1..n : ids[i] = j

\* What is put behind changes nothing.
LEMMA LeadsConcat ==
    ASSUME NEW S, NEW ids \in Seq(S), NEW new \in Seq(S), NEW R, Leads(ids, R)
    PROVE  ids \o new \in Seq(S) /\ Leads(ids \o new, R)
<1>1. /\ ids \o new \in Seq(S)
      /\ Len(ids \o new) = Len(ids) + Len(new)
      /\ Len(ids) \in Nat /\ Len(new) \in Nat
      /\ \A i \in 1..Len(ids) : (ids \o new)[i] = ids[i]
  BY ConcatProperties, LenProperties
<1>2. PICK n \in 0..Len(ids) :
        /\ \A i \in 1..n : ids[i] \in R
        /\ \A i, k \in 1..n : ids[i] = ids[k] => i = k
        /\ \A j \in R : \E i \in 1..n : ids[i] = j
  BY DEF Leads
<1>3. n \in 0..Len(ids \o new) /\ \A i \in 1..n : (ids \o new)[i] = ids[i]
  BY <1>1
<1>4. QED
  BY <1>1, <1>2, <1>3, SMTT(30) DEF Leads

\* An entry at the end of pending leaves those in front of it where they are.
LEMMA LeadsAppend ==
    ASSUME NEW S, NEW ids \in Seq(S), NEW e \in S, NEW R, Leads(ids, R)
    PROVE  Append(ids, e) \in Seq(S) /\ Leads(Append(ids, e), R)
<1>1. /\ Append(ids, e) \in Seq(S)
      /\ Len(Append(ids, e)) = Len(ids) + 1 /\ Len(ids) \in Nat
      /\ \A i \in 1..Len(ids) : Append(ids, e)[i] = ids[i]
  BY LenProperties
<1>2. PICK n \in 0..Len(ids) :
        /\ \A i \in 1..n : ids[i] \in R
        /\ \A i, k \in 1..n : ids[i] = ids[k] => i = k
        /\ \A j \in R : \E i \in 1..n : ids[i] = j
  BY DEF Leads
<1> DEFINE new == Append(ids, e)
<1> HIDE DEF new
<1>3. n \in 0..Len(new) /\ \A i \in 1..n : new[i] = ids[i]
  BY <1>1 DEF new
<1>4. /\ \A i \in 1..n : new[i] \in R
      /\ \A i, k \in 1..n : new[i] = new[k] => i = k
      /\ \A j \in R : \E i \in 1..n : new[i] = j
  BY <1>2, <1>3
<1>5. Leads(new, R)
  BY <1>3, <1>4 DEF Leads
<1>6. QED
  BY <1>1, <1>5 DEF new

\* A new id at the head joins the set.
LEMMA LeadsPush ==
    ASSUME NEW S, NEW ids \in Seq(S), NEW e \in S, NEW R, Leads(ids, R), e \notin R
    PROVE  <<e>> \o ids \in Seq(S) /\ Leads(<<e>> \o ids, R \cup {e})
<1> DEFINE new == <<e>> \o ids
<1>1. /\ new \in Seq(S)
      /\ Len(new) = Len(ids) + 1 /\ Len(ids) \in Nat
      /\ new[1] = e
      /\ \A i \in 1..Len(ids) : new[i + 1] = ids[i]
  <2>1. <<e>> \in Seq(S) /\ Len(<<e>>) = 1 /\ <<e>>[1] = e
    OBVIOUS
  <2>2. /\ new \in Seq(S) /\ Len(new) = 1 + Len(ids)
        /\ \A i \in 1..1 + Len(ids) :
              new[i] = IF i <= 1 THEN <<e>>[i] ELSE ids[i - 1]
    BY <2>1, ConcatProperties
  <2>3. Len(ids) \in Nat
    BY LenProperties
  <2> HIDE DEF new
  <2>4. new[1] = e
    BY <2>1, <2>2, <2>3
  <2>5. \A i \in 1..Len(ids) : i + 1 \in 1..1 + Len(ids) /\ ~(i + 1 <= 1)
                               /\ (i + 1) - 1 = i
    BY <2>3
  <2>6. \A i \in 1..Len(ids) : new[i + 1] = ids[i]
    BY <2>2, <2>5
  <2>7. QED
    BY <2>2, <2>3, <2>4, <2>6
<1>2. PICK n \in 0..Len(ids) :
        /\ \A i \in 1..n : ids[i] \in R
        /\ \A i, k \in 1..n : ids[i] = ids[k] => i = k
        /\ \A j \in R : \E i \in 1..n : ids[i] = j
  BY DEF Leads
<1> HIDE DEF new
<1>3. n + 1 \in 0..Len(new)
  BY <1>1
<1>4. \A i \in 2..n + 1 : i - 1 \in 1..n /\ new[i] = ids[i - 1]
  <2> SUFFICES ASSUME NEW i \in 2..n + 1 PROVE i - 1 \in 1..n /\ new[i] = ids[i - 1]
    OBVIOUS
  <2>1. i - 1 \in 1..n /\ i - 1 \in 1..Len(ids) /\ (i - 1) + 1 = i
    BY <1>1
  <2>2. QED
    BY <1>1, <2>1
<1>5. \A i \in 1..n + 1 : i = 1 \/ i \in 2..n + 1
  OBVIOUS
<1>6. \A i \in 1..n + 1 : new[i] \in R \cup {e}
  BY <1>1, <1>2, <1>4, <1>5
<1>7. ASSUME NEW i \in 1..n + 1, NEW k \in 1..n + 1, new[i] = new[k] PROVE i = k
  <2>1. CASE i = 1 \/ k = 1
    BY <1>1, <1>2, <1>4, <1>5, <1>7, <2>1
  <2>2. CASE i \in 2..n + 1 /\ k \in 2..n + 1
    <3>1. i - 1 = k - 1
      BY <1>2, <1>4, <1>7, <2>2
    <3>2. QED
      BY <3>1
  <2>3. QED
    BY <1>5, <2>1, <2>2
<1>8. ASSUME NEW j \in R \cup {e} PROVE \E i \in 1..n + 1 : new[i] = j
  <2>1. CASE j = e
    BY <1>1, <2>1
  <2>2. CASE j \in R
    <3>1. PICK i \in 1..n : ids[i] = j
      BY <1>2, <2>2
    <3>2. i \in 1..Len(ids) /\ i + 1 \in 1..n + 1
      OBVIOUS
    <3>3. QED
      BY <1>1, <3>1, <3>2
  <2>3. QED
    BY <2>1, <2>2
<1>9. Leads(new, R \cup {e})
  BY <1>3, <1>6, <1>7, <1>8 DEF Leads
<1>10. QED
  BY <1>1, <1>9 DEF new

\* The head is one of the ids, if there are any, and leaves them.
LEMMA LeadsPop ==
    ASSUME NEW S, NEW ids \in Seq(S), ids # <<>>, NEW R, Leads(ids, R)
    PROVE  /\ Head(ids) \in S /\ Tail(ids) \in Seq(S)
           /\ R # {} => Head(ids) \in R
           /\ Leads(Tail(ids), R \ {Head(ids)})
<1>1. /\ Head(ids) \in S /\ Tail(ids) \in Seq(S)
      /\ Len(Tail(ids)) = Len(ids) - 1 /\ Len(ids) \in Nat \ {0}
      /\ Head(ids) = ids[1]
      /\ \A i \in 1..Len(ids) - 1 : Tail(ids)[i] = ids[i + 1]
  BY HeadTailProperties, LenProperties, EmptySeq
<1>2. PICK n \in 0..Len(ids) :
        /\ \A i \in 1..n : ids[i] \in R
        /\ \A i, k \in 1..n : ids[i] = ids[k] => i = k
        /\ \A j \in R : \E i \in 1..n : ids[i] = j
  BY DEF Leads
<1> DEFINE t == Tail(ids)
           h == Head(ids)
<1> HIDE DEF t, h
<1>3. CASE n = 0
  <2>1. R = {}
    BY <1>2, <1>3
  <2>2. 0 \in 0..Len(t)
    BY <1>1 DEF t
  <2>3. Leads(t, {})
    BY <2>2 DEF Leads
  <2>4. QED
    BY <1>1, <2>1, <2>3 DEF t
<1>4. CASE n # 0
  <2>1. n - 1 \in 0..Len(t) /\ 1 \in 1..n
    BY <1>1, <1>4 DEF t
  <2>2. h \in R /\ h = ids[1]
    BY <1>1, <1>2, <2>1 DEF h
  <2>3. \A i \in 1..n - 1 : i + 1 \in 1..n /\ i + 1 # 1 /\ t[i] = ids[i + 1]
    BY <1>1 DEF t
  <2>4. \A i \in 1..n - 1 : t[i] \in R \ {h}
    BY <1>2, <2>1, <2>2, <2>3
  <2>5. ASSUME NEW i \in 1..n - 1, NEW k \in 1..n - 1, t[i] = t[k] PROVE i = k
    <3>1. i + 1 = k + 1
      BY <1>2, <2>3, <2>5
    <3>2. QED
      BY <3>1
  <2>6. ASSUME NEW j \in R \ {h} PROVE \E i \in 1..n - 1 : t[i] = j
    <3>1. PICK i \in 1..n : ids[i] = j
      BY <1>2
    <3>2. i - 1 \in 1..n - 1 /\ (i - 1) + 1 = i
      BY <2>2, <3>1
    <3>3. QED
      BY <2>3, <3>1, <3>2
  <2>7. Leads(t, R \ {h})
    BY <2>1, <2>4, <2>5, <2>6 DEF Leads
  <2>8. QED
    BY <1>1, <2>2, <2>7 DEF t, h
<1>5. QED
  BY <1>3, <1>4

----------------------------------------------------------------------------
(* The inductive invariant.                                                 *)

AtRest  == {"idle", "releasing", "done"}
OnDrive == {"preparing", "installing", "refreshing", "verifying"}
Staged  == OnDrive \cup {"building", "finishing"}

\* The worker's local id is the active job.
WorkerHolds ==
    IF pc \in {"idle", "done"} THEN item = NoId /\ activeID = NoId
    ELSE item \in JobIds /\ activeID = item

\* A job in a stage is the worker's, and the worker is in a stage.
StagesAreTheWorkers ==
    \A j \in JobIds : state[j] = "BUSY" => j = item /\ pc \in Staged

\* Only jobs on a drive end with it.
OnlyDrivesVanish ==
    /\ pc \in OnDrive => kind = "usb"
    /\ err = "unavailable" => kind = "usb"

\* The queue pauses when a job ends: while one runs it is not paused.
PausedAtRest ==
    /\ paused => pc \in AtRest
    /\ pc \notin AtRest => state[item] # "PAUSED"

IdsAreFresh == \A j \in JobIds : j > lastJob => state[j] = "ABSENT"

\* Resumed jobs lead pending, and are neither paused again nor running.
ResumedLead ==
    /\ Leads(pending, resumed)
    /\ \A j \in resumed : state[j] # "PAUSED"
    /\ pc \notin AtRest => item \notin resumed

IInv ==
    /\ TypeOK /\ WorkerHolds /\ StagesAreTheWorkers /\ OnlyDrivesVanish
    /\ PausedAtRest /\ PausedIsResumable /\ IdsAreFresh /\ ResumedLead

----------------------------------------------------------------------------
(* Type correctness.                                                        *)

\* A function on 1..n is a sequence.
LEMMA FunctionIsSeq ==
    ASSUME NEW S, NEW n \in Nat, NEW f \in [1..n -> S]
    PROVE  f \in Seq(S)
OBVIOUS

\* The ids of a submission are jobs.
LEMMA NewJobsAreJobs ==
    ASSUME TypeOK, NEW n \in 1..MaxJobs, lastJob + n <= MaxJobs
    PROVE  NewJobs(n) \in Seq(JobIds)
<1>1. n \in Nat /\ lastJob \in Nat /\ \A i \in 1..n : lastJob + i \in JobIds
  BY PS2Assumption DEF TypeOK, JobIds
<1>2. NewJobs(n) \in [1..n -> JobIds]
  BY <1>1 DEF NewJobs
<1>3. QED
  BY <1>1, <1>2, FunctionIsSeq

\* The sequences that the queue makes of pending.
LEMMA PendingTypes ==
    ASSUME TypeOK
    PROVE  /\ \A j \in JobIds : /\ Append(pending, j) \in Seq(JobIds)
                                /\ <<j>> \o pending \in Seq(JobIds)
           /\ pending # <<>> => /\ Head(pending) \in JobIds
                                /\ Tail(pending) \in Seq(JobIds)
<1>1. \A j \in JobIds : <<j>> \in Seq(JobIds)
  OBVIOUS
<1>2. QED
  BY <1>1, HeadTailProperties, ConcatProperties, AppendProperties DEF TypeOK

\* The queue begins with its types.
LEMMA InitTypeOK == Init => TypeOK
<1> SUFFICES ASSUME Init PROVE TypeOK
  OBVIOUS
<1>1. <<>> \in Seq(JobIds) /\ 0 \in 0..MaxJobs
  BY EmptySeq, PS2Assumption
<1>2. state \in [JobIds -> States]
  BY DEF Init, States
<1>3. QED
  BY <1>1, <1>2 DEF Init, TypeOK, NoId, Points, Failures

\* Every handler and every step of the worker keeps the types.
LEMMA TypeOKStep == TypeOK /\ [Next]_vars => TypeOK'
<1> SUFFICES ASSUME TypeOK, [Next]_vars PROVE TypeOK'
  OBVIOUS
<1> USE PS2Assumption DEF TypeOK, JobIds, NoId, States, Points, Failures
<1>1. ASSUME NEW n \in 1..MaxJobs, Enqueue(n) PROVE TypeOK'
  <2>1. pending' \in Seq(JobIds)
    BY <1>1, NewJobsAreJobs, ConcatProperties DEF Enqueue
  <2>2. QED
    BY <1>1, <2>1 DEF Enqueue
<1>2. ASSUME NEW j \in JobIds, Cancel(j) PROVE TypeOK'
  BY <1>2 DEF Cancel
<1>3. ASSUME NEW j \in JobIds, Retry(j) PROVE TypeOK'
  <2>1. pending' \in Seq(JobIds)
    BY <1>3, PendingTypes DEF Retry
  <2>2. QED
    BY <1>3, <2>1 DEF Retry
<1>4. CASE ClearCompleted
  BY <1>4 DEF ClearCompleted
<1>5. CASE Close
  BY <1>5 DEF Close
<1>6. CASE Plug \/ Refresh
  BY <1>6 DEF Plug, Refresh, users
<1>7. CASE Skip \/ Claim
  <2>1. Head(pending) \in JobIds /\ Tail(pending) \in Seq(JobIds)
    BY <1>7, PendingTypes DEF Skip, Claim, CanDequeue
  <2>2. QED
    BY <1>7, <2>1 DEF Skip, Claim
<1>8. CASE Exit \/ Release
  BY <1>8 DEF Exit, Release, users
<1>9. CASE FirstStage
  BY <1>9 DEF FirstStage, update, still
<1>10. CASE BuildRefused \/ PrepareFails \/ Validate \/ Install
  BY <1>10 DEF BuildRefused, PrepareFails, Validate, Install, Return, still
<1>11. ASSUME NEW e \in Failures, InstallFails(e) \/ BuildFails(e) PROVE TypeOK'
  BY <1>11 DEF InstallFails, BuildFails, Return, still
<1>12. CASE Explain \/ Verify \/ VerifyFails
  BY <1>12 DEF Explain, Verify, VerifyFails, Return, still
<1>13. CASE Build
  BY <1>13 DEF Build, update, Return, still
<1>14. CASE Finish
  BY <1>14 DEF Finish, update
<1>15. CASE UNCHANGED vars
  BY <1>15 DEF vars, users
<1>16. QED
  BY <1>1, <1>2, <1>3, <1>4, <1>5, <1>6, <1>7, <1>8, <1>9, <1>10, <1>11, <1>12,
     <1>13, <1>14, <1>15 DEF Next, Worker

\* The queue, its worker and the drive keep their types in every behavior.
THEOREM TypeCorrect == Spec => []TypeOK
BY InitTypeOK, TypeOKStep, PTL DEF Spec

----------------------------------------------------------------------------
(* The inductive invariant, one action at a time.                           *)

\* And within the invariant.
LEMMA InitInv == Init => IInv
<1> SUFFICES ASSUME Init PROVE IInv
  OBVIOUS
<1>1. TypeOK
  BY InitTypeOK
<1>2. Leads(<<>>, {})
  BY DEF Leads
<1>3. QED
  BY <1>1, <1>2 DEF Init, IInv, WorkerHolds, StagesAreTheWorkers, OnlyDrivesVanish,
     PausedAtRest, PausedIsResumable, IdsAreFresh, ResumedLead, AtRest, OnDrive

\* The handlers.  The ids of a submission are fresh: it overwrites no job.
LEMMA EnqueueStep ==
    ASSUME IInv, NEW n \in 1..MaxJobs, Enqueue(n)
    PROVE  IInv'
<1> DEFINE new == lastJob + 1 .. lastJob + n
<1>1. TypeOK'
  BY TypeOKStep DEF Next, IInv
<1>2. /\ lastJob \in Nat /\ n \in Nat /\ lastJob' = lastJob + n
      /\ state' = [j \in JobIds |-> IF j \in new THEN "WAITING" ELSE state[j]]
      /\ UNCHANGED <<kind, paused, activeID, pc, item, err, resumed>>
  BY DEF Enqueue, IInv, TypeOK
<1>3. \A j \in JobIds : \/ state'[j] = state[j] /\ (j > lastJob' => j > lastJob)
                        \/ j \in new /\ state[j] = "ABSENT" /\ state'[j] = "WAITING"
                           /\ ~(j > lastJob')
  BY <1>2 DEF IInv, IdsAreFresh, JobIds
<1>4. WorkerHolds' /\ StagesAreTheWorkers' /\ OnlyDrivesVanish'
  BY <1>2, <1>3 DEF IInv, WorkerHolds, StagesAreTheWorkers, OnlyDrivesVanish
<1>5. PausedAtRest' /\ PausedIsResumable' /\ IdsAreFresh'
  <2>1. pc \notin AtRest => item \in JobIds
    BY DEF IInv, WorkerHolds, AtRest
  <2>2. QED
    BY <1>2, <1>3, <2>1 DEF IInv, PausedAtRest, PausedIsResumable, IdsAreFresh
<1>6. ResumedLead'
  <2>1. Leads(pending', resumed)
    BY NewJobsAreJobs, LeadsConcat DEF Enqueue, IInv, TypeOK, ResumedLead
  <2>2. resumed \subseteq JobIds
    BY DEF IInv, TypeOK
  <2>3. QED
    BY <1>2, <1>3, <2>1, <2>2 DEF IInv, ResumedLead
<1>7. QED
  BY <1>1, <1>4, <1>5, <1>6 DEF IInv

\* Only the Cancel of a paused job resumes the queue.
LEMMA CancelStep ==
    ASSUME IInv, NEW j \in JobIds, Cancel(j)
    PROVE  IInv'
<1>1. TypeOK'
  BY TypeOKStep DEF Next, IInv
<1>2. /\ UNCHANGED <<kind, lastJob, pending, activeID, pc, item, err, resumed>>
      /\ \/ /\ state[j] \in {"WAITING", "PAUSED"}
            /\ state' = [state EXCEPT ![j] = "CANCELLED"]
            /\ paused' = (paused /\ state[j] # "PAUSED")
         \/ UNCHANGED <<state, paused>>
  BY DEF Cancel
<1>3. CASE UNCHANGED <<state, paused>>
  BY <1>1, <1>2, <1>3 DEF IInv, WorkerHolds, StagesAreTheWorkers, OnlyDrivesVanish,
     PausedAtRest, PausedIsResumable, IdsAreFresh, ResumedLead
<1>4. CASE /\ state[j] \in {"WAITING", "PAUSED"}
           /\ state' = [state EXCEPT ![j] = "CANCELLED"]
           /\ paused' = (paused /\ state[j] # "PAUSED")
  <2>1. \A k \in JobIds : state'[k] = IF k = j THEN "CANCELLED" ELSE state[k]
    BY <1>4 DEF IInv, TypeOK
  <2>2. WorkerHolds' /\ StagesAreTheWorkers' /\ OnlyDrivesVanish'
    BY <1>2, <2>1 DEF IInv, WorkerHolds, StagesAreTheWorkers, OnlyDrivesVanish
  <2>3. pc \notin AtRest => item \in JobIds
    BY DEF IInv, WorkerHolds, AtRest
  <2>4. PausedAtRest'
    <3>1. paused' => paused
      BY <1>4
    <3>2. QED
      BY <1>2, <2>1, <2>3, <3>1 DEF IInv, PausedAtRest
  <2>5. PausedIsResumable'
    BY <1>2, <1>4, <2>1 DEF IInv, PausedIsResumable
  <2>6. IdsAreFresh'
    BY <1>2, <1>4, <2>1 DEF IInv, IdsAreFresh
  <2>7. ResumedLead'
    BY <1>2, <2>1 DEF IInv, ResumedLead, TypeOK
  <2>8. QED
    BY <1>1, <2>2, <2>4, <2>5, <2>6, <2>7 DEF IInv
<1>5. QED
  BY <1>2, <1>3, <1>4

\* A paused job goes to the head, and was not among the resumed ones.
LEMMA RetryStep ==
    ASSUME IInv, NEW j \in JobIds, Retry(j)
    PROVE  IInv'
<1>1. TypeOK'
  BY TypeOKStep DEF Next, IInv
<1>2. /\ UNCHANGED <<kind, lastJob, activeID, pc, item, err>>
      /\ state[j] \in {"FAILED", "CANCELLED", "PAUSED"}
      /\ paused' = FALSE
      /\ \A k \in JobIds : state'[k] = IF k = j THEN "WAITING" ELSE state[k]
  BY DEF Retry, IInv, TypeOK
<1>3. pc \notin AtRest => item \in JobIds
  BY DEF IInv, WorkerHolds, AtRest
<1>4. WorkerHolds' /\ StagesAreTheWorkers' /\ OnlyDrivesVanish'
  BY <1>2 DEF IInv, WorkerHolds, StagesAreTheWorkers, OnlyDrivesVanish
<1>5. PausedAtRest' /\ PausedIsResumable' /\ IdsAreFresh'
  BY <1>2, <1>3 DEF IInv, PausedAtRest, PausedIsResumable, IdsAreFresh
<1>6. Leads(pending, resumed) /\ pending \in Seq(JobIds) /\ resumed \subseteq JobIds
  BY DEF IInv, ResumedLead, TypeOK
<1>7. CASE state[j] = "PAUSED"
  <2>1. j \notin resumed /\ (pc \notin AtRest => j # item)
    BY <1>7 DEF IInv, ResumedLead, PausedAtRest
  <2>2. pending' = <<j>> \o pending /\ resumed' = resumed \cup {j}
    BY <1>7 DEF Retry
  <2>3. Leads(pending', resumed')
    BY <1>6, <2>1, <2>2, LeadsPush
  <2>4. QED
    BY <1>1, <1>2, <1>4, <1>5, <1>6, <2>1, <2>2, <2>3 DEF IInv, ResumedLead
<1>8. CASE state[j] # "PAUSED"
  <2>1. pending' = Append(pending, j) /\ resumed' = resumed
    BY <1>8 DEF Retry
  <2>2. Leads(pending', resumed')
    BY <1>6, <2>1, LeadsAppend
  <2>3. QED
    BY <1>1, <1>2, <1>4, <1>5, <1>6, <2>1, <2>2 DEF IInv, ResumedLead
<1>9. QED
  BY <1>7, <1>8

\* Clearing removes no job that waits or is paused.
LEMMA ClearCompletedStep == IInv /\ ClearCompleted => IInv'
<1> SUFFICES ASSUME IInv, ClearCompleted PROVE IInv'
  OBVIOUS
<1>1. TypeOK'
  BY TypeOKStep DEF Next, IInv
<1>2. /\ UNCHANGED <<kind, lastJob, pending, paused, activeID, pc, item, err, resumed>>
      /\ \A k \in JobIds :
            \/ state'[k] = state[k]
            \/ state'[k] = "ABSENT" /\ state[k] # "PAUSED"
  BY DEF ClearCompleted
<1>3. pc \notin AtRest => item \in JobIds
  BY DEF IInv, WorkerHolds, AtRest
<1>4. WorkerHolds' /\ StagesAreTheWorkers' /\ OnlyDrivesVanish'
  BY <1>2 DEF IInv, WorkerHolds, StagesAreTheWorkers, OnlyDrivesVanish
<1>5. PausedAtRest' /\ PausedIsResumable' /\ IdsAreFresh'
  BY <1>2, <1>3 DEF IInv, PausedAtRest, PausedIsResumable, IdsAreFresh
<1>6. ResumedLead'
  BY <1>2 DEF IInv, ResumedLead, TypeOK
<1>7. QED
  BY <1>1, <1>4, <1>5, <1>6 DEF IInv

\* What is about none of the variables of the invariant.
LEMMA OutsideStep == IInv /\ (Close \/ Plug \/ Refresh \/ UNCHANGED vars) => IInv'
<1> SUFFICES ASSUME IInv, Close \/ Plug \/ Refresh \/ UNCHANGED vars PROVE IInv'
  OBVIOUS
<1>1. TypeOK'
  BY TypeOKStep DEF Next, IInv
<1>2. UNCHANGED <<kind, state, lastJob, pending, paused, activeID, pc, item, err,
                  resumed>>
  BY DEF Close, Plug, Refresh, vars, users
<1>3. QED
  BY <1>1, <1>2 DEF IInv, WorkerHolds, StagesAreTheWorkers, OnlyDrivesVanish,
     PausedAtRest, PausedIsResumable, IdsAreFresh, ResumedLead

\* The worker reaches the head of pending: a resumed job, if there is one.
LEMMA DequeueStep == IInv /\ (Skip \/ Claim) => IInv'
<1> SUFFICES ASSUME IInv, Skip \/ Claim PROVE IInv'
  OBVIOUS
<1>1. TypeOK'
  BY TypeOKStep DEF Next, Worker, IInv
<1>2. /\ UNCHANGED <<kind, state, lastJob, paused, err>>
      /\ pc = "idle" /\ ~paused /\ pending # <<>>
      /\ pending' = Tail(pending) /\ resumed' = resumed \ {Head(pending)}
      /\ Head(pending) \in JobIds
      /\ \/ UNCHANGED <<activeID, pc, item>>
         \/ /\ pc' = "claimed" /\ item' = Head(pending)
            /\ activeID' = item' /\ state[item'] = "WAITING"
  BY PendingTypes DEF Skip, Claim, CanDequeue, IInv, TypeOK
<1>3. WorkerHolds' /\ StagesAreTheWorkers' /\ OnlyDrivesVanish'
  BY <1>2 DEF IInv, WorkerHolds, StagesAreTheWorkers, OnlyDrivesVanish, Staged,
              OnDrive
<1>4. PausedAtRest' /\ PausedIsResumable' /\ IdsAreFresh'
  BY <1>2 DEF IInv, PausedAtRest, PausedIsResumable, IdsAreFresh, AtRest
<1>5. ResumedLead'
  <2>1. Leads(pending', resumed')
    BY <1>2, LeadsPop DEF IInv, ResumedLead, TypeOK
  <2>2. QED
    BY <1>2, <2>1 DEF IInv, ResumedLead, AtRest
<1>6. QED
  BY <1>1, <1>3, <1>4, <1>5 DEF IInv

\* The worker is between two jobs: none is in a stage.
LEMMA ExitStep == IInv /\ (Exit \/ Release) => IInv'
<1> SUFFICES ASSUME IInv, Exit \/ Release PROVE IInv'
  OBVIOUS
<1>1. TypeOK'
  BY TypeOKStep DEF Next, Worker, IInv
<1>2. /\ UNCHANGED <<kind, state, lastJob, pending, paused, resumed>>
      /\ pc \in {"idle", "releasing"} /\ pc' \in {"idle", "done"}
      /\ \/ pc = "idle" /\ UNCHANGED <<activeID, item, err>>
         \/ activeID' = NoId /\ item' = NoId /\ err' = "none"
  BY DEF Exit, Release, users
<1>3. WorkerHolds' /\ StagesAreTheWorkers' /\ OnlyDrivesVanish'
  BY <1>2 DEF IInv, WorkerHolds, StagesAreTheWorkers, OnlyDrivesVanish, Staged,
              OnDrive
<1>4. PausedAtRest' /\ PausedIsResumable' /\ IdsAreFresh' /\ ResumedLead'
  BY <1>2 DEF IInv, PausedAtRest, PausedIsResumable, IdsAreFresh, ResumedLead, AtRest
<1>5. QED
  BY <1>1, <1>3, <1>4 DEF IInv

\* A stage ends without touching the job.
LEMMA StageStep ==
    ASSUME IInv, TypeOK', pc \in (Staged \ {"finishing"}) \cup {"claimed"},
           pc' \in OnDrive => kind = "usb", pc' \in Staged,
           err' = "unavailable" => kind = "usb",
           UNCHANGED <<state, still>>
    PROVE  IInv'
<1>1. WorkerHolds' /\ StagesAreTheWorkers' /\ OnlyDrivesVanish'
  BY DEF IInv, WorkerHolds, StagesAreTheWorkers, OnlyDrivesVanish, Staged, OnDrive,
         still
<1>2. PausedAtRest' /\ PausedIsResumable' /\ IdsAreFresh' /\ ResumedLead'
  BY DEF IInv, PausedAtRest, PausedIsResumable, IdsAreFresh, ResumedLead, AtRest,
         Staged, OnDrive, still
<1>3. QED
  BY <1>1, <1>2 DEF IInv

\* The job is reported in its first stage, or as built.
LEMMA ReportStep ==
    ASSUME IInv, TypeOK', pc \in {"claimed", "building"},
           pc' \in OnDrive => kind = "usb", pc' \in Staged,
           err' = "unavailable" => kind = "usb",
           UNCHANGED still,
           NEW s \in {"BUSY", "COMPLETED"}, update(s)
    PROVE  IInv'
<1>1. /\ UNCHANGED <<kind, lastJob, pending, paused, activeID, item, resumed>>
      /\ item \in JobIds
      /\ \A j \in JobIds : \/ state'[j] = state[j]
                           \/ /\ j = item /\ state[j] # "ABSENT"
                              /\ state'[j] \in {"BUSY", "COMPLETED"}
  BY DEF still, update, IInv, WorkerHolds, TypeOK
<1>2. WorkerHolds' /\ StagesAreTheWorkers' /\ OnlyDrivesVanish'
  BY <1>1 DEF IInv, WorkerHolds, StagesAreTheWorkers, OnlyDrivesVanish, Staged,
              OnDrive
<1>3. ~paused
  BY DEF IInv, PausedAtRest, AtRest
<1>4. PausedAtRest' /\ PausedIsResumable' /\ IdsAreFresh'
  BY <1>1, <1>3 DEF IInv, PausedAtRest, PausedIsResumable, IdsAreFresh, AtRest
<1>5. ResumedLead'
  BY <1>1 DEF IInv, ResumedLead, AtRest, TypeOK
<1>6. QED
  BY <1>1, <1>2, <1>4, <1>5 DEF IInv

\* The job ends; the queue pauses with it only when it becomes PAUSED.
LEMMA FinishStep == IInv /\ Finish => IInv'
<1> SUFFICES ASSUME IInv, Finish PROVE IInv'
  OBVIOUS
<1>1. TypeOK'
  BY TypeOKStep DEF Next, Worker, IInv
<1>2. PICK s \in {"COMPLETED", "CANCELLED", "FAILED", "PAUSED"} :
        update(s) /\ (s = "PAUSED" <=> err = "unavailable")
  BY DEF Finish, IInv, TypeOK, Failures
<1>3. /\ UNCHANGED <<kind, lastJob, pending, activeID, item, err, resumed>>
      /\ pc = "finishing" /\ pc' = "releasing" /\ item \in JobIds
      /\ \A j \in JobIds :
            state'[j] = IF j = item /\ state[item] # "ABSENT" THEN s ELSE state[j]
  BY <1>2 DEF Finish, update, IInv, WorkerHolds, TypeOK
<1>4. WorkerHolds' /\ StagesAreTheWorkers' /\ OnlyDrivesVanish'
  BY <1>3 DEF IInv, WorkerHolds, StagesAreTheWorkers, OnlyDrivesVanish, Staged,
              OnDrive
<1>5. PausedAtRest' /\ IdsAreFresh'
  BY <1>3 DEF IInv, PausedAtRest, IdsAreFresh, AtRest
<1>6. PausedIsResumable'
  <2>1. ~paused
    BY <1>3 DEF IInv, PausedAtRest, AtRest
  <2>2. paused' => err = "unavailable" /\ state[item] # "ABSENT"
    BY <2>1 DEF Finish
  <2>3. paused' => s = "PAUSED" /\ state'[item] = "PAUSED" /\ kind = "usb"
    BY <1>2, <1>3, <2>2 DEF IInv, OnlyDrivesVanish
  <2>4. QED
    BY <1>3, <2>3 DEF PausedIsResumable
<1>7. ResumedLead'
  <2>1. item \notin resumed
    BY <1>3 DEF IInv, ResumedLead, AtRest
  <2>2. QED
    BY <1>3, <2>1 DEF IInv, ResumedLead, AtRest, TypeOK
<1>8. QED
  BY <1>1, <1>4, <1>5, <1>6, <1>7 DEF IInv

\* Every step keeps the invariant.
LEMMA IInvStep == IInv /\ [Next]_vars => IInv'
<1> SUFFICES ASSUME IInv, [Next]_vars PROVE IInv'
  OBVIOUS
<1>1. TypeOK'
  BY TypeOKStep DEF IInv
<1>2. pc \in OnDrive => kind = "usb"
  BY DEF IInv, OnlyDrivesVanish
<1>3. err = "unavailable" => kind = "usb"
  BY DEF IInv, OnlyDrivesVanish
<1>4. CASE FirstStage
  <2>1. pc = "claimed" /\ UNCHANGED <<still, err>> /\ update("BUSY")
        /\ pc' = IF kind = "usb" THEN "preparing" ELSE "building"
    BY <1>4 DEF FirstStage
  <2>2. QED
    BY <1>1, <1>3, <2>1, ReportStep DEF OnDrive, Staged
<1>5. CASE Build
  <2>1. /\ pc = "building" /\ pc' = "finishing" /\ err' = "none"
        /\ UNCHANGED still /\ update("COMPLETED")
    BY <1>5 DEF Build, Return
  <2>2. QED
    BY <1>1, <2>1, ReportStep DEF OnDrive, Staged
<1>6. CASE BuildRefused \/ VerifyFails \/ Install \/ \E e \in Failures : BuildFails(e)
  <2>1. /\ pc \in {"claimed", "verifying", "installing", "building"}
        /\ \/ pc' = "finishing" /\ err' \in Failures
           \/ pc = "installing" /\ pc' = "verifying" /\ err' = err
    BY <1>6 DEF BuildRefused, VerifyFails, Install, BuildFails, Return, Failures
  <2>2. UNCHANGED <<state, still>>
    BY <1>6 DEF BuildRefused, VerifyFails, Install, BuildFails
  <2>3. QED
    BY <1>1, <1>2, <1>3, <2>1, <2>2, StageStep DEF OnDrive, Staged, Failures
<1>7. CASE PrepareFails \/ Validate \/ Explain \/ Verify
           \/ \E e \in Failures : InstallFails(e)
  <2>1. /\ pc \in OnDrive /\ pc' \in Staged
        /\ UNCHANGED <<state, still>>
    BY <1>7 DEF PrepareFails, Validate, Explain, Verify, InstallFails, Return,
                OnDrive, Staged
  <2>2. QED
    BY <1>1, <1>2, <2>1, StageStep DEF OnDrive, Staged
<1>8. QED
  BY <1>4, <1>5, <1>6, <1>7, EnqueueStep, CancelStep, RetryStep, ClearCompletedStep,
     OutsideStep, DequeueStep, ExitStep, FinishStep DEF Next, Worker

\* IInv holds in every reachable state.
THEOREM Invariance == Spec => []IInv
BY InitInv, IInvStep, PTL DEF Spec

----------------------------------------------------------------------------
(* What follows from it.                                                    *)

\* A job in a stage is the active one, for any number of jobs.
THEOREM StagesHaveAWorker == Spec => []OneActiveJob
<1>1. IInv => OneActiveJob
  BY DEF IInv, StagesAreTheWorkers, WorkerHolds, OneActiveJob, Staged, OnDrive
<1>2. QED
  BY <1>1, Invariance, PTL

\* A paused queue has a paused job to retry or cancel: it is never paused for good.
THEOREM PausedQueuesResume == Spec => []PausedIsResumable
<1>1. IInv => PausedIsResumable
  BY DEF IInv
<1>2. QED
  BY <1>1, Invariance, PTL

\* A job that its drive interrupted is claimed before any other, however often
\* others were submitted, cancelled and retried since.
THEOREM ResumedJobsGoFirst == Spec => ResumedGoesFirst
<1> DEFINE A == /\ activeID' \notin {NoId, activeID}
                /\ \E j \in resumed : state[j] = "WAITING"
                => activeID' \in resumed
<1>1. IInv /\ [Next]_vars => [A]_vars
  <2> SUFFICES ASSUME IInv, [Next]_vars, activeID' \notin {NoId, activeID},
                      NEW j \in resumed
               PROVE  activeID' \in resumed
    OBVIOUS
  <2>1. Claim
    BY DEF Next, Worker, vars, Enqueue, Cancel, Retry, ClearCompleted, Close, Plug,
       Refresh, Skip, Exit, FirstStage, BuildRefused, PrepareFails, Validate, Install,
       InstallFails, Explain, Verify, VerifyFails, Build, BuildFails, Finish, Release,
       still
  <2>2. activeID' = Head(pending) /\ pending # <<>>
    BY <2>1 DEF Claim, CanDequeue
  <2>3. Head(pending) \in resumed
    BY <2>2, LeadsPop DEF IInv, ResumedLead, TypeOK
  <2>4. QED
    BY <2>2, <2>3
<1>2. QED
  BY <1>1, Invariance, PTL DEF Spec, ResumedGoesFirst

\* A cancelled, completed or cleared job starts only in the window of its claim.
THEOREM CancelIsKept == Spec => CancelledStartsOnlyIfClaimed
<1> DEFINE A == \A j \in JobIds :
                  state[j] \in {"CANCELLED", "COMPLETED", "ABSENT"} =>
                      /\ activeID' = j => activeID = j
                      /\ state'[j] = "BUSY" => pc = "claimed" /\ item = j
<1>1. TypeOK /\ [Next]_vars => [A]_vars
  <2> SUFFICES ASSUME TypeOK, [Next]_vars, NEW j \in JobIds,
                      state[j] \in {"CANCELLED", "COMPLETED", "ABSENT"}
               PROVE  /\ activeID' = j => activeID = j
                      /\ state'[j] = "BUSY" => pc = "claimed" /\ item = j
    OBVIOUS
  <2>1. activeID' = j => activeID = j
    <3>1. \/ activeID' = activeID \/ activeID' = NoId
          \/ activeID' = Head(pending) /\ state[Head(pending)] = "WAITING"
      BY DEF Next, Worker, vars, Enqueue, Cancel, Retry, ClearCompleted, Close, Plug,
         Refresh, Skip, Claim, Exit, FirstStage, BuildRefused, PrepareFails, Validate,
         Install, InstallFails, Explain, Verify, VerifyFails, Build, BuildFails,
         Finish, Release, still
    <3>2. NoId \notin JobIds
      BY PS2Assumption DEF NoId, JobIds
    <3>3. QED
      BY <3>1, <3>2
  <2>2. CASE FirstStage
    BY <2>2, <2>1 DEF FirstStage, update, TypeOK
  <2>3. CASE ~FirstStage
    <3>1. state'[j] # "BUSY"
      BY <2>3 DEF TypeOK, Next, Worker, vars, users, Enqueue, Cancel, Retry,
         ClearCompleted, Close, Plug, Refresh, Skip, Claim, Exit, BuildRefused,
         PrepareFails, Validate, Install, InstallFails, Explain, Verify, VerifyFails,
         Build, BuildFails, Finish, Release, Return, update, still, Failures
    <3>2. QED
      BY <2>1, <3>1
  <2>4. QED
    BY <2>2, <2>3
<1>2. QED
  BY <1>1, TypeCorrect, PTL DEF Spec, CancelledStartsOnlyIfClaimed
=============================================================================
