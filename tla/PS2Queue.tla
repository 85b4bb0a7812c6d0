------------------------------ MODULE PS2Queue ------------------------------
(***************************************************************************)
(* The two PS2 queues: ps2.Queue, which writes games to a USB drive, and   *)
(* ps2.FPKGQueue, which builds PS4 packages.  Both have one worker and the *)
(* handlers of TransferQueue, without Pause and Resume.  The USB queue     *)
(* pauses itself when a job finds its drive gone, until that job or any    *)
(* other is retried, or a paused one cancelled.  A claimed job stays       *)
(* WAITING until its first stage is reported.                              *)
(*                                                                         *)
(* The drive is taken out and put back at any time; known is what the last *)
(* Refresh of the USBManager saw.  One action is one critical section or   *)
(* one step of Process or Build.                                           *)
(***************************************************************************)
EXTENDS Naturals, Sequences

CONSTANTS
    MaxJobs,    \* bound: jobs ever created
    MaxPending  \* bound: a Retry is offered while pending is shorter than this

ASSUME PS2Assumption == {MaxJobs, MaxPending} \subseteq Nat

JobIds == 1..MaxJobs
NoId   == 0

\* BUSY is every stage from PREPARING to VERIFYING, or EXTRACTING to VERIFYING.
States == {"ABSENT", "WAITING", "BUSY", "COMPLETED", "FAILED", "CANCELLED",
           "PAUSED"}

VARIABLES
    kind,      \* "usb" or "fpkg"
    state,     \* items[id].State
    lastJob,   \* job ids handed out
    pending,   \* the FIFO of job ids; may hold stale and repeated ids
    paused,
    closed,
    activeID,
    stopped,   \* the context of the active job is cancelled
    drive,     \* the drive is plugged in
    known,     \* the USBManager lists it
    pc,
    item,      \* the worker's local id
    err,       \* how Process or Build returns
    resumed    \* history: jobs that were PAUSED when they were retried and that
               \* the worker has not reached since

users == <<state, lastJob, pending, paused, closed, resumed>>
vars  == <<kind, users, activeID, stopped, drive, known, pc, item, err>>

Points == {"idle", "claimed", "preparing", "installing", "refreshing",
           "verifying", "building", "finishing", "releasing", "done"}

Init ==
    /\ kind \in {"usb", "fpkg"}
    /\ state = [j \in JobIds |-> "ABSENT"]
    /\ lastJob = 0
    /\ pending = <<>>
    /\ paused = FALSE
    /\ closed = FALSE
    /\ activeID = NoId
    /\ stopped = FALSE
    /\ drive \in BOOLEAN
    /\ known = FALSE
    /\ pc = "idle"
    /\ item = NoId
    /\ err = "none"
    /\ resumed = {}

----------------------------------------------------------------------------
(* The handlers.                                                            *)

\* Mutant: ids counted from the last one handed out.
NewJobs_OffByOne(n) == [i \in 1..n |-> lastJob + i - 1]

NewJobs(n) == [i \in 1..n |-> lastJob + i]

Enqueue(n) ==
    /\ ~closed
    /\ lastJob + n <= MaxJobs
    /\ lastJob' = lastJob + n
    /\ state' = [j \in JobIds |-> IF j \in lastJob + 1 .. lastJob + n
                                  THEN "WAITING" ELSE state[j]]
    /\ pending' = pending \o NewJobs(n)
    /\ UNCHANGED <<kind, paused, closed, activeID, stopped, drive, known, pc,
                   item, err, resumed>>

\* Mutant: cancelling the paused job leaves the queue paused.
Cancel_StaysPaused(j) ==
    /\ \/ /\ state[j] \in {"WAITING", "PAUSED"}
          /\ state' = [state EXCEPT ![j] = "CANCELLED"]
          /\ UNCHANGED stopped
       \/ /\ state[j] = "BUSY" /\ activeID = j
          /\ stopped' = TRUE
          /\ UNCHANGED state
    /\ UNCHANGED <<kind, lastJob, pending, paused, closed, activeID, drive,
                   known, pc, item, err, resumed>>

Cancel(j) ==
    /\ \/ /\ state[j] \in {"WAITING", "PAUSED"}
          /\ state' = [state EXCEPT ![j] = "CANCELLED"]
          /\ paused' = (paused /\ state[j] # "PAUSED")
          /\ UNCHANGED stopped
       \/ /\ state[j] = "BUSY" /\ activeID = j
          /\ stopped' = TRUE
          /\ UNCHANGED <<state, paused>>
    /\ UNCHANGED <<kind, lastJob, pending, closed, activeID, drive, known, pc,
                   item, err, resumed>>

\* Mutant: a paused job goes to the end like any other.
Retry_AtEnd(j) ==
    /\ state[j] \in {"FAILED", "CANCELLED", "PAUSED"}
    /\ Len(pending) < MaxPending
    /\ state' = [state EXCEPT ![j] = "WAITING"]
    /\ paused' = FALSE
    /\ pending' = Append(pending, j)
    /\ resumed' = IF state[j] = "PAUSED" THEN resumed \cup {j} ELSE resumed
    /\ UNCHANGED <<kind, lastJob, closed, activeID, stopped, drive, known, pc,
                   item, err>>

\* A Retry of any job resumes the queue; a paused job goes to its head.
Retry(j) ==
    /\ state[j] \in {"FAILED", "CANCELLED", "PAUSED"}
    /\ Len(pending) < MaxPending
    /\ state' = [state EXCEPT ![j] = "WAITING"]
    /\ paused' = FALSE
    /\ IF state[j] = "PAUSED"
       THEN pending' = <<j>> \o pending /\ resumed' = resumed \cup {j}
       ELSE pending' = Append(pending, j) /\ UNCHANGED resumed
    /\ UNCHANGED <<kind, lastJob, closed, activeID, stopped, drive, known, pc,
                   item, err>>

ClearCompleted ==
    /\ \E j \in JobIds : state[j] \in {"COMPLETED", "CANCELLED"}
    /\ state' = [j \in JobIds |-> IF state[j] \in {"COMPLETED", "CANCELLED"}
                                  THEN "ABSENT" ELSE state[j]]
    /\ UNCHANGED <<kind, lastJob, pending, paused, closed, activeID, stopped,
                   drive, known, pc, item, err, resumed>>

\* A second Close only waits; the wait for the worker is not a step.
Close ==
    /\ closed' = TRUE
    /\ stopped' = TRUE
    /\ UNCHANGED <<kind, state, lastJob, pending, paused, activeID, drive, known,
                   pc, item, err, resumed>>

----------------------------------------------------------------------------
(* The drive.                                                               *)

Plug ==
    /\ kind = "usb"
    /\ drive' = ~drive
    /\ UNCHANGED <<kind, users, activeID, stopped, known, pc, item, err>>

\* Refresh, by the watcher every three seconds or by a handler.
Refresh ==
    /\ kind = "usb"
    /\ known' = drive
    /\ UNCHANGED <<kind, users, activeID, stopped, drive, pc, item, err>>

----------------------------------------------------------------------------
(* The worker: run and finish.                                              *)

CanDequeue == pc = "idle" /\ ~closed /\ ~paused /\ pending # <<>>

\* Mutant: a stale id is not removed.
Skip_KeepsHead ==
    /\ CanDequeue
    /\ state[Head(pending)] # "WAITING"
    /\ UNCHANGED vars

Skip ==
    /\ CanDequeue
    /\ state[Head(pending)] # "WAITING"
    /\ pending' = Tail(pending)
    /\ resumed' = resumed \ {Head(pending)}
    /\ UNCHANGED <<kind, state, lastJob, paused, closed, activeID, stopped,
                   drive, known, pc, item, err>>

\* Mutant: any job that is still listed is started.
Claim_Unchecked ==
    /\ CanDequeue
    /\ state[Head(pending)] # "ABSENT"
    /\ pending' = Tail(pending)
    /\ item' = Head(pending)
    /\ activeID' = item'
    /\ resumed' = resumed \ {item'}
    /\ stopped' = FALSE
    /\ pc' = "claimed"
    /\ UNCHANGED <<kind, state, lastJob, paused, closed, drive, known, err>>

Claim ==
    /\ CanDequeue
    /\ state[Head(pending)] = "WAITING"
    /\ pending' = Tail(pending)
    /\ item' = Head(pending)
    /\ activeID' = item'
    /\ resumed' = resumed \ {item'}
    /\ stopped' = FALSE
    /\ pc' = "claimed"
    /\ UNCHANGED <<kind, state, lastJob, paused, closed, drive, known, err>>

Exit ==
    /\ pc = "idle" /\ closed
    /\ pc' = "done"
    /\ UNCHANGED <<kind, users, activeID, stopped, drive, known, item, err>>

\* The active job moves to state s, unless a handler cleared it.
update(s) == state' = IF state[item] = "ABSENT" THEN state
                      ELSE [state EXCEPT ![item] = s]

\* Mutant: what was reported last stays when the drive is gone.
Finish_KeepsState ==
    /\ pc = "finishing"
    /\ CASE err = "none"        -> update("COMPLETED")
         [] err = "cancelled"   -> update("CANCELLED")
         [] err = "failed"      -> update("FAILED")
         [] err = "unavailable" -> UNCHANGED state
    /\ paused' = (paused \/ (err = "unavailable" /\ state[item] # "ABSENT"))
    /\ pc' = "releasing"
    /\ UNCHANGED <<kind, lastJob, pending, closed, activeID, stopped, drive,
                   known, item, err, resumed>>

Finish ==
    /\ pc = "finishing"
    /\ CASE err = "none"        -> update("COMPLETED")
         [] err = "cancelled"   -> update("CANCELLED")
         [] err = "failed"      -> update("FAILED")
         [] err = "unavailable" -> update("PAUSED")
    /\ paused' = (paused \/ (err = "unavailable" /\ state[item] # "ABSENT"))
    /\ pc' = "releasing"
    /\ UNCHANGED <<kind, lastJob, pending, closed, activeID, stopped, drive,
                   known, item, err, resumed>>

Release ==
    /\ pc = "releasing"
    /\ activeID' = NoId
    /\ item' = NoId
    /\ err' = "none"
    /\ pc' = "idle"
    /\ UNCHANGED <<kind, users, stopped, drive, known>>

----------------------------------------------------------------------------
(* installer.Process and FPKGBuilder.Build.                                 *)

Return(e) == err' = e /\ pc' = "finishing"

\* What a step of Process or Build leaves alone.
still == <<kind, lastJob, pending, paused, closed, activeID, stopped, drive,
           item, resumed>>

\* The first stage of either is reported.
FirstStage ==
    /\ pc = "claimed"
    /\ update("BUSY")
    /\ pc' = IF kind = "usb" THEN "preparing" ELSE "building"
    /\ UNCHANGED <<still, known, err>>

\* The builder checks serial, configuration and destination first.
BuildRefused ==
    /\ pc = "claimed" /\ kind = "fpkg"
    /\ Return("failed")
    /\ UNCHANGED <<still, state, known>>

\* RequiredBytes fails, or the drive is read-only or full.
PrepareFails ==
    /\ pc = "preparing"
    /\ known' \in {known, drive}
    /\ Return("failed")
    /\ UNCHANGED <<still, state>>

\* Validate refreshes, then looks the drive up.
Validate ==
    /\ pc = "preparing"
    /\ known' = drive
    /\ IF drive THEN pc' = "installing" /\ UNCHANGED err
                ELSE Return("unavailable")
    /\ UNCHANGED <<still, state>>

Install ==
    /\ pc = "installing" /\ drive
    /\ pc' = "verifying"
    /\ UNCHANGED <<still, state, known, err>>

\* A write fails, or the context is seen to be cancelled.
InstallFails(e) ==
    /\ pc = "installing"
    /\ e = "cancelled" => stopped
    /\ err' = e
    /\ pc' = "refreshing"
    /\ UNCHANGED <<still, state, known>>

\* Whatever the error was, a drive that is gone explains it.  Refresh may fail.
Explain ==
    /\ pc = "refreshing"
    /\ known' \in {known, drive}
    /\ IF known' THEN Return(err) ELSE Return("unavailable")
    /\ UNCHANGED <<still, state>>

\* Verify reads the drive; what follows only asks the USBManager.
Verify ==
    /\ pc = "verifying" /\ drive
    /\ IF known THEN Return("none") ELSE Return("unavailable")
    /\ UNCHANGED <<still, state, known>>

VerifyFails ==
    /\ pc = "verifying"
    /\ Return("failed")
    /\ UNCHANGED <<still, state, known>>

\* The last stage the builder reports is COMPLETED.
Build ==
    /\ pc = "building"
    /\ update("COMPLETED")
    /\ Return("none")
    /\ UNCHANGED <<still, known>>

BuildFails(e) ==
    /\ pc = "building"
    /\ e = "cancelled" => stopped
    /\ Return(e)
    /\ UNCHANGED <<still, state, known>>

Failures == {"failed", "cancelled"}

Worker ==
    \/ Skip
    \/ Claim
    \/ Exit
    \/ FirstStage
    \/ BuildRefused
    \/ PrepareFails
    \/ Validate
    \/ Install
    \/ \E e \in Failures : InstallFails(e)
    \/ Explain
    \/ Verify
    \/ VerifyFails
    \/ Build
    \/ \E e \in Failures : BuildFails(e)
    \/ Finish
    \/ Release

Next ==
    \/ Worker
    \/ \E n \in 1..MaxJobs : Enqueue(n)
    \/ \E j \in JobIds : Cancel(j) \/ Retry(j)
    \/ ClearCompleted
    \/ Close
    \/ Plug
    \/ Refresh

Spec == Init /\ [][Next]_vars

\* Reads and writes of local files end, so the worker goes on; users and the drive
\* owe nothing.
FairSpec == Spec /\ WF_vars(Worker)

----------------------------------------------------------------------------
(* Properties.                                                              *)

\* Type invariant.
TypeOK ==
    /\ kind \in {"usb", "fpkg"}
    /\ state \in [JobIds -> States]
    /\ lastJob \in 0..MaxJobs
    /\ pending \in Seq(JobIds)
    /\ {paused, closed, stopped, drive, known} \subseteq BOOLEAN
    /\ {activeID, item} \subseteq JobIds \cup {NoId}
    /\ pc \in Points
    /\ err \in Failures \cup {"none", "unavailable"}
    /\ resumed \subseteq JobIds

\* A job in a stage is the worker's, and its Cancel reaches its context.  One that
\* is not could be neither cancelled, retried nor cleared any more.
OneActiveJob ==
    \A j \in JobIds : state[j] = "BUSY" => j = activeID /\ j = item

\* There is no operation that resumes the queue: a paused queue must have a job
\* to retry or cancel, and only the USB queue pauses.
PausedIsResumable ==
    paused => kind = "usb" /\ \E j \in JobIds : state[j] = "PAUSED"

\* A job that its drive interrupted goes on before any other waiting job, whatever
\* was submitted, cancelled or retried since, itself included.
ResumedGoesFirst ==
    [][/\ activeID' \notin {NoId, activeID}
       /\ \E j \in resumed : state[j] = "WAITING"
       => activeID' \in resumed]_vars

\* A job that was cancelled, completed or cleared is not started.  The exception is
\* the window between the claim and the first stage, which Cancel cannot stop.
CancelledStartsOnlyIfClaimed ==
    [][\A j \in JobIds :
        state[j] \in {"CANCELLED", "COMPLETED", "ABSENT"} =>
            /\ activeID' = j => activeID = j
            /\ state'[j] = "BUSY" => pc = "claimed" /\ item = j]_vars

\* A waiting job is not forgotten behind stale ids, repeated retries or a drive
\* that comes and goes: it leaves WAITING, unless the queue pauses or closes.
WaitingIsServed ==
    \A j \in JobIds :
        state[j] = "WAITING" ~> state[j] # "WAITING" \/ paused \/ closed
=============================================================================
