---------------------------- MODULE FTPTransfer ----------------------------
(***************************************************************************)
(* One file over FTP: downloadFile and uploadFile of internal/ftp with the *)
(* attempts they make, against a server that may refuse REST, not know     *)
(* SIZE, truncate its answer, drop connections, or acknowledge a file it   *)
(* did not transfer to the end.  A download is staged in a .part file and  *)
(* renamed; an upload is written in place.  Both resume from what an       *)
(* earlier attempt, an earlier call or an earlier process left behind.     *)
(*                                                                         *)
(* A file is a sequence of blocks: block i of the source is i, a block of  *)
(* another file is Foreign.  One action is one FTP command with its answer,*)
(* one block, or one decision between two commands.                        *)
(***************************************************************************)
EXTENDS Integers, Sequences

CONSTANTS
    MaxSize,  \* bound: blocks of a file
    Wrap,     \* SIZE is truncated to this modulus; stands for 2^32 bytes
    MaxCalls  \* bound: calls for the same file, by a retry or after a crash

ASSUME TransferAssumption == {MaxSize, MaxCalls} \subseteq Nat
                             /\ Wrap \in Nat \ {0}

Attempts == 3
Foreign  == 0
NoAnswer == -1
Blocks   == 0..MaxSize

\* size, rest: whether the server implements them; wraps: SIZE is truncated.
Servers == [size : BOOLEAN, rest : BOOLEAN, wraps : BOOLEAN]

VARIABLES
    dir,        \* "down" or "up"
    server,
    size,       \* blocks of the source
    foreign,    \* the destination began as a part of another file
    dst,        \* the destination: the .part file, or the remote file
    pc,
    attempt,    \* attempts that failed in this call
    calls,      \* calls that ended or crashed before this one
    cancelled,  \* the context of the call
    offset,     \* where the transfer resumes
    answer,     \* the last SIZE answer that counts, or NoAnswer
    late,       \* a reply missed its deadline: each one is taken for the next
    read,       \* blocks of the source read so far
    write,      \* where the destination is written next
    flight,     \* blocks on the data connection
    done,       \* blocks of this attempt, the resumed ones included
    reported,   \* blocks reported to the progress function
    result      \* how the call ended

job  == <<dir, server, size, foreign>>
conn == <<read, write, flight>>
call == <<attempt, calls, cancelled, result>>
vars == <<job, dst, pc, call, offset, answer, late, conn, done, reported>>

Points == {"starting", "dialing", "sizing", "opening", "redialing", "data",
           "acked", "verifying", "backoff", "ended"}

Remote == IF dir = "down" THEN size ELSE Len(dst)
Reply  == IF server.wraps THEN Remote % Wrap ELSE Remote

Report(n) == reported' = IF n > reported THEN n ELSE reported

\* Mutant: no tolerance for a truncated SIZE.
sizeConsistent_Exact(actual, expected) == expected < 0 \/ actual = expected

sizeConsistent(actual, expected) ==
    \/ expected < 0 \/ actual = expected
    \/ actual > expected /\ (actual - expected) % Wrap = 0

Init ==
    /\ dir \in {"down", "up"}
    /\ server \in Servers
    /\ server.wraps => server.size /\ dir = "down"  \* a PS4, only read from
    /\ size \in Blocks
    /\ foreign \in BOOLEAN
    /\ dst \in IF foreign
               THEN {[i \in 1..n |-> Foreign] : n \in 1..MaxSize + 1}
               ELSE {[i \in 1..n |-> i] : n \in 0..size}
    /\ pc = "starting"
    /\ attempt = 0
    /\ calls = 0
    /\ cancelled = FALSE
    /\ offset = 0
    /\ answer = NoAnswer
    /\ late = FALSE
    /\ read = 0
    /\ write = 0
    /\ flight = <<>>
    /\ done = 0
    /\ reported = 0
    /\ result = "none"

----------------------------------------------------------------------------
(* How an attempt ends.                                                     *)

End(r) == /\ pc' = "ended"
          /\ result' = r
          /\ flight' = <<>>
          /\ UNCHANGED <<job, late, calls, cancelled, offset, read, write>>

Errors == {"error", "timeout", "cancelled"}
Outcome(e) == IF e = "cancelled" THEN "cancelled" ELSE "failed"

\* Mutant: a failed attempt is not counted.
TryAgain_Forever(e) ==
    /\ pc' = "backoff"
    /\ flight' = <<>>
    /\ UNCHANGED <<job, late, call, dst, offset, answer, read, write, done,
                   reported>>

\* Mutant: one attempt more.
TryAgain_OneMore(e) ==
    /\ attempt' = attempt + 1
    /\ IF attempt = Attempts
       THEN End(Outcome(e))
       ELSE /\ pc' = "backoff"
            /\ flight' = <<>>
            /\ UNCHANGED <<job, late, calls, cancelled, result, offset, read,
                           write>>
    /\ UNCHANGED <<dst, answer, done, reported>>

\* Another attempt follows, unless this was the last one.
TryAgain(e) ==
    /\ attempt' = attempt + 1
    /\ IF attempt + 1 = Attempts
       THEN End(Outcome(e))
       ELSE /\ pc' = "backoff"
            /\ flight' = <<>>
            /\ UNCHANGED <<job, late, calls, cancelled, result, offset, read,
                           write>>
    /\ UNCHANGED <<dst, answer, done, reported>>

GiveUp(e) == End(Outcome(e)) /\ UNCHANGED <<attempt, dst, answer, done, reported>>

\* A cancelled context ends the call at once.  So does a dial that timed out: its
\* error is a context.DeadlineExceeded to errors.Is.
Fail(e) == IF e = "error" THEN TryAgain(e) ELSE GiveUp(e)

----------------------------------------------------------------------------
(* The steps of an attempt.                                                 *)

\* The wait before a retry ends early when the call is cancelled.
Backoff ==
    /\ pc = "backoff"
    /\ IF cancelled THEN GiveUp("cancelled")
       ELSE /\ pc' = "starting"
            /\ UNCHANGED <<job, late, dst, call, offset, answer, conn, done,
                           reported>>

\* A download looks at its .part file before it connects.
Start ==
    /\ pc = "starting"
    /\ offset' = IF dir = "down" THEN Len(dst) ELSE 0
    /\ answer' = NoAnswer
    /\ late' = FALSE
    /\ done' = 0
    /\ pc' = "dialing"
    /\ UNCHANGED <<job, dst, call, conn, reported>>

Dial ==
    /\ pc = "dialing" /\ ~cancelled
    /\ pc' = "sizing"
    /\ UNCHANGED <<job, late, dst, call, offset, answer, conn, done, reported>>

\* An upload goes on to its next attempt whatever the error was.
DialFails(e) ==
    /\ pc = "dialing"
    /\ e = "cancelled" => cancelled
    /\ IF dir = "up" THEN TryAgain(e) ELSE Fail(e)

\* The .part file has all the bytes SIZE names, or more in a truncated way.
AcceptPart ==
    /\ pc = "sizing" /\ server.size /\ dir = "down"
    /\ offset > 0 /\ offset >= Reply /\ sizeConsistent(offset, Reply)
    /\ answer' = Reply
    /\ done' = offset
    /\ Report(offset)
    /\ pc' = "verifying"
    /\ UNCHANGED <<job, late, dst, call, offset, conn>>

\* The .part file cannot be a part of this file.
DiscardPart ==
    /\ pc = "sizing" /\ server.size /\ dir = "down"
    /\ offset > Reply /\ ~sizeConsistent(offset, Reply)
    /\ answer' = Reply
    /\ offset' = 0
    /\ dst' = <<>>
    /\ pc' = "opening"
    /\ UNCHANGED <<job, late, call, conn, done, reported>>

\* Mutant: a .part file is never continued.
ContinuePart_FromZero ==
    /\ pc = "sizing" /\ server.size /\ dir = "down"
    /\ offset < Reply \/ offset = 0
    /\ answer' = Reply
    /\ offset' = 0
    /\ dst' = <<>>
    /\ pc' = "opening"
    /\ UNCHANGED <<job, late, call, conn, done, reported>>

ContinuePart ==
    /\ pc = "sizing" /\ server.size /\ dir = "down"
    /\ offset < Reply \/ offset = 0
    /\ answer' = Reply
    /\ pc' = "opening"
    /\ UNCHANGED <<job, late, dst, call, offset, conn, done, reported>>

\* A complete remote file is skipped, whatever its contents.
SkipUpload ==
    /\ pc = "sizing" /\ server.size /\ dir = "up"
    /\ Reply = size
    /\ answer' = Reply
    /\ Report(size)
    /\ End("ok")
    /\ UNCHANGED <<attempt, dst, done>>

ResumeUpload ==
    /\ pc = "sizing" /\ server.size /\ dir = "up"
    /\ Reply # size
    /\ offset' = IF Reply < size THEN Reply ELSE 0
    /\ done' = offset'
    /\ Report(offset')
    /\ pc' = "opening"
    /\ UNCHANGED <<job, late, dst, call, answer, conn>>

\* SIZE is not implemented, or there is no such remote file yet.
NoSize ==
    /\ pc = "sizing"
    /\ ~server.size \/ (dir = "up" /\ dst = <<>>)
    /\ pc' = "opening"
    /\ UNCHANGED <<job, late, dst, call, offset, answer, conn, done, reported>>

\* The reply to SIZE, or to the TYPE before it, misses its deadline.  That error is
\* ignored and the connection is used on, so the next command gets this reply.
LateReply ==
    /\ pc = "sizing"
    /\ late' = TRUE
    /\ pc' = "opening"
    /\ UNCHANGED <<job, dst, call, offset, answer, conn, done, reported>>

\* A STOR without REST starts the remote file over.
OpenAt(from) ==
    /\ read' = from
    /\ write' = from
    /\ flight' = <<>>
    /\ dst' = IF dir = "up" /\ from = 0 THEN <<>> ELSE dst
    /\ late' = FALSE
    /\ pc' = "data"
    /\ UNCHANGED <<job, call, offset, answer, done, reported>>

Open ==
    /\ pc = "opening" /\ ~cancelled /\ ~late
    /\ offset = 0 \/ server.rest
    /\ OpenAt(offset)

\* ErrResumeUnsupported: only this file is started over, on a new connection.  A
\* late reply in the place of the one to REST means the same.
RestRefused ==
    /\ pc = "opening" /\ offset > 0
    /\ ~server.rest \/ late
    /\ offset' = 0
    /\ done' = 0
    /\ dst' = IF dir = "down" THEN <<>> ELSE dst
    /\ pc' = "redialing"
    /\ UNCHANGED <<job, late, call, answer, conn, reported>>

Redial ==
    /\ pc = "redialing" /\ ~cancelled
    /\ OpenAt(0)

\* The sender puts the next block on the data connection.  An upload reports it.
Send ==
    /\ pc = "data" /\ read < size
    /\ dir = "up" => ~cancelled
    /\ flight' = Append(flight, read + 1)
    /\ read' = read + 1
    /\ IF dir = "up" THEN done' = done + 1 /\ Report(done')
                     ELSE UNCHANGED <<done, reported>>
    /\ UNCHANGED <<job, late, dst, pc, call, offset, answer, write>>

\* A file with block b written behind the first n blocks.
Written(n, b) ==
    [i \in 1..(IF n < Len(dst) THEN Len(dst) ELSE n + 1) |->
        CASE i = n + 1 -> b
          [] i # n + 1 /\ i <= Len(dst) -> dst[i]
          [] i # n + 1 /\ i > Len(dst) -> Foreign]

\* Blocks that arrived in this attempt, after the resumed ones.
Arrived == IF done = 0 THEN offset ELSE done

\* Mutant: every block reports the resumed ones again.
Receive_OffsetAgain ==
    /\ pc = "data" /\ flight # <<>>
    /\ dir = "down" => ~cancelled
    /\ dst' = Written(write, Head(flight))
    /\ write' = write + 1
    /\ flight' = Tail(flight)
    /\ IF dir = "down" THEN done' = done + offset + 1 /\ Report(done')
                       ELSE UNCHANGED <<done, reported>>
    /\ UNCHANGED <<job, late, pc, call, offset, answer, read>>

\* The receiver writes it.  A download reports it.
Receive ==
    /\ pc = "data" /\ flight # <<>>
    /\ dir = "down" => ~cancelled
    /\ dst' = Written(write, Head(flight))
    /\ write' = write + 1
    /\ flight' = Tail(flight)
    /\ IF dir = "down" THEN done' = Arrived + 1 /\ Report(done')
                       ELSE UNCHANGED <<done, reported>>
    /\ UNCHANGED <<job, late, pc, call, offset, answer, read>>

Acked ==
    /\ pc' = "acked"
    /\ flight' = <<>>
    /\ IF dir = "down" THEN done' = Arrived /\ Report(done')
                       ELSE UNCHANGED <<done, reported>>
    /\ UNCHANGED <<job, late, dst, call, offset, answer, read, write>>

Acknowledge == pc = "data" /\ read >= size /\ flight = <<>> /\ Acked

\* The server acknowledges a transfer that stopped early.  The sender of an upload
\* has written everything by then, the receiver of a download has read to the end.
AcknowledgeShort ==
    /\ pc = "data"
    /\ IF dir = "up" THEN read >= size /\ flight # <<>>
                     ELSE read < size /\ flight = <<>>
    /\ Acked

\* SIZE once more, to verify what was transferred.
SizeAgain ==
    /\ pc = "acked" /\ server.size
    /\ answer' = Reply
    /\ pc' = "verifying"
    /\ UNCHANGED <<job, late, dst, call, offset, conn, done, reported>>

\* An error of this SIZE is ignored, whatever it was.
NoSizeAgain ==
    /\ pc = "acked"
    /\ pc' = "verifying"
    /\ UNCHANGED <<job, late, dst, call, offset, answer, conn, done, reported>>

\* Mutant: nothing is verified.
Verified_Always == TRUE

\* verifyTransferSize: the .part file against SIZE, or SIZE against the local file.
Verified == answer # NoAnswer =>
    IF dir = "down" THEN sizeConsistent(Len(dst), answer)
                    ELSE sizeConsistent(answer, size)

\* The .part file is renamed, the uploaded file stays where it is.
Accept ==
    /\ pc = "verifying" /\ Verified
    /\ End("ok")
    /\ UNCHANGED <<attempt, dst, answer, done, reported>>

Reject == pc = "verifying" /\ ~Verified /\ Fail("error")

\* A command, a read or a write fails; what is on the data connection is lost.
Drop(e) ==
    /\ pc \in {"sizing", "opening", "redialing", "data"}
    /\ e = "cancelled" => cancelled /\ pc # "sizing"
    /\ e = "timeout" => pc \in {"opening", "redialing"}
    /\ Fail(e)

\* The source of an upload cannot be opened.
LocalFails ==
    /\ pc = "sizing" /\ dir = "up"
    /\ GiveUp("error")

----------------------------------------------------------------------------
(* The caller.                                                              *)

Cancel ==
    /\ pc # "ended"
    /\ ~cancelled
    /\ cancelled' = TRUE
    /\ UNCHANGED <<job, late, dst, pc, attempt, calls, result, offset, answer, conn,
                   done, reported>>

\* The same file again: after a Retry in the queue, or in a new process when the
\* old one died at any point.
Again ==
    /\ result # "ok"
    /\ calls < MaxCalls
    /\ calls' = calls + 1
    /\ pc' = "starting"
    /\ attempt' = 0
    /\ cancelled' = FALSE
    /\ flight' = <<>>
    /\ reported' = 0
    /\ result' = "none"
    /\ UNCHANGED <<job, late, dst, offset, answer, read, write, done>>

Step ==
    \/ Backoff
    \/ Start
    \/ Dial
    \/ \E e \in Errors : DialFails(e)
    \/ AcceptPart
    \/ DiscardPart
    \/ ContinuePart
    \/ SkipUpload
    \/ ResumeUpload
    \/ NoSize
    \/ LateReply
    \/ Open
    \/ RestRefused
    \/ Redial
    \/ Send
    \/ Receive
    \/ Acknowledge
    \/ AcknowledgeShort
    \/ SizeAgain
    \/ NoSizeAgain
    \/ Accept
    \/ Reject
    \/ \E e \in Errors : Drop(e)
    \/ LocalFails

Next == Step \/ Cancel \/ Again

Spec == Init /\ [][Next]_vars

\* Every command, read and write of a file has a deadline, so it succeeds or fails.
FairSpec == Spec /\ WF_vars(Step)

----------------------------------------------------------------------------
(* Properties.                                                              *)

\* Type invariant.
TypeOK ==
    /\ dir \in {"down", "up"}
    /\ server \in Servers
    /\ size \in Blocks
    /\ dst \in Seq(0..MaxSize)
    /\ pc \in Points
    /\ attempt \in 0..Attempts
    /\ calls \in 0..MaxCalls
    /\ {foreign, cancelled, late} \subseteq BOOLEAN
    /\ offset \in 0..MaxSize + 1
    /\ answer \in {NoAnswer} \cup (0..MaxSize + 1)
    /\ {read, write} \subseteq 0..MaxSize + 1
    /\ flight \in Seq(1..MaxSize)
    /\ {done, reported} \subseteq 0..MaxSize + 1
    /\ result \in {"none", "ok", "failed", "cancelled"}

\* The server tells the size of a file.
TellsSize == server.size /\ ~server.wraps

IsWhole == dst = [i \in 1..size |-> i]

\* What is accepted is the source, whatever attempts, refused resumes, cancelled
\* calls, crashes and early acknowledgements came in between.  A transfer that
\* continued a part of another file has at least the right size, up to the
\* tolerance for a truncated SIZE.  A file is excepted when no SIZE that counts was
\* answered: for an upload the last one, for a download both.
CopyIsWhole ==
    result = "ok" /\ TellsSize /\ answer # NoAnswer
        => /\ ~foreign => IsWhole
           /\ Len(dst) >= size /\ (Len(dst) - size) % Wrap = 0

\* The other way round: verification rejects no whole copy, truncated SIZE or not.
WholeIsAccepted == pc = "verifying" /\ IsWhole => Verified

\* The progress that the queue adds up is exact: whatever was resumed, started
\* over or sent twice, the blocks reported are never more than the file has, and
\* all of them at the end of a verified one.
ProgressIsExact ==
    TellsSize /\ ~foreign =>
        /\ reported <= size
        /\ result = "ok" /\ answer # NoAnswer => reported = size

\* README: an interrupted transfer retries from the saved byte offset.  What has
\* arrived is not thrown away, in either direction and by no later attempt, when
\* the server knows REST and SIZE, its replies keep their deadlines and the part
\* belongs to the file.
ArrivedIsKept ==
    [][TellsSize /\ server.rest /\ ~late /\ ~foreign => Len(dst') >= Len(dst)]_vars

\* A call ends after its attempts, however the server behaves.
CallEnds == pc = "starting" ~> pc = "ended"

\* README: when the server implements SIZE, a download is verified against the
\* remote byte count before it is accepted.
DownloadIsVerified ==
    result = "ok" /\ dir = "down" /\ server.size /\ ~foreign => Len(dst) = size
=============================================================================
