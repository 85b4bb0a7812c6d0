------------------------- MODULE FTPTransferProofs -------------------------
(***************************************************************************)
(* Machine-checked proofs about one file over FTP, for files of any size,  *)
(* any modulus of a truncated SIZE and any number of calls: type           *)
(* correctness, the safety invariants (through the inductive invariant     *)
(* IInv) and the action property ArrivedIsKept.                            *)
(***************************************************************************)
EXTENDS FTPTransfer, TLAPS, SequenceTheorems

----------------------------------------------------------------------------
(* The inductive invariant.                                                 *)

\* Only a PS4 truncates SIZE, and nothing is uploaded to it.
ServerIsKnown == server.wraps => server.size /\ dir = "down"

\* What has arrived is the beginning of the file.
PartIsPrefix ==
    /\ Len(dst) <= MaxSize + 1
    /\ ~foreign => Len(dst) <= size /\ \A i \in 1..Len(dst) : dst[i] = i

\* Where the next transfer begins: at the end of what is there, or at 0.
ResumesAtEnd ==
    /\ pc \in {"dialing", "sizing"} =>
          done = 0 /\ offset = IF dir = "down" THEN Len(dst) ELSE 0
    /\ pc = "opening" /\ dir = "down" => done = 0 /\ offset = Len(dst)
    /\ pc = "opening" /\ dir = "up" =>
          /\ offset \in {0, Len(dst)}
          /\ done = offset /\ reported >= done
          /\ TellsSize /\ ~late /\ ~foreign => offset = Len(dst)
    /\ pc = "redialing" =>
          /\ offset = 0 /\ done = 0
          /\ server.rest => late
          /\ dir = "down" => dst = <<>>

\* The blocks in flight are those between the writer and the reader, and the
\* progress is the reader's in an upload, the writer's in a download.
StreamIsInOrder ==
    pc = "data" =>
        /\ write = Len(dst)
        /\ read = write + Len(flight)
        /\ \A i \in 1..Len(flight) : flight[i] = write + i
        /\ flight # <<>> => read <= size
        /\ dir = "down" => Arrived = write
        /\ dir = "up" => done = read /\ reported >= done

\* The answer that verification uses is about what is there.
AnswersAreCurrent ==
    /\ dir = "down" /\ answer # NoAnswer => answer = Reply
    /\ dir = "up" /\ pc \in {"dialing", "sizing", "opening", "redialing", "data",
                             "acked"} => answer = NoAnswer
    /\ dir = "up" /\ answer # NoAnswer /\ (pc = "verifying" \/ result = "ok")
          => answer = Reply

\* The progress of a transfer that went through is all of it, of another one no
\* more than the file.
ReportsAreDue ==
    /\ ~foreign => reported <= size
    /\ pc \in {"acked", "verifying"} =>
          reported >= IF dir = "down" THEN Len(dst) ELSE size

CallsAreBounded ==
    pc # "ended" => attempt < Attempts /\ result = "none"

IInv ==
    /\ TypeOK /\ ServerIsKnown /\ PartIsPrefix /\ ResumesAtEnd /\ StreamIsInOrder
    /\ AnswersAreCurrent /\ ReportsAreDue /\ CallsAreBounded
    /\ CopyIsWhole /\ ProgressIsExact

----------------------------------------------------------------------------
(* Sequences and numbers.                                                   *)

\* A function on 1..n is a sequence.
LEMMA FunctionIsSeq ==
    ASSUME NEW S, NEW n \in Nat, NEW f \in [1..n -> S]
    PROVE  f \in Seq(S) /\ Len(f) = n
OBVIOUS

\* Behind the last block a block is appended.
LEMMA WrittenAtEnd ==
    ASSUME NEW S, dst \in Seq(S), NEW b \in S
    PROVE  /\ Written(Len(dst), b) \in Seq(S)
           /\ Len(Written(Len(dst), b)) = Len(dst) + 1
           /\ Written(Len(dst), b)[Len(dst) + 1] = b
           /\ \A i \in 1..Len(dst) : Written(Len(dst), b)[i] = dst[i]
<1> DEFINE n == Len(dst)
           w == Written(n, b)
<1>1. n \in Nat /\ \A i \in 1..n : dst[i] \in S
  BY LenProperties, ElementOfSeq
<1> HIDE DEF n
<1>2. w = [i \in 1..n + 1 |-> CASE i = n + 1 -> b
                                [] i # n + 1 /\ i <= n -> dst[i]
                                [] i # n + 1 /\ i > n -> Foreign]
  BY <1>1 DEF Written, n
<1> HIDE DEF w
<1>3. w[n + 1] = b
  BY <1>1, <1>2
<1>4. \A i \in 1..n : w[i] = dst[i]
  BY <1>1, <1>2
<1>5. \A i \in 1..n + 1 : w[i] \in S
  <2>1. \A i \in 1..n + 1 : i = n + 1 \/ i \in 1..n
    BY <1>1
  <2>2. QED
    BY <1>1, <1>3, <1>4, <2>1
<1>6. w \in [1..n + 1 -> S]
  BY <1>2, <1>5
<1>7. w \in Seq(S) /\ Len(w) = n + 1
  BY <1>1, <1>6, FunctionIsSeq
<1>8. QED
  BY <1>3, <1>4, <1>7 DEF w, n

\* Truncated sizes are sizes, and no larger.
LEMMA ModBounds ==
    ASSUME NEW n \in Nat, NEW w \in Nat \ {0}
    PROVE  n % w \in Nat /\ n % w <= n
OBVIOUS

\* What a server answers to SIZE.
LEMMA Replies ==
    ASSUME IInv
    PROVE  /\ Len(dst) \in Nat
           /\ Reply \in 0..MaxSize + 1
           /\ dir = "up" => Reply = Len(dst)
           /\ dir = "down" => Reply <= size
           /\ dir = "down" /\ TellsSize => Reply = size
<1>1. Len(dst) \in Nat /\ Len(dst) <= MaxSize + 1
  BY DEF IInv, TypeOK, PartIsPrefix
<1>2. size \in Nat /\ size <= MaxSize /\ dir \in {"down", "up"}
  BY TransferAssumption DEF IInv, TypeOK, Blocks
<1>3. Remote \in Nat /\ Remote <= MaxSize + 1
  BY <1>1, <1>2, TransferAssumption DEF Remote
<1>4. Remote % Wrap \in Nat /\ Remote % Wrap <= Remote
  BY <1>3, ModBounds, TransferAssumption
<1>5. Reply \in Nat /\ Reply <= Remote /\ (~server.wraps => Reply = Remote)
  BY <1>3, <1>4 DEF Reply
<1>6. dir = "up" => ~server.wraps
  BY DEF IInv, ServerIsKnown
<1>7. QED
  BY <1>1, <1>2, <1>3, <1>5, <1>6, TransferAssumption DEF Remote, TellsSize

----------------------------------------------------------------------------
(* The invariant at the beginning.                                          *)

\* A call begins within the invariant, whatever is at its destination.
LEMMA InitInv == Init => IInv
<1> SUFFICES ASSUME Init PROVE IInv
  OBVIOUS
<1> USE TransferAssumption
<1>1. /\ dst \in Seq(0..MaxSize) /\ Len(dst) <= MaxSize + 1
      /\ ~foreign => Len(dst) <= size /\ \A i \in 1..Len(dst) : dst[i] = i
  <2>1. CASE foreign
    <3>1. PICK n \in 1..MaxSize + 1 : dst = [i \in 1..n |-> Foreign]
      BY <2>1 DEF Init
    <3>2. dst \in [1..n -> 0..MaxSize] /\ n \in Nat
      BY <3>1 DEF Foreign
    <3>3. QED
      BY <2>1, <3>2, FunctionIsSeq
  <2>2. CASE ~foreign
    <3>1. PICK n \in 0..size : dst = [i \in 1..n |-> i]
      BY <2>2 DEF Init
    <3>2. size \in Nat /\ size <= MaxSize /\ n \in Nat /\ n <= size
      BY DEF Init, Blocks
    <3>3. dst \in [1..n -> 0..MaxSize]
      BY <3>1, <3>2
    <3>4. dst \in Seq(0..MaxSize) /\ Len(dst) = n
      BY <3>2, <3>3, FunctionIsSeq
    <3>5. \A i \in 1..n : dst[i] = i
      BY <3>1
    <3>6. QED
      BY <3>2, <3>4, <3>5
  <2>3. QED
    BY <2>1, <2>2
<1>2. TypeOK
  <2>1. <<>> \in Seq(1..MaxSize)
    OBVIOUS
  <2>2. {foreign, cancelled, late} \subseteq BOOLEAN
    BY DEF Init
  <2>3. 0 \in 0..MaxSize + 1 /\ 0 \in 0..MaxCalls /\ 0 \in 0..Attempts
    BY DEF Attempts
  <2>4. dir \in {"down", "up"} /\ server \in Servers /\ size \in Blocks
    BY DEF Init
  <2>5. QED
    BY <1>1, <2>1, <2>2, <2>3, <2>4 DEF Init, TypeOK, Points
<1>3. size \in Nat
  BY <1>2 DEF TypeOK, Blocks
<1>4. QED
  BY <1>1, <1>2, <1>3 DEF Init, IInv, ServerIsKnown, PartIsPrefix, ResumesAtEnd, StreamIsInOrder,
     AnswersAreCurrent, ReportsAreDue, CallsAreBounded, CopyIsWhole, ProgressIsExact,
     NoAnswer, Attempts

----------------------------------------------------------------------------
(* One action at a time.                                                    *)

\* An attempt fails, and leaves what has arrived.
LEMMA FailStep ==
    ASSUME IInv, pc # "ended", NEW e \in Errors, TryAgain(e) \/ GiveUp(e)
    PROVE  IInv'
<1> USE TransferAssumption
<1>1. /\ UNCHANGED <<dir, server, size, foreign, dst, offset, answer, done, reported,
                     late, calls, cancelled, read, write>>
      /\ flight' = <<>>
      /\ attempt' \in 0..Attempts
      /\ \/ pc' = "backoff" /\ attempt' < Attempts /\ result' = "none"
         \/ pc' = "ended" /\ result' \in {"failed", "cancelled"}
  <2>1. attempt \in Nat /\ attempt < Attempts /\ result = "none"
    BY DEF IInv, TypeOK, CallsAreBounded
  <2>2. CASE TryAgain(e)
    BY <2>1, <2>2 DEF TryAgain, End, Outcome, job, Attempts
  <2>3. CASE GiveUp(e)
    BY <2>1, <2>3 DEF GiveUp, End, Outcome, job, Attempts
  <2>4. QED
    BY <2>2, <2>3
<1>2. TypeOK'
  BY <1>1 DEF IInv, TypeOK, Points
<1>3. ServerIsKnown' /\ PartIsPrefix' /\ ResumesAtEnd' /\ StreamIsInOrder'
  BY <1>1 DEF IInv, ServerIsKnown, PartIsPrefix, ResumesAtEnd, StreamIsInOrder
<1>4. AnswersAreCurrent' /\ ReportsAreDue' /\ CallsAreBounded'
  BY <1>1 DEF IInv, AnswersAreCurrent, ReportsAreDue, CallsAreBounded, Reply, Remote
<1>5. CopyIsWhole' /\ ProgressIsExact'
  BY <1>1 DEF IInv, CopyIsWhole, ReportsAreDue, ProgressIsExact
<1>6. QED
  BY <1>2, <1>3, <1>4, <1>5 DEF IInv

\* An attempt begins, or a call, and knows nothing yet.
LEMMA StartStep == IInv /\ Start => IInv'
<1> SUFFICES ASSUME IInv, Start PROVE IInv'
  OBVIOUS
<1> USE TransferAssumption
<1>1. /\ UNCHANGED <<dir, server, size, foreign, dst, attempt, calls, cancelled, result,
                     read, write, flight, reported>>
      /\ offset' = IF dir = "down" THEN Len(dst) ELSE 0
      /\ answer' = NoAnswer /\ late' = FALSE /\ done' = 0
      /\ pc = "starting" /\ pc' = "dialing"
  BY DEF Start, job, conn, call
<1>2. Len(dst) \in 0..MaxSize + 1
  BY Replies DEF IInv, PartIsPrefix
<1>3. TypeOK'
  <2>1. {foreign', cancelled', late'} \subseteq BOOLEAN
    BY <1>1 DEF IInv, TypeOK
  <2>2. {done', reported'} \subseteq 0..MaxSize + 1
    BY <1>1 DEF IInv, TypeOK
  <2>3. offset' \in 0..MaxSize + 1 /\ pc' \in Points
    BY <1>1, <1>2 DEF Points
  <2>4. QED
    BY <1>1, <2>1, <2>2, <2>3 DEF IInv, TypeOK
<1>4. ServerIsKnown' /\ PartIsPrefix' /\ ResumesAtEnd' /\ StreamIsInOrder'
  BY <1>1 DEF IInv, ServerIsKnown, PartIsPrefix, ResumesAtEnd, StreamIsInOrder
<1>5. AnswersAreCurrent' /\ ReportsAreDue' /\ CallsAreBounded'
  BY <1>1 DEF IInv, AnswersAreCurrent, ReportsAreDue, CallsAreBounded
<1>6. CopyIsWhole' /\ ProgressIsExact'
  BY <1>1 DEF IInv, CopyIsWhole, ReportsAreDue, ProgressIsExact
<1>7. QED
  BY <1>3, <1>4, <1>5, <1>6 DEF IInv

\* A further call begins with what the last one left.
LEMMA AgainStep == IInv /\ Again => IInv'
<1> SUFFICES ASSUME IInv, Again PROVE IInv'
  OBVIOUS
<1> USE TransferAssumption
<1>1. /\ UNCHANGED <<dir, server, size, foreign, dst, offset, answer, late, read, write,
                     done>>
      /\ calls' = calls + 1 /\ calls < MaxCalls
      /\ pc' = "starting" /\ attempt' = 0 /\ cancelled' = FALSE /\ flight' = <<>>
      /\ reported' = 0 /\ result' = "none"
  BY DEF Again, job
<1>2. TypeOK'
  <2>1. {foreign', cancelled', late'} \subseteq BOOLEAN
    BY <1>1 DEF IInv, TypeOK
  <2>2. {done', reported'} \subseteq 0..MaxSize + 1
    BY <1>1 DEF IInv, TypeOK
  <2>3. calls' \in 0..MaxCalls /\ attempt' \in 0..Attempts
    BY <1>1 DEF IInv, TypeOK, Attempts
  <2>4. flight' \in Seq(1..MaxSize) /\ pc' \in Points
    BY <1>1 DEF IInv, TypeOK, Points
  <2>5. QED
    BY <1>1, <2>1, <2>2, <2>3, <2>4 DEF IInv, TypeOK
<1>3. ServerIsKnown' /\ PartIsPrefix' /\ ResumesAtEnd' /\ StreamIsInOrder'
  BY <1>1 DEF IInv, ServerIsKnown, PartIsPrefix, ResumesAtEnd, StreamIsInOrder
<1>4. AnswersAreCurrent' /\ ReportsAreDue' /\ CallsAreBounded'
  <2>1. AnswersAreCurrent'
    BY <1>1 DEF IInv, AnswersAreCurrent, Reply, Remote
  <2>2. size \in Nat
    BY DEF IInv, TypeOK, Blocks
  <2>3. QED
    BY <1>1, <2>1, <2>2 DEF ReportsAreDue, CallsAreBounded, Attempts
<1>5. CopyIsWhole' /\ ProgressIsExact'
  BY <1>1 DEF IInv, TypeOK, Blocks, CopyIsWhole, ProgressIsExact
<1>6. QED
  BY <1>2, <1>3, <1>4, <1>5 DEF IInv

\* What only moves the attempt on, or cancels it.
LEMMA QuietStep ==
    ASSUME IInv,
           \/ Backoff /\ ~cancelled
           \/ Dial \/ NoSizeAgain \/ Cancel \/ UNCHANGED vars
    PROVE  IInv'
<1> USE TransferAssumption
<1>1. /\ UNCHANGED <<dir, server, size, foreign, dst, attempt, calls, result, offset,
                     answer, late, read, write, flight, done, reported>>
      /\ cancelled' \in BOOLEAN
      /\ \/ pc = "backoff" /\ pc' = "starting"
         \/ pc = "dialing" /\ pc' = "sizing"
         \/ pc = "acked" /\ pc' = "verifying" /\ dir = "down"
         \/ pc = "acked" /\ pc' = "verifying" /\ dir = "up" /\ answer = NoAnswer
         \/ pc' = pc
  BY DEF Backoff, Dial, NoSizeAgain, Cancel, vars, job, conn, call, IInv, TypeOK,
         AnswersAreCurrent
<1>2. TypeOK'
  BY <1>1 DEF IInv, TypeOK, Points
<1>3. ServerIsKnown' /\ PartIsPrefix'
  BY <1>1 DEF IInv, ServerIsKnown, PartIsPrefix
<1>4. ResumesAtEnd' /\ StreamIsInOrder'
  BY <1>1 DEF IInv, ResumesAtEnd, StreamIsInOrder, TellsSize, Arrived
<1>5. AnswersAreCurrent' /\ ReportsAreDue' /\ CallsAreBounded'
  BY <1>1 DEF IInv, AnswersAreCurrent, ReportsAreDue, CallsAreBounded, Reply, Remote
<1>6. CopyIsWhole' /\ ProgressIsExact'
  BY <1>1 DEF IInv, CopyIsWhole, ProgressIsExact, IsWhole, TellsSize
<1>7. QED
  BY <1>2, <1>3, <1>4, <1>5, <1>6 DEF IInv

\* The .part file has all that SIZE names.
LEMMA AcceptPartStep == IInv /\ AcceptPart => IInv'
<1> SUFFICES ASSUME IInv, AcceptPart PROVE IInv'
  OBVIOUS
<1> USE TransferAssumption
<1>1. /\ UNCHANGED <<dir, server, size, foreign, dst, attempt, calls, cancelled, result,
                     offset, late, read, write, flight>>
      /\ answer' = Reply /\ done' = offset /\ reported' \in {reported, offset}
      /\ reported' >= offset /\ pc = "sizing" /\ pc' = "verifying" /\ dir = "down"
      /\ offset = Len(dst)
  BY DEF AcceptPart, Report, job, conn, call, IInv, TypeOK, ResumesAtEnd
<1>2. Reply \in 0..MaxSize + 1 /\ Len(dst) \in Nat
  BY Replies
<1>3. TypeOK'
  <2>1. {done', reported'} \subseteq 0..MaxSize + 1
    BY <1>1 DEF IInv, TypeOK
  <2>2. answer' \in {NoAnswer} \cup (0..MaxSize + 1) /\ pc' \in Points
    BY <1>1, <1>2 DEF Points
  <2>3. QED
    BY <1>1, <2>1, <2>2 DEF IInv, TypeOK
<1>4. ServerIsKnown' /\ PartIsPrefix' /\ ResumesAtEnd' /\ StreamIsInOrder'
  BY <1>1 DEF IInv, ServerIsKnown, PartIsPrefix, ResumesAtEnd, StreamIsInOrder
<1>5. AnswersAreCurrent' /\ CallsAreBounded'
  BY <1>1 DEF IInv, AnswersAreCurrent, CallsAreBounded, Reply, Remote
<1>6. ReportsAreDue'
  BY <1>1, <1>2 DEF IInv, ReportsAreDue, PartIsPrefix
<1>7. CopyIsWhole' /\ ProgressIsExact'
  BY <1>1, <1>6 DEF IInv, CallsAreBounded, CopyIsWhole, ProgressIsExact, ReportsAreDue
<1>8. QED
  BY <1>3, <1>4, <1>5, <1>6, <1>7 DEF IInv

\* A download after SIZE: from the end of its part, or from the beginning.
LEMMA PartStep == IInv /\ (ContinuePart \/ DiscardPart) => IInv'
<1> SUFFICES ASSUME IInv, ContinuePart \/ DiscardPart PROVE IInv'
  OBVIOUS
<1> USE TransferAssumption
<1>1. /\ UNCHANGED <<dir, server, size, foreign, attempt, calls, cancelled, result,
                     late, read, write, flight, done, reported>>
      /\ answer' = Reply /\ pc = "sizing" /\ pc' = "opening" /\ dir = "down"
      /\ done = 0
      /\ \/ UNCHANGED <<dst, offset>> /\ offset = Len(dst)
         \/ dst' = <<>> /\ offset' = 0
  BY DEF ContinuePart, DiscardPart, job, conn, call, IInv, ResumesAtEnd
<1>2. Reply \in 0..MaxSize + 1 /\ size \in Nat
  BY Replies DEF IInv, TypeOK, Blocks
<1>3. /\ dst' \in Seq(0..MaxSize) /\ offset' = Len(dst') /\ offset' \in 0..MaxSize + 1
      /\ (dst' = dst \/ dst' = <<>>)
  <2>1. CASE UNCHANGED <<dst, offset>> /\ offset = Len(dst)
    BY <2>1 DEF IInv, TypeOK
  <2>2. CASE dst' = <<>> /\ offset' = 0
    BY <2>2
  <2>3. QED
    BY <1>1, <2>1, <2>2
<1>4. TypeOK'
  <2>1. answer' \in {NoAnswer} \cup (0..MaxSize + 1) /\ pc' \in Points
    BY <1>1, <1>2 DEF Points
  <2>2. QED
    BY <1>1, <1>3, <2>1 DEF IInv, TypeOK
<1>5. PartIsPrefix'
  <2>1. CASE dst' = dst
    BY <1>1, <2>1 DEF IInv, PartIsPrefix
  <2>2. CASE dst' = <<>>
    BY <1>1, <1>2, <2>2 DEF PartIsPrefix
  <2>3. QED
    BY <1>3, <2>1, <2>2
<1>6. ServerIsKnown' /\ ResumesAtEnd' /\ StreamIsInOrder'
  BY <1>1, <1>3 DEF IInv, ServerIsKnown, ResumesAtEnd, StreamIsInOrder
<1>7. AnswersAreCurrent' /\ ReportsAreDue' /\ CallsAreBounded'
  BY <1>1 DEF IInv, AnswersAreCurrent, ReportsAreDue, CallsAreBounded, Reply, Remote
<1>8. CopyIsWhole' /\ ProgressIsExact'
  BY <1>1 DEF IInv, CallsAreBounded, CopyIsWhole, ProgressIsExact, ReportsAreDue
<1>9. QED
  BY <1>4, <1>5, <1>6, <1>7, <1>8 DEF IInv

\* A complete remote file ends the call: its size is all that was compared.
LEMMA SkipUploadStep == IInv /\ SkipUpload => IInv'
<1> SUFFICES ASSUME IInv, SkipUpload PROVE IInv'
  OBVIOUS
<1> USE TransferAssumption
<1>1. /\ UNCHANGED <<dir, server, size, foreign, dst, attempt, calls, cancelled, offset,
                     late, read, write, done>>
      /\ answer' = Reply /\ Reply = size /\ flight' = <<>>
      /\ reported' \in {reported, size} /\ reported' >= size
      /\ pc' = "ended" /\ result' = "ok" /\ dir = "up"
  BY DEF SkipUpload, Report, End, job, IInv, TypeOK, Blocks
<1>2. Reply \in 0..MaxSize + 1 /\ size \in 0..MaxSize /\ Reply = Len(dst)
  BY <1>1, Replies DEF IInv, TypeOK, Blocks
<1>3. TypeOK'
  <2>1. {done', reported'} \subseteq 0..MaxSize + 1
    BY <1>1, <1>2 DEF IInv, TypeOK
  <2>2. answer' \in {NoAnswer} \cup (0..MaxSize + 1) /\ pc' \in Points
    BY <1>1, <1>2 DEF Points
  <2>3. QED
    BY <1>1, <2>1, <2>2 DEF IInv, TypeOK
<1>4. ServerIsKnown' /\ PartIsPrefix' /\ ResumesAtEnd' /\ StreamIsInOrder'
  BY <1>1 DEF IInv, ServerIsKnown, PartIsPrefix, ResumesAtEnd, StreamIsInOrder
<1>5. AnswersAreCurrent' /\ CallsAreBounded'
  BY <1>1 DEF IInv, AnswersAreCurrent, CallsAreBounded, Reply, Remote
<1>6. ReportsAreDue'
  BY <1>1, <1>2 DEF IInv, ReportsAreDue
<1>7. ProgressIsExact'
  <2>1. reported' \in Nat /\ reported' >= size /\ size \in Nat
    BY <1>1, <1>2 DEF IInv, TypeOK
  <2>2. QED
    BY <1>1, <1>6, <2>1 DEF ProgressIsExact, ReportsAreDue
<1>8. CopyIsWhole'
  <2>1. Len(dst) = size /\ (Len(dst) - size) % Wrap = 0
    BY <1>1, <1>2
  <2>2. ~foreign => dst = [i \in 1..size |-> i]
    BY <2>1 DEF IInv, PartIsPrefix, TypeOK
  <2>3. QED
    BY <1>1, <1>2, <2>1, <2>2 DEF CopyIsWhole, IsWhole
<1>9. QED
  BY <1>3, <1>4, <1>5, <1>6, <1>7, <1>8 DEF IInv

\* An upload is resumed at the size that was answered, or begun anew.
LEMMA ResumeUploadStep == IInv /\ ResumeUpload => IInv'
<1> SUFFICES ASSUME IInv, ResumeUpload PROVE IInv'
  OBVIOUS
<1> USE TransferAssumption
<1>1. /\ UNCHANGED <<dir, server, size, foreign, dst, attempt, calls, cancelled, result,
                     answer, late, read, write, flight>>
      /\ offset' = IF Reply < size THEN Reply ELSE 0
      /\ Reply # size /\ done' = offset'
      /\ reported' = IF offset' > reported THEN offset' ELSE reported
      /\ pc = "sizing" /\ pc' = "opening" /\ dir = "up"
  BY DEF ResumeUpload, Report, job, conn, call
<1>2. Reply \in 0..MaxSize + 1 /\ size \in 0..MaxSize /\ Reply = Len(dst)
      /\ reported \in 0..MaxSize + 1
  BY <1>1, Replies DEF IInv, TypeOK, Blocks
<1>3. offset' \in 0..MaxSize + 1 /\ offset' \in {0, Len(dst)} /\ offset' <= size
      /\ reported' \in 0..MaxSize + 1 /\ reported' >= offset'
      /\ (reported' = reported \/ reported' <= size)
  BY <1>1, <1>2
<1>4. TypeOK'
  <2>1. {done', reported'} \subseteq 0..MaxSize + 1
    BY <1>1, <1>3
  <2>2. QED
    BY <1>1, <1>3, <2>1 DEF IInv, TypeOK, Points
<1>5. ServerIsKnown' /\ PartIsPrefix' /\ StreamIsInOrder'
  BY <1>1 DEF IInv, ServerIsKnown, PartIsPrefix, StreamIsInOrder
<1>6. ResumesAtEnd'
  <2>1. ~foreign => offset' = Len(dst)
    BY <1>1, <1>2 DEF IInv, PartIsPrefix
  <2>2. QED
    BY <1>1, <1>3, <2>1 DEF ResumesAtEnd
<1>7. AnswersAreCurrent' /\ CallsAreBounded'
  BY <1>1 DEF IInv, AnswersAreCurrent, CallsAreBounded
<1>8. ReportsAreDue'
  BY <1>1, <1>3 DEF IInv, ReportsAreDue
<1>9. CopyIsWhole' /\ ProgressIsExact'
  BY <1>1, <1>8 DEF IInv, CallsAreBounded, CopyIsWhole, ProgressIsExact, ReportsAreDue
<1>10. QED
  BY <1>4, <1>5, <1>6, <1>7, <1>8, <1>9 DEF IInv

\* Without an answer to SIZE a download goes on from its part, an upload starts over.
LEMMA NoSizeStep == IInv /\ (NoSize \/ LateReply) => IInv'
<1> SUFFICES ASSUME IInv, NoSize \/ LateReply PROVE IInv'
  OBVIOUS
<1> USE TransferAssumption
<1>1. /\ UNCHANGED <<dir, server, size, foreign, dst, attempt, calls, cancelled, result,
                     offset, answer, read, write, flight, done, reported>>
      /\ pc = "sizing" /\ pc' = "opening" /\ late' \in BOOLEAN
      /\ \/ late'
         \/ ~server.size
         \/ dir = "up" /\ dst = <<>>
         \/ dir = "down"
  BY DEF NoSize, LateReply, job, conn, call, IInv, TypeOK
<1>2. reported >= 0 /\ dir \in {"up", "down"}
  BY DEF IInv, TypeOK
<1>3. TypeOK'
  <2>1. {foreign', cancelled', late'} \subseteq BOOLEAN
    BY <1>1 DEF IInv, TypeOK
  <2>2. QED
    BY <1>1, <2>1 DEF IInv, TypeOK, Points
<1>4. ServerIsKnown' /\ PartIsPrefix' /\ StreamIsInOrder'
  BY <1>1 DEF IInv, ServerIsKnown, PartIsPrefix, StreamIsInOrder
<1>5. ResumesAtEnd'
  BY <1>1, <1>2 DEF IInv, ResumesAtEnd, TellsSize
<1>6. AnswersAreCurrent' /\ ReportsAreDue' /\ CallsAreBounded'
  BY <1>1 DEF IInv, AnswersAreCurrent, ReportsAreDue, CallsAreBounded, Reply, Remote
<1>7. CopyIsWhole' /\ ProgressIsExact'
  BY <1>1 DEF IInv, CallsAreBounded, CopyIsWhole, ProgressIsExact, ReportsAreDue
<1>8. QED
  BY <1>3, <1>4, <1>5, <1>6, <1>7 DEF IInv

\* The server refuses to resume, or seems to: the part is thrown away.
LEMMA RestRefusedStep == IInv /\ RestRefused => IInv'
<1> SUFFICES ASSUME IInv, RestRefused PROVE IInv'
  OBVIOUS
<1> USE TransferAssumption
<1>1. /\ UNCHANGED <<dir, server, size, foreign, attempt, calls, cancelled, result,
                     answer, late, read, write, flight, reported>>
      /\ pc = "opening" /\ pc' = "redialing" /\ offset' = 0 /\ done' = 0
      /\ server.rest => late
      /\ dst' = IF dir = "down" THEN <<>> ELSE dst
  BY DEF RestRefused, job, conn, call
<1>2. size \in Nat /\ dst' \in Seq(0..MaxSize) /\ (dst' = dst \/ dst' = <<>>)
      /\ (dir = "up" => dst' = dst)
  <2>1. size \in Nat /\ dst \in Seq(0..MaxSize) /\ <<>> \in Seq(0..MaxSize)
    BY DEF IInv, TypeOK, Blocks
  <2>2. QED
    BY <1>1, <2>1
<1>3. TypeOK'
  <2>1. {done', reported'} \subseteq 0..MaxSize + 1 /\ 0 \in 0..MaxSize + 1
    BY <1>1 DEF IInv, TypeOK
  <2>2. QED
    BY <1>1, <1>2, <2>1 DEF IInv, TypeOK, Points
<1>4. PartIsPrefix'
  <2>1. CASE dst' = dst
    BY <1>1, <2>1 DEF IInv, PartIsPrefix
  <2>2. CASE dst' = <<>>
    BY <1>1, <1>2, <2>2 DEF PartIsPrefix
  <2>3. QED
    BY <1>2, <2>1, <2>2
<1>5. ServerIsKnown' /\ ResumesAtEnd' /\ StreamIsInOrder'
  BY <1>1 DEF IInv, ServerIsKnown, ResumesAtEnd, StreamIsInOrder
<1>6. AnswersAreCurrent' /\ ReportsAreDue' /\ CallsAreBounded'
  BY <1>1, <1>2 DEF IInv, AnswersAreCurrent, ReportsAreDue, CallsAreBounded, Reply,
                    Remote
<1>7. CopyIsWhole' /\ ProgressIsExact'
  BY <1>1 DEF IInv, CallsAreBounded, CopyIsWhole, ProgressIsExact, ReportsAreDue
<1>8. QED
  BY <1>3, <1>4, <1>5, <1>6, <1>7 DEF IInv

\* The data connection begins where the destination ends.
LEMMA OpenStep == IInv /\ (Open \/ Redial) => IInv'
<1> SUFFICES ASSUME IInv, Open \/ Redial PROVE IInv'
  OBVIOUS
<1> USE TransferAssumption
<1>1. PICK from \in {offset, 0} :
        /\ UNCHANGED <<dir, server, size, foreign, attempt, calls, cancelled, result,
                       offset, answer, done, reported>>
        /\ read' = from /\ write' = from /\ flight' = <<>> /\ late' = FALSE
        /\ dst' = IF dir = "up" /\ from = 0 THEN <<>> ELSE dst
        /\ pc \in {"opening", "redialing"} /\ pc' = "data"
        /\ pc = "opening" => from = offset
        /\ pc = "redialing" => from = 0
  BY DEF Open, Redial, OpenAt, job, call
<1>2. /\ offset \in 0..MaxSize + 1 /\ Len(dst) \in Nat /\ size \in Nat
      /\ dir \in {"up", "down"} /\ reported \in Nat
  BY Replies DEF IInv, TypeOK, Blocks
<1>3. from \in 0..MaxSize + 1 /\ from = offset
  BY <1>1, <1>2 DEF IInv, ResumesAtEnd
<1>4. from = Len(dst')
  <2>1. CASE pc = "redialing"
    BY <1>1, <1>2, <2>1 DEF IInv, ResumesAtEnd
  <2>2. CASE pc = "opening"
    BY <1>1, <1>2, <2>2 DEF IInv, ResumesAtEnd
  <2>3. QED
    BY <1>1, <2>1, <2>2
<1>5. dst' \in Seq(0..MaxSize) /\ (dst' = dst \/ dst' = <<>>)
      /\ (dir = "down" => dst' = dst)
  <2>1. dst \in Seq(0..MaxSize) /\ <<>> \in Seq(0..MaxSize)
    BY DEF IInv, TypeOK
  <2>2. QED
    BY <1>1, <2>1
<1>6. TypeOK'
  <2>1. {foreign', cancelled', late'} \subseteq BOOLEAN
    BY <1>1 DEF IInv, TypeOK
  <2>2. {read', write'} \subseteq 0..MaxSize + 1 /\ flight' \in Seq(1..MaxSize)
    BY <1>1, <1>3
  <2>3. QED
    BY <1>1, <1>5, <2>1, <2>2 DEF IInv, TypeOK, Points
<1>7. PartIsPrefix'
  <2>1. CASE dst' = dst
    BY <1>1, <2>1 DEF IInv, PartIsPrefix
  <2>2. CASE dst' = <<>>
    BY <1>1, <1>2, <2>2 DEF PartIsPrefix
  <2>3. QED
    BY <1>5, <2>1, <2>2
<1>8. StreamIsInOrder'
  <2>1. dir = "up" => done = from /\ reported >= done
    BY <1>1, <1>2, <1>3 DEF IInv, ResumesAtEnd
  <2>2. dir = "down" => done = 0 /\ from = offset
    BY <1>1, <1>3 DEF IInv, ResumesAtEnd
  <2>3. Len(flight') = 0 /\ read' = write' /\ write' = Len(dst') /\ flight' = <<>>
    BY <1>1, <1>4
  <2>4. dir = "down" => Arrived' = write'
    BY <1>1, <2>2 DEF Arrived
  <2>5. \A i \in 1..Len(flight') : flight'[i] = write' + i
    BY <2>3
  <2>6. read' = write' + Len(flight')
    BY <1>1, <1>3, <2>3
  <2>7. QED
    BY <1>1, <2>1, <2>3, <2>4, <2>5, <2>6 DEF StreamIsInOrder
<1>9. ServerIsKnown' /\ ResumesAtEnd'
  BY <1>1 DEF IInv, ServerIsKnown, ResumesAtEnd
<1>10. AnswersAreCurrent' /\ ReportsAreDue' /\ CallsAreBounded'
  BY <1>1, <1>5 DEF IInv, AnswersAreCurrent, ReportsAreDue, CallsAreBounded, Reply,
                    Remote
<1>11. CopyIsWhole' /\ ProgressIsExact'
  BY <1>1 DEF IInv, CallsAreBounded, CopyIsWhole, ProgressIsExact, ReportsAreDue
<1>12. QED
  BY <1>6, <1>7, <1>8, <1>9, <1>10, <1>11 DEF IInv

\* The next block of the source goes on its way.
LEMMA SendStep == IInv /\ Send => IInv'
<1> SUFFICES ASSUME IInv, Send PROVE IInv'
  OBVIOUS
<1> USE TransferAssumption
<1>1. /\ UNCHANGED <<dir, server, size, foreign, dst, pc, attempt, calls, cancelled,
                     result, offset, answer, late, write>>
      /\ pc = "data" /\ read < size
      /\ flight' = Append(flight, read + 1) /\ read' = read + 1
      /\ dir = "up" => /\ done' = done + 1
                       /\ reported' = IF done' > reported THEN done' ELSE reported
      /\ dir = "down" => UNCHANGED <<done, reported>>
  BY DEF Send, Report, job, call, IInv, TypeOK
<1>2. /\ read \in Nat /\ size \in 0..MaxSize /\ write \in Nat /\ Len(dst) \in Nat
      /\ done \in Nat /\ done <= MaxSize + 1
      /\ reported \in Nat /\ reported <= MaxSize + 1
      /\ flight \in Seq(1..MaxSize) /\ dir \in {"up", "down"}
  BY Replies DEF IInv, TypeOK, Blocks
<1>3. /\ write = Len(dst) /\ read = write + Len(flight)
      /\ \A i \in 1..Len(flight) : flight[i] = write + i
      /\ dir = "down" => Arrived = write
      /\ dir = "up" => done = read /\ reported >= done
  BY <1>1 DEF IInv, StreamIsInOrder
<1>4. /\ flight' \in Seq(1..MaxSize) /\ Len(flight') = Len(flight) + 1
      /\ \A i \in 1..Len(flight) : flight'[i] = flight[i]
      /\ flight'[Len(flight) + 1] = read + 1
      /\ Len(flight) \in Nat
  <2>1. read + 1 \in 1..MaxSize
    BY <1>1, <1>2
  <2>2. QED
    BY <1>1, <1>2, <2>1, AppendProperties, LenProperties
<1>5. /\ {done', reported'} \subseteq 0..MaxSize + 1
      /\ reported' = reported \/ reported' <= size
      /\ dir = "up" => done' = read' /\ reported' >= done'
  <2>1. CASE dir = "up"
    BY <1>1, <1>2, <1>3, <2>1
  <2>2. CASE dir = "down"
    BY <1>1, <1>2, <2>2
  <2>3. QED
    BY <1>2, <2>1, <2>2
<1>6. TypeOK'
  <2>1. {read', write'} \subseteq 0..MaxSize + 1
    BY <1>1, <1>2 DEF IInv, TypeOK
  <2>2. QED
    BY <1>1, <1>4, <1>5, <2>1 DEF IInv, TypeOK
<1>7. StreamIsInOrder'
  <2>1. read' = write' + Len(flight') /\ read' <= size
    BY <1>1, <1>2, <1>3, <1>4
  <2>2. ASSUME NEW i \in 1..Len(flight') PROVE flight'[i] = write' + i
    <3>1. i \in 1..Len(flight) \/ i = Len(flight) + 1
      BY <1>4
    <3>2. CASE i \in 1..Len(flight)
      BY <1>1, <1>3, <1>4, <3>2
    <3>3. CASE i = Len(flight) + 1
      <4>1. flight'[i] = read + 1 /\ read = write + Len(flight)
        BY <1>3, <1>4, <3>3
      <4>2. QED
        BY <1>1, <1>2, <1>4, <3>3, <4>1
    <3>4. QED
      BY <3>1, <3>2, <3>3
  <2>3. dir = "down" => Arrived' = write'
    BY <1>1, <1>3 DEF Arrived
  <2>4. QED
    BY <1>1, <1>3, <1>5, <2>1, <2>2, <2>3 DEF StreamIsInOrder
<1>8. ServerIsKnown' /\ PartIsPrefix' /\ ResumesAtEnd'
  BY <1>1 DEF IInv, ServerIsKnown, PartIsPrefix, ResumesAtEnd
<1>9. AnswersAreCurrent' /\ CallsAreBounded'
  BY <1>1 DEF IInv, AnswersAreCurrent, CallsAreBounded, Reply, Remote
<1>10. ReportsAreDue'
  BY <1>1, <1>5 DEF IInv, ReportsAreDue
<1>11. CopyIsWhole' /\ ProgressIsExact'
  BY <1>1, <1>10 DEF IInv, CallsAreBounded, CopyIsWhole, ProgressIsExact, ReportsAreDue
<1>12. QED
  BY <1>6, <1>7, <1>8, <1>9, <1>10, <1>11 DEF IInv

\* The next block arrives and is appended.
LEMMA ReceiveStep == IInv /\ Receive => IInv'
<1> SUFFICES ASSUME IInv, Receive PROVE IInv'
  OBVIOUS
<1> USE TransferAssumption
<1>1. /\ UNCHANGED <<dir, server, size, foreign, pc, attempt, calls, cancelled,
                     result, offset, answer, late, read>>
      /\ pc = "data" /\ flight # <<>>
      /\ dst' = Written(write, Head(flight))
      /\ write' = write + 1 /\ flight' = Tail(flight)
      /\ dir = "down" => /\ done' = Arrived + 1
                         /\ reported' = IF done' > reported THEN done' ELSE reported
      /\ dir = "up" => UNCHANGED <<done, reported>>
  BY DEF Receive, Report, job, call, IInv, TypeOK
<1>2. /\ read \in Nat /\ size \in 0..MaxSize /\ write \in Nat /\ Len(dst) \in Nat
      /\ done \in Nat /\ done <= MaxSize + 1
      /\ reported \in Nat /\ reported <= MaxSize + 1
      /\ flight \in Seq(1..MaxSize) /\ dst \in Seq(0..MaxSize) /\ dir \in {"up", "down"}
  BY Replies DEF IInv, TypeOK, Blocks
<1>3. /\ write = Len(dst) /\ read = write + Len(flight) /\ read <= size
      /\ \A i \in 1..Len(flight) : flight[i] = write + i
      /\ dir = "down" => Arrived = write
      /\ dir = "up" => done = read /\ reported >= done
  BY <1>1 DEF IInv, StreamIsInOrder
<1>4. /\ flight' \in Seq(1..MaxSize) /\ Len(flight') = Len(flight) - 1
      /\ Len(flight) \in Nat \ {0}
      /\ \A i \in 1..Len(flight) - 1 : flight'[i] = flight[i + 1]
      /\ Head(flight) = flight[1] /\ Head(flight) \in 0..MaxSize
  BY <1>1, <1>2, HeadTailProperties, LenProperties, EmptySeq, SMTT(30)
<1>5. Head(flight) = write + 1 /\ write + 1 <= size
  BY <1>2, <1>3, <1>4, SMTT(30)
<1>6. /\ dst' \in Seq(0..MaxSize) /\ Len(dst') = write + 1
      /\ dst'[write + 1] = write + 1
      /\ \A i \in 1..Len(dst) : dst'[i] = dst[i]
  BY <1>1, <1>2, <1>3, <1>4, <1>5, WrittenAtEnd, ZenonT(60)
<1>7. /\ {done', reported'} \subseteq 0..MaxSize + 1
      /\ reported' = reported \/ reported' <= size
      /\ dir = "down" => done' = write + 1
  <2>1. CASE dir = "up"
    BY <1>1, <1>2, <2>1
  <2>2. CASE dir = "down"
    <3>1. done' = write + 1 /\ done' <= size
      BY <1>1, <1>3, <1>5, <2>2
    <3>2. reported' = done' \/ reported' = reported
      BY <1>1, <2>2
    <3>3. done' \in 0..MaxSize + 1 /\ reported' \in 0..MaxSize + 1
      BY <1>2, <3>1, <3>2
    <3>4. QED
      BY <3>1, <3>2, <3>3
  <2>3. QED
    BY <1>2, <2>1, <2>2
<1>8. TypeOK'
  <2>1. {read', write'} \subseteq 0..MaxSize + 1
    BY <1>1, <1>2, <1>5 DEF IInv, TypeOK
  <2>2. QED
    BY <1>1, <1>4, <1>6, <1>7, <2>1 DEF IInv, TypeOK
<1>9. StreamIsInOrder'
  <2>1. read' = write' + Len(flight') /\ read' <= size
    BY <1>1, <1>2, <1>3, <1>4
  <2>2. ASSUME NEW i \in 1..Len(flight') PROVE flight'[i] = write' + i
    <3>1. flight'[i] = flight[i + 1] /\ i + 1 \in 1..Len(flight) /\ i \in Nat
      BY <1>4
    <3>2. flight[i + 1] = write + (i + 1)
      BY <1>3, <3>1
    <3>3. QED
      BY <1>1, <1>2, <3>1, <3>2
  <2>3. dir = "down" => Arrived' = write'
    BY <1>1, <1>2, <1>7 DEF Arrived
  <2>4. write' = Len(dst')
    BY <1>1, <1>6
  <2>5. dir = "up" => done' = read' /\ reported' >= done'
    BY <1>1, <1>3
  <2>6. QED
    BY <1>1, <2>1, <2>2, <2>3, <2>4, <2>5 DEF StreamIsInOrder
<1>10. PartIsPrefix'
  <2>1. Len(dst') <= MaxSize + 1 /\ Len(dst') <= size
    BY <1>2, <1>5, <1>6
  <2>2. ASSUME ~foreign, NEW i \in 1..Len(dst') PROVE dst'[i] = i
    <3>1. i \in 1..Len(dst) \/ i = write + 1
      BY <1>2, <1>3, <1>6
    <3>2. QED
      BY <1>6, <2>2, <3>1 DEF IInv, PartIsPrefix
  <2>3. QED
    BY <1>1, <2>1, <2>2 DEF PartIsPrefix
<1>11. ServerIsKnown' /\ ResumesAtEnd'
  BY <1>1 DEF IInv, ServerIsKnown, ResumesAtEnd
<1>12. AnswersAreCurrent' /\ CallsAreBounded'
  <2>1. dir = "down" => Reply' = Reply
    BY <1>1 DEF Reply, Remote
  <2>2. QED
    BY <1>1, <2>1 DEF IInv, AnswersAreCurrent, CallsAreBounded
<1>13. ReportsAreDue'
  BY <1>1, <1>7 DEF IInv, ReportsAreDue
<1>14. CopyIsWhole' /\ ProgressIsExact'
  BY <1>1, <1>13 DEF IInv, CallsAreBounded, CopyIsWhole, ProgressIsExact, ReportsAreDue
<1>15. QED
  BY <1>8, <1>9, <1>10, <1>11, <1>12, <1>13, <1>14 DEF IInv

\* The transfer is acknowledged, to the end or short of it.
LEMMA AckedStep == IInv /\ (Acknowledge \/ AcknowledgeShort) => IInv'
<1> SUFFICES ASSUME IInv, Acknowledge \/ AcknowledgeShort PROVE IInv'
  OBVIOUS
<1> USE TransferAssumption
<1>1. /\ UNCHANGED <<dir, server, size, foreign, dst, attempt, calls, cancelled,
                     result, offset, answer, late, read, write>>
      /\ pc = "data" /\ pc' = "acked" /\ flight' = <<>>
      /\ dir = "up" => read >= size /\ UNCHANGED <<done, reported>>
      /\ dir = "down" => /\ done' = Arrived
                         /\ reported' = IF done' > reported THEN done' ELSE reported
  BY DEF Acknowledge, AcknowledgeShort, Acked, Report, job, call, IInv, TypeOK
<1>2. /\ read \in Nat /\ size \in 0..MaxSize /\ write \in Nat /\ Len(dst) \in Nat
      /\ Len(dst) <= MaxSize + 1
      /\ done \in Nat /\ done <= MaxSize + 1
      /\ reported \in Nat /\ reported <= MaxSize + 1
      /\ dir \in {"up", "down"}
  BY Replies DEF IInv, TypeOK, Blocks, PartIsPrefix
<1>3. /\ write = Len(dst)
      /\ dir = "down" => Arrived = write
      /\ dir = "up" => done = read /\ reported >= done
  BY <1>1 DEF IInv, StreamIsInOrder
<1>4. /\ {done', reported'} \subseteq 0..MaxSize + 1
      /\ reported' = reported \/ reported' = Len(dst)
      /\ reported' >= IF dir = "down" THEN Len(dst) ELSE size
  <2>1. CASE dir = "up"
    BY <1>1, <1>2, <1>3, <2>1
  <2>2. CASE dir = "down"
    BY <1>1, <1>2, <1>3, <2>2
  <2>3. QED
    BY <1>2, <2>1, <2>2
<1>5. TypeOK'
  <2>1. flight' \in Seq(1..MaxSize)
    BY <1>1
  <2>2. QED
    BY <1>1, <1>4, <2>1 DEF IInv, TypeOK, Points
<1>6. ServerIsKnown' /\ PartIsPrefix' /\ ResumesAtEnd' /\ StreamIsInOrder'
  BY <1>1 DEF IInv, ServerIsKnown, PartIsPrefix, ResumesAtEnd, StreamIsInOrder
<1>7. AnswersAreCurrent' /\ CallsAreBounded'
  BY <1>1 DEF IInv, AnswersAreCurrent, CallsAreBounded, Reply, Remote
<1>8. ReportsAreDue'
  BY <1>1, <1>4 DEF IInv, ReportsAreDue, PartIsPrefix
<1>9. CopyIsWhole' /\ ProgressIsExact'
  BY <1>1, <1>8 DEF IInv, CallsAreBounded, CopyIsWhole, ProgressIsExact, ReportsAreDue
<1>10. QED
  BY <1>5, <1>6, <1>7, <1>8, <1>9 DEF IInv

\* SIZE answers for what is there now.
LEMMA SizeAgainStep == IInv /\ SizeAgain => IInv'
<1> SUFFICES ASSUME IInv, SizeAgain PROVE IInv'
  OBVIOUS
<1> USE TransferAssumption
<1>1. /\ UNCHANGED <<dir, server, size, foreign, dst, attempt, calls, cancelled,
                     result, offset, late, read, write, flight, done, reported>>
      /\ pc = "acked" /\ pc' = "verifying" /\ answer' = Reply
  BY DEF SizeAgain, job, conn, call
<1>2. answer' \in {NoAnswer} \cup (0..MaxSize + 1)
  BY <1>1, Replies
<1>3. TypeOK'
  BY <1>1, <1>2 DEF IInv, TypeOK, Points
<1>4. ServerIsKnown' /\ PartIsPrefix' /\ ResumesAtEnd' /\ StreamIsInOrder'
  BY <1>1 DEF IInv, ServerIsKnown, PartIsPrefix, ResumesAtEnd, StreamIsInOrder
<1>5. AnswersAreCurrent' /\ ReportsAreDue' /\ CallsAreBounded'
  BY <1>1 DEF IInv, AnswersAreCurrent, ReportsAreDue, CallsAreBounded, Reply, Remote
<1>6. CopyIsWhole' /\ ProgressIsExact'
  BY <1>1 DEF IInv, CallsAreBounded, CopyIsWhole, ProgressIsExact, ReportsAreDue
<1>7. QED
  BY <1>3, <1>4, <1>5, <1>6 DEF IInv

\* What is verified has the size of the source, which a prefix has only if whole.
LEMMA AcceptStep == IInv /\ Accept => IInv'
<1> SUFFICES ASSUME IInv, Accept PROVE IInv'
  OBVIOUS
<1> USE TransferAssumption
<1>1. /\ UNCHANGED <<dir, server, size, foreign, dst, attempt, calls, cancelled,
                     offset, answer, late, read, write, done, reported>>
      /\ pc = "verifying" /\ pc' = "ended" /\ result' = "ok" /\ flight' = <<>>
      /\ Verified
  BY DEF Accept, End, job
<1>2. TypeOK'
  <2>1. flight' \in Seq(1..MaxSize)
    BY <1>1
  <2>2. QED
    BY <1>1, <2>1 DEF IInv, TypeOK, Points
<1>3. ServerIsKnown' /\ PartIsPrefix' /\ ResumesAtEnd' /\ StreamIsInOrder'
  BY <1>1 DEF IInv, ServerIsKnown, PartIsPrefix, ResumesAtEnd, StreamIsInOrder
<1>4. AnswersAreCurrent' /\ ReportsAreDue' /\ CallsAreBounded'
  BY <1>1 DEF IInv, AnswersAreCurrent, ReportsAreDue, CallsAreBounded, Reply, Remote
<1>5. ASSUME TellsSize, answer # NoAnswer
      PROVE  /\ Len(dst) >= size /\ (Len(dst) - size) % Wrap = 0
             /\ ~foreign => Len(dst) = size /\ IsWhole /\ reported = size
  <2>1. /\ size \in Nat /\ Len(dst) \in Nat /\ reported \in Nat
        /\ dir \in {"up", "down"}
    BY Replies DEF IInv, TypeOK, Blocks
  <2>2. sizeConsistent(Len(dst), size)
    <3>1. CASE dir = "down"
      BY <1>1, <1>5, <3>1, Replies DEF IInv, AnswersAreCurrent, Verified
    <3>2. CASE dir = "up"
      BY <1>1, <1>5, <3>2, Replies DEF IInv, AnswersAreCurrent, Verified
    <3>3. QED
      BY <2>1, <3>1, <3>2
  <2>3. Len(dst) >= size /\ (Len(dst) - size) % Wrap = 0
    <3>1. CASE Len(dst) = size
      BY <2>1, <3>1
    <3>2. CASE Len(dst) # size
      BY <2>1, <2>2, <3>2 DEF sizeConsistent
    <3>3. QED
      BY <3>1, <3>2
  <2>4. ASSUME ~foreign PROVE Len(dst) = size /\ IsWhole /\ reported = size
    <3>1. Len(dst) = size /\ reported <= size
      BY <2>1, <2>3, <2>4 DEF IInv, PartIsPrefix, ReportsAreDue
    <3>2. IsWhole
      BY <2>4, <3>1 DEF IsWhole, IInv, PartIsPrefix, TypeOK
    <3>3. reported >= size
      BY <1>1, <3>1 DEF IInv, ReportsAreDue
    <3>4. QED
      BY <2>1, <3>1, <3>2, <3>3
  <2>5. QED
    BY <2>3, <2>4
<1>6. CopyIsWhole'
  BY <1>1, <1>5 DEF CopyIsWhole, IsWhole, TellsSize
<1>7. ProgressIsExact'
  BY <1>1, <1>4, <1>5 DEF ProgressIsExact, ReportsAreDue, TellsSize
<1>8. QED
  BY <1>2, <1>3, <1>4, <1>6, <1>7 DEF IInv

\* Every step keeps the invariant.
LEMMA IInvStep == IInv /\ [Next]_vars => IInv'
<1> SUFFICES ASSUME IInv, [Next]_vars PROVE IInv'
  OBVIOUS
<1>1. CASE Backoff
  BY <1>1, FailStep, QuietStep DEF Backoff, Errors
<1>2. ASSUME NEW e \in Errors, DialFails(e) \/ Drop(e) PROVE IInv'
  <2>1. pc # "ended" /\ (TryAgain(e) \/ GiveUp(e))
    BY <1>2 DEF DialFails, Drop, Fail
  <2>2. QED
    BY <2>1, FailStep
<1>3. CASE Reject \/ LocalFails
  <2>1. pc # "ended" /\ (TryAgain("error") \/ GiveUp("error")) /\ "error" \in Errors
    BY <1>3 DEF Reject, LocalFails, Fail, Errors
  <2>2. QED
    BY <2>1, FailStep
<1>4. QED
  BY <1>1, <1>2, <1>3, StartStep, AgainStep, QuietStep, AcceptPartStep, PartStep,
     SkipUploadStep, ResumeUploadStep, NoSizeStep, RestRefusedStep, OpenStep, SendStep,
     ReceiveStep, AckedStep, SizeAgainStep, AcceptStep DEF Next, Step

\* IInv holds in every reachable state.
THEOREM Invariance == Spec => []IInv
BY InitInv, IInvStep, PTL DEF Spec

----------------------------------------------------------------------------
(* What follows from it.                                                    *)

\* The transfer keeps its types, for files of any size.
THEOREM TypeCorrect == Spec => []TypeOK
<1>1. IInv => TypeOK
  BY DEF IInv
<1>2. QED
  BY <1>1, Invariance, PTL

\* An accepted file is the source, whatever was resumed, refused, dropped or
\* acknowledged too early, for files of any size.
THEOREM AcceptedIsWhole == Spec => []CopyIsWhole
<1>1. IInv => CopyIsWhole
  BY DEF IInv
<1>2. QED
  BY <1>1, Invariance, PTL

\* The progress of a file is never more than the file, and all of it in the end.
THEOREM ProgressAddsUp == Spec => []ProgressIsExact
<1>1. IInv => ProgressIsExact
  BY DEF IInv
<1>2. QED
  BY <1>1, Invariance, PTL

\* A truncated size differs from the size by a multiple of the modulus.
LEMMA ModOfDifference ==
    ASSUME NEW n \in Nat, NEW w \in Nat \ {0}
    PROVE  (n - (n % w)) % w = 0
<1>1. n = (w * (n \div w)) + (n % w) /\ n \div w \in Nat /\ n % w \in Nat
  OBVIOUS
<1>2. \A q \in Nat : (w * q) % w = 0
  OBVIOUS
<1> DEFINE q == n \div w
           p == w * q
<1>3. p \in Nat /\ p % w = 0
  BY <1>1, <1>2
<1>4. n - (n % w) = p
  <2> HIDE DEF p
  <2>1. n = p + (n % w)
    BY <1>1 DEF p
  <2>2. QED
    BY <1>1, <1>3, <2>1
<1>5. QED
  BY <1>3, <1>4

\* Verification rejects no whole copy, for any size and any modulus.
THEOREM WholeCopiesPass == Spec => []WholeIsAccepted
<1>1. IInv => WholeIsAccepted
  <2> SUFFICES ASSUME IInv, pc = "verifying", IsWhole, answer # NoAnswer
               PROVE  IF dir = "down" THEN sizeConsistent(Len(dst), answer)
                      ELSE sizeConsistent(answer, size)
    BY DEF WholeIsAccepted, Verified
  <2>1. size \in Nat /\ Len(dst) = size /\ dir \in {"up", "down"}
    <3>1. size \in Nat /\ dir \in {"up", "down"}
      BY DEF IInv, TypeOK, Blocks
    <3>2. dst \in [1..size -> Nat]
      BY <3>1 DEF IsWhole
    <3>3. QED
      BY <3>1, <3>2, FunctionIsSeq
  <2>2. answer = Reply
    BY <2>1 DEF IInv, AnswersAreCurrent
  <2>3. CASE dir = "up"
    BY <2>1, <2>2, <2>3, Replies DEF sizeConsistent
  <2>4. CASE dir = "down"
    <3>1. answer = size \/ answer = size % Wrap
      BY <2>2, <2>4 DEF Reply, Remote
    <3>2. /\ size % Wrap \in Nat /\ size % Wrap <= size
          /\ (size - (size % Wrap)) % Wrap = 0
      BY <2>1, ModBounds, ModOfDifference, TransferAssumption
    <3>3. QED
      BY <2>1, <2>4, <3>1, <3>2 DEF sizeConsistent
  <2>5. QED
    BY <2>1, <2>3, <2>4
<1>2. QED
  BY <1>1, Invariance, PTL

\* What has arrived of a file is never thrown away, by a server that knows REST and
\* SIZE and answers in time.
THEOREM ArrivedStays == Spec => ArrivedIsKept
<1> DEFINE A == TellsSize /\ server.rest /\ ~late /\ ~foreign => Len(dst') >= Len(dst)
<1>1. IInv /\ [Next]_vars => [A]_vars
  <2> SUFFICES ASSUME IInv, [Next]_vars, TellsSize, server.rest, ~late, ~foreign
               PROVE  Len(dst') >= Len(dst)
    OBVIOUS
  <2>1. /\ Len(dst) \in Nat /\ Len(dst) <= size /\ size \in Nat
        /\ dir \in {"up", "down"}
    BY Replies DEF IInv, PartIsPrefix, TypeOK, Blocks
  <2>2. CASE DiscardPart
    <3>1. offset = Len(dst) /\ Reply = size /\ offset > Reply
      BY <2>2, Replies DEF DiscardPart, IInv, ResumesAtEnd
    <3>2. QED
      BY <2>1, <3>1
  <2>3. CASE RestRefused
    BY <2>3 DEF RestRefused
  <2>4. CASE Redial
    BY <2>4 DEF Redial, IInv, ResumesAtEnd
  <2>5. CASE Open
    <3>1. dir = "up" => offset = Len(dst)
      BY <2>5 DEF Open, IInv, ResumesAtEnd
    <3>2. dst' = dst \/ (dst' = <<>> /\ Len(dst) = 0)
      BY <2>5, <3>1 DEF Open, OpenAt
    <3>3. QED
      BY <2>1, <3>2
  <2>6. CASE Receive
    <3>1. write = Len(dst) /\ flight # <<>> /\ flight \in Seq(1..MaxSize)
          /\ (\A i \in 1..Len(flight) : flight[i] = write + i)
      BY <2>6 DEF Receive, IInv, StreamIsInOrder, TypeOK
    <3>2. Head(flight) \in 1..MaxSize /\ 1..MaxSize \subseteq 0..MaxSize
          /\ dst \in Seq(0..MaxSize)
      BY <3>1, HeadTailProperties, TransferAssumption, SMTT(30) DEF IInv, TypeOK
    <3>3. dst' = Written(Len(dst), Head(flight))
      BY <2>6, <3>1 DEF Receive
    <3>4. Len(dst') = Len(dst) + 1
      BY <3>2, <3>3, WrittenAtEnd
    <3>5. QED
      BY <2>1, <3>4
  <2>7. CASE UNCHANGED dst
    BY <2>1, <2>7
  <2>8. QED
    <3>1. ASSUME NEW e \in Errors, TryAgain(e) \/ GiveUp(e) PROVE UNCHANGED dst
      BY <3>1 DEF TryAgain, GiveUp
    <3>2. CASE Backoff
      BY <2>7, <3>1, <3>2 DEF Backoff, Errors
    <3>3. ASSUME NEW e \in Errors, DialFails(e) \/ Drop(e) PROVE UNCHANGED dst
      BY <3>1, <3>3 DEF DialFails, Drop, Fail
    <3>4. CASE Reject \/ LocalFails
      BY <2>7, <3>1, <3>4 DEF Reject, LocalFails, Fail, Errors
    <3>5. CASE Start \/ Dial \/ AcceptPart \/ ContinuePart \/ SkipUpload
               \/ ResumeUpload \/ NoSize \/ LateReply \/ Send \/ Acknowledge
               \/ AcknowledgeShort \/ SizeAgain \/ NoSizeAgain \/ Accept
               \/ Cancel \/ Again \/ UNCHANGED vars
      BY <2>7, <3>5 DEF Start, Dial, AcceptPart, ContinuePart, SkipUpload,
         ResumeUpload, NoSize, LateReply, Send, Acknowledge, AcknowledgeShort, Acked,
         SizeAgain, NoSizeAgain, Accept, Cancel, Again, vars
    <3>6. QED
      BY <2>2, <2>3, <2>4, <2>5, <2>6, <2>7, <3>2, <3>3, <3>4, <3>5 DEF Next, Step
<1>2. QED
  BY <1>1, Invariance, PTL DEF Spec, ArrivedIsKept
=============================================================================
