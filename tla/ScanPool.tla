------------------------------ MODULE ScanPool ------------------------------
(***************************************************************************)
(* scanner.Scanner.Scan: a feeder hands addresses to workers, a worker     *)
(* dials an address and asks the detector, and what it finds goes to the   *)
(* caller of Scan, who collects until every worker has ended.  The two     *)
(* channels have no buffer: a send is a receive.                           *)
(***************************************************************************)
EXTENDS Integers, Sequences, Functions

CONSTANTS
    Workers,
    Networks,      \* [first, bits]: the networks that are asked for
    AddressBits,   \* of an address: 32
    MinBits        \* of a network: 16

ASSUME ScanAssumption ==
    /\ Workers # {} /\ AddressBits \in Nat /\ MinBits \in 0 .. AddressBits
    /\ \A n \in Networks :
          /\ n.first \in Nat /\ n.bits \in 0 .. AddressBits
          /\ 2 ^ (AddressBits - n.bits) \in Nat  \* which the provers do not know

VARIABLES
    scan,       \* the step of the caller
    hosts,      \* the addresses the feeder still has
    feeding,    \* the feeder has not closed jobs
    worker,     \* [Workers -> [at, host]]
    found,      \* the consoles collected
    cancelled,  \* ctx is done
    failed,     \* Scan returned an error
    answered    \* history: the addresses where a console answered

poolVars == <<scan, hosts, feeding, worker, found, cancelled, failed, answered>>

NoHost == -1
Idle   == [at |-> "idle", host |-> NoHost]

\* The addresses of a network, without the first and the last one if it has more
\* than two; none if it is too large.
Enumerate(n) ==
    LET count == 2 ^ (AddressBits - n.bits)
        all   == [i \in 1 .. count |-> n.first + i - 1]
    IN  IF n.bits < MinBits THEN <<>>
        ELSE IF count > 2 THEN SubSeq(all, 2, count - 1) ELSE all

Addresses == UNION {Range(Enumerate(n)) : n \in Networks}

PoolInit ==
    /\ scan = "idle" /\ hosts = <<>> /\ feeding = FALSE
    /\ worker = [w \in Workers |-> [at |-> "done", host |-> NoHost]]
    /\ found = <<>> /\ cancelled = FALSE /\ failed = FALSE
    /\ answered = {}

\* A network that is too large is refused; else the goroutines start.
StartScan(n) ==
    /\ scan = "start"
    /\ IF n.bits < MinBits
       THEN /\ scan' = "returned" /\ failed' = TRUE
            /\ UNCHANGED <<hosts, feeding, worker>>
       ELSE /\ scan' = "collect"
            /\ hosts' = Enumerate(n) /\ feeding' = TRUE
            /\ worker' = [w \in Workers |-> Idle]
            /\ UNCHANGED failed
    /\ UNCHANGED <<found, cancelled, answered>>

CancelScan ==
    /\ scan \notin {"idle", "returned"} /\ ~cancelled
    /\ cancelled' = TRUE
    /\ UNCHANGED <<scan, hosts, feeding, worker, found, failed, answered>>

\* The feeder: to a worker that waits, or no more when ctx is done.
Feed(w) ==
    /\ feeding /\ hosts # <<>>
    /\ worker[w].at = "idle"
    /\ worker' = [worker EXCEPT ![w] = [at |-> "dial", host |-> Head(hosts)]]
    /\ hosts' = Tail(hosts)
    /\ UNCHANGED <<scan, feeding, found, cancelled, failed, answered>>

CloseJobs ==
    /\ feeding /\ (hosts = <<>> \/ cancelled)
    /\ feeding' = FALSE
    /\ UNCHANGED <<scan, hosts, worker, found, cancelled, failed, answered>>

\* The port opens within the probe's timeout, or not.
Dial(w) ==
    /\ worker[w].at = "dial"
    /\ \/ worker' = [worker EXCEPT ![w].at = "detect"]
       \/ worker' = [worker EXCEPT ![w] = Idle]
    /\ UNCHANGED <<scan, hosts, feeding, found, cancelled, failed, answered>>

\* The answer of the detector: a console, which goes on, or not.  DetectionTimeout
\* bounds all it asks but the listing of an FTP server, which is read from a
\* connection without a deadline while ctx is looked at between two reads: it is
\* the server that ends it.
Detect(w) ==
    /\ worker[w].at = "detect"
    /\ \/ /\ worker' = [worker EXCEPT ![w].at = "send"]
          /\ answered' = answered \cup {worker[w].host}
       \/ worker' = [worker EXCEPT ![w] = Idle] /\ UNCHANGED answered
    /\ UNCHANGED <<scan, hosts, feeding, found, cancelled, failed>>

\* results <- console: the collector has it next.
Deliver(w) ==
    /\ worker[w].at = "send" /\ scan = "collect"
    /\ found' = Append(found, worker[w].host)
    /\ scan' = "register"
    /\ worker' = [worker EXCEPT ![w] = Idle]
    /\ UNCHANGED <<hosts, feeding, cancelled, failed, answered>>

Drop(w) ==
    /\ worker[w].at = "send" /\ cancelled
    /\ worker' = [worker EXCEPT ![w] = Idle]
    /\ UNCHANGED <<scan, hosts, feeding, found, cancelled, failed, answered>>

WorkerEnds(w) ==
    /\ worker[w].at = "idle" /\ ~feeding
    /\ worker' = [worker EXCEPT ![w].at = "done"]
    /\ UNCHANGED <<scan, hosts, feeding, found, cancelled, failed, answered>>

PoolEnded == ~feeding /\ \A w \in Workers : worker[w].at = "done"

\* Mutant: what was collected is taken for everything.
ResultsClosed_Unchecked ==
    /\ scan = "collect" /\ PoolEnded
    /\ scan' = "complete"
    /\ UNCHANGED <<hosts, feeding, worker, found, cancelled, failed, answered>>

\* wait.Wait, then results is closed; with ctx done the scan is an error.
ResultsClosed ==
    /\ scan = "collect" /\ PoolEnded
    /\ scan' = IF cancelled THEN "returned" ELSE "complete"
    /\ failed' = cancelled
    /\ UNCHANGED <<hosts, feeding, worker, found, cancelled, answered>>

\* What a worker does without waiting for a detector.
WorkerStep(w) == Dial(w) \/ Drop(w) \/ WorkerEnds(w)
=============================================================================
