------------------------------ MODULE EventBus ------------------------------
(***************************************************************************)
(* events.Bus: Publish hands an event to every subscriber under a read     *)
(* lock and never waits for one; Subscribe and unsubscribe take the write  *)
(* lock.  A section under the write lock is one step; Publish takes a step *)
(* for each subscriber.  An event is its place in a channel.               *)
(***************************************************************************)
EXTENDS Naturals, FiniteSets

CONSTANTS
    Publishers,  \* goroutines that publish
    Streams,     \* subscriptions: a stream of /api/events, the log of serve
    Buffer       \* events a channel holds

ASSUME BusAssumption == Buffer \in Nat \ {0}

VARIABLES
    subs,    \* the open subscriptions
    closed,  \* the closed channels
    chan,    \* [Streams -> events that wait in the channel]
    pub      \* [Publishers -> the subscribers Publish still has to serve]

busVars == <<subs, closed, chan, pub>>

\* Publish returned, and gave the read lock back with the last subscriber.
Quiet(p) == pub[p] = {}
Readers  == {p \in Publishers : ~Quiet(p)}

BusInit ==
    /\ subs = {} /\ closed = {}
    /\ chan = [s \in Streams |-> 0]
    /\ pub = [p \in Publishers |-> {}]

Subscribe(s) ==
    /\ s \notin subs \cup closed
    /\ Readers = {}
    /\ subs' = subs \cup {s}
    /\ UNCHANGED <<closed, chan, pub>>

\* Publish has the read lock: nobody joins or leaves until it returns.
Publish(p) ==
    /\ Quiet(p)
    /\ pub' = [pub EXCEPT ![p] = subs]
    /\ UNCHANGED <<subs, closed, chan>>

\* Mutant: a full channel is waited for.
Send_Blocking(p) ==
    \E s \in pub[p] :
        /\ chan[s] < Buffer
        /\ chan' = [chan EXCEPT ![s] = @ + 1]
        /\ pub' = [pub EXCEPT ![p] = @ \ {s}]
        /\ UNCHANGED <<subs, closed>>

\* The subscribers come in any order; one whose channel is full misses the event.
Send(p) ==
    \E s \in pub[p] :
        /\ chan' = [chan EXCEPT ![s] = IF @ < Buffer THEN @ + 1 ELSE @]
        /\ pub' = [pub EXCEPT ![p] = @ \ {s}]
        /\ UNCHANGED <<subs, closed>>

\* The loop of /api/events and of the log takes the next event.
Receive(s) ==
    /\ s \in subs /\ chan[s] > 0
    /\ chan' = [chan EXCEPT ![s] = @ - 1]
    /\ UNCHANGED <<subs, closed, pub>>

\* Mutant: the channel is closed before the lock is taken.
Unsubscribe_Unlocked(s) ==
    /\ s \in subs
    /\ subs' = subs \ {s}
    /\ closed' = closed \cup {s}
    /\ chan' = [chan EXCEPT ![s] = 0]
    /\ UNCHANGED pub

\* The request ended, or serve stops: removed and closed under the lock, once.
\* Nobody reads what is left in the channel.
Unsubscribe(s) ==
    /\ s \in subs
    /\ Readers = {}
    /\ subs' = subs \ {s}
    /\ closed' = closed \cup {s}
    /\ chan' = [chan EXCEPT ![s] = 0]
    /\ UNCHANGED pub

\* No publisher ever holds a closed channel, where a send would end the process:
\* whatever it publishes when a browser leaves.
SendsAreSafe == \A p \in Publishers : pub[p] \cap closed = {}
=============================================================================
