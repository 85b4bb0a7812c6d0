------------------------------ MODULE Consoles ------------------------------
(***************************************************************************)
(* The consoles app.Service (PS3), ps4.Service and ps5.Service know, and   *)
(* how browsers hear of them.  Scan registers what ScanPool finds,         *)
(* PruneOffline forgets who does not answer any more, and a visit of one   *)
(* console registers it and writes back what it learnt; all of them        *)
(* publish on the EventBus and run in requests of their own.  The map has  *)
(* a lock that nobody holds while he talks to a console.                   *)
(*                                                                         *)
(* A record is the address in it and whether the console was detected;     *)
(* counts, storage and times are left out.  The key of a record is text:   *)
(* an address as the code writes it, or another way to write it that       *)
(* validateIP accepts.  The services differ in their visits only.  Each    *)
(* request comes once.                                                     *)
(***************************************************************************)
EXTENDS EventBus, ScanPool

CONSTANT Visits  \* [kind, text]: the visits that may come

VARIABLES
    consoles,  \* the map: [text -> [id, detected]]
    prune,     \* PruneOffline: [at, hosts, offline]
    visit      \* a visit: [at, kind, host]

registryVars == <<consoles, prune, visit>>
consolesVars == <<registryVars, poolVars, busVars>>

Kinds == {"AddConsole", "app.RemoteGames", "ps4.Compare", "ps5.RemoteGames"}

\* An address as text: as String writes it, or, say, as ::ffff:192.168.0.5.
Texts == [ip : Addresses, plain : BOOLEAN]

ASSUME VisitsAssumption == Visits \subseteq [kind : Kinds, text : Texts]

String(ip) == [ip |-> ip, plain |-> TRUE]
NoText     == String(NoHost)

\* Mutant: what ParseIP accepts is taken as it is.
validateIP_AsWritten(text) == text

validateIP(text) == String(text.ip)

Seen(id)  == [id |-> id, detected |-> TRUE]
Asked(id) == [id |-> id, detected |-> FALSE]

NoPrune(step) == [at |-> step, hosts |-> {}, offline |-> {}]
NoVisit(step) == [at |-> step, kind |-> "none", host |-> NoText]

Put(host, console) ==
    consoles' = [h \in DOMAIN consoles \cup {host} |->
                    IF h = host THEN console ELSE consoles[h]]
Forget(gone) == consoles' = [h \in DOMAIN consoles \ gone |-> consoles[h]]

ConsolesInit ==
    /\ consoles = <<>>
    /\ prune = NoPrune("idle")
    /\ visit = NoVisit("idle")
    /\ PoolInit /\ BusInit

----------------------------------------------------------------------------
(* Scan.                                                                    *)

ScanStarted ==
    /\ scan = "idle"
    /\ Publish("scan")
    /\ scan' = "start"
    /\ UNCHANGED <<registryVars, hosts, feeding, worker, found, cancelled, failed,
                   answered>>

\* The callback: the map, then the event.
HostFound ==
    /\ scan = "register"
    /\ LET host == String(found[Len(found)]) IN Put(host, Seen(host))
    /\ scan' = "announce"
    /\ UNCHANGED <<prune, visit, busVars, hosts, feeding, worker, found,
                   cancelled, failed, answered>>

AnnounceHost ==
    /\ scan = "announce"
    /\ Publish("scan")
    /\ scan' = "collect"
    /\ UNCHANGED <<registryVars, hosts, feeding, worker, found, cancelled, failed,
                   answered>>

ScanCompleted ==
    /\ scan = "complete"
    /\ Publish("scan")
    /\ scan' = "returned"
    /\ UNCHANGED <<registryVars, hosts, feeding, worker, found, cancelled, failed,
                   answered>>

\* The caller of Scan, when Publish has returned.
Collector ==
    \/ Quiet("scan") /\ (ScanStarted \/ HostFound \/ AnnounceHost \/ ScanCompleted)
    \/ /\ Quiet("scan")
       /\ \/ \E n \in Networks : StartScan(n)
          \/ \E w \in Workers : Deliver(w)
          \/ ResultsClosed
       /\ UNCHANGED <<registryVars, busVars>>

Goroutines ==
    /\ \/ \E w \in Workers : Feed(w) \/ WorkerStep(w) \/ Detect(w)
       \/ CloseJobs
       \/ CancelScan
    /\ UNCHANGED <<registryVars, busVars>>

----------------------------------------------------------------------------
(* PruneOffline.                                                            *)

PruneSnapshot ==
    /\ prune.at = "idle"
    /\ prune' = [at |-> "probe", hosts |-> DOMAIN consoles, offline |-> {}]
    /\ UNCHANGED <<consoles, visit>>

\* scanner.Offline: one goroutine a host.  An error is no answer, and so is the
\* end of the request.
Reprobe ==
    /\ prune.at = "probe"
    /\ \E h \in prune.hosts, gone \in BOOLEAN :
          prune' = [prune EXCEPT !.hosts = @ \ {h},
                                 !.offline = IF gone THEN @ \cup {h} ELSE @]
    /\ UNCHANGED <<consoles, visit>>

\* Who did not answer goes, also if he has been registered again by now; who
\* came since the snapshot stays.
PruneDelete ==
    /\ prune.at = "probe" /\ prune.hosts = {}
    /\ Forget(prune.offline)
    /\ prune' = NoPrune("announce")
    /\ UNCHANGED visit

PruneAnnounce ==
    /\ prune.at = "announce"
    /\ Publish("prune")
    /\ prune' = NoPrune("returned")
    /\ UNCHANGED <<consoles, visit, poolVars>>

PruneOffline ==
    \/ (PruneSnapshot \/ Reprobe \/ PruneDelete) /\ UNCHANGED <<poolVars, busVars>>
    \/ PruneAnnounce

----------------------------------------------------------------------------
(* Visits.                                                                  *)

\* Mutant: a console that is known is registered anew.
EnsureConsole_Overwrites(text) ==
    LET host == validateIP(text) IN Put(host, Asked(host))

EnsureConsole(text) ==
    LET host == validateIP(text)
    IN  IF host \in DOMAIN consoles THEN UNCHANGED consoles
        ELSE Put(host, Asked(host))

\* AddConsole asks the detector first, and goes on with what validateIP returned.
\* The others register that and go on with what they were asked.  Enqueue does no
\* more than register.
Visit(kind, text) ==
    /\ visit.at = "idle"
    /\ visit' = [at |-> "ask", kind |-> kind,
                 host |-> IF kind = "AddConsole" THEN validateIP(text) ELSE text]
    /\ IF kind = "AddConsole" THEN UNCHANGED consoles ELSE EnsureConsole(text)
    /\ UNCHANGED prune

\* The console does not answer, or not as a console.
VisitFails ==
    /\ visit.at = "ask"
    /\ visit' = NoVisit("returned")
    /\ UNCHANGED <<consoles, prune>>

Answered(kind, console) ==
    /\ visit.at = "ask" /\ visit.kind = kind
    /\ Put(visit.host, console)
    /\ visit' = NoVisit("announce")
    /\ UNCHANGED prune

AddConsole == Answered("AddConsole", Seen(visit.host))

\* app.RemoteGames sets the address of the record to what it was asked.
RemoteGames == Answered("app.RemoteGames", Seen(visit.host))

\* ps4.Compare writes the copy back that EnsureConsole returned when it began.
Compare == Answered("ps4.Compare", Seen(validateIP(visit.host)))

\* ps5.RemoteGames changes the record under what it was asked: an empty one, if
\* that is not where EnsureConsole registered the console, or if the console was
\* forgotten meanwhile.
UpdateFound ==
    Answered("ps5.RemoteGames",
             Seen(IF visit.host \in DOMAIN consoles THEN consoles[visit.host].id
                  ELSE NoText))

VisitAnnounce ==
    /\ visit.at = "announce"
    /\ Publish("visit")
    /\ visit' = NoVisit("returned")
    /\ UNCHANGED <<consoles, prune, poolVars>>

Visiting ==
    \/ /\ \/ \E v \in Visits : Visit(v.kind, v.text)
          \/ VisitFails \/ AddConsole \/ RemoteGames \/ Compare \/ UpdateFound
       /\ UNCHANGED <<poolVars, busVars>>
    \/ VisitAnnounce

----------------------------------------------------------------------------
(* The whole.                                                               *)

Publishing(p) == Send(p) /\ UNCHANGED <<registryVars, poolVars>>

Subscribers ==
    /\ \E s \in Streams : Subscribe(s) \/ Receive(s) \/ Unsubscribe(s)
    /\ UNCHANGED <<registryVars, poolVars>>

ConsolesNext ==
    \/ Collector \/ Goroutines
    \/ PruneOffline
    \/ Visiting
    \/ \E p \in Publishers : Publishing(p)
    \/ Subscribers

\* The goroutines of a scan go on: dialling has a timeout.  Nothing is assumed of the
\* detector, which may wait for a server.  No subscriber need ever read, and nobody
\* need cancel.
ScanFairness ==
    /\ WF_consolesVars(Quiet("scan") /\ scan # "idle" /\ Collector)
    /\ WF_consolesVars(Publishing("scan"))
    /\ WF_consolesVars(CloseJobs /\ UNCHANGED <<registryVars, busVars>>)
    /\ \A w \in Workers :
          WF_consolesVars((Feed(w) \/ WorkerStep(w)) /\ UNCHANGED <<registryVars, busVars>>)

ConsolesSpec == ConsolesInit /\ [][ConsolesNext]_consolesVars /\ ScanFairness

----------------------------------------------------------------------------
(* Properties.                                                              *)

\* A scan that reports no error has dialled every address of the network and
\* returns every console that answered, once: none is lost between a worker and
\* the caller, whatever is cancelled when.
ScanIsComplete ==
    scan = "returned" /\ ~failed =>
        /\ hosts = <<>> /\ PoolEnded
        /\ Range(found) = answered
        /\ IsInjective(found)

\* A detected console stays known and detected until a prune forgets it that
\* probed it and had no answer; whatever else is written to the map meanwhile.
DetectedStaysKnown ==
    [][ \A h \in DOMAIN consoles :
           consoles[h].detected =>
               \/ h \in DOMAIN consoles' /\ consoles'[h].detected
               \/ prune.at = "probe" /\ h \in prune.offline ]_consolesVars

\* A record stands under its own address, as validateIP writes it.  One that does not
\* comes from a visit that named the console otherwise, and one without an address
\* only from ps5.RemoteGames: then, or when a prune forgot the console during it.
RecordsAreFiled ==
    [][ \A h \in DOMAIN consoles' :
           LET id == consoles'[h].id IN
           \/ id = h /\ h.plain
           \/ h \in DOMAIN consoles /\ id = consoles[h].id
           \/ /\ visit.at = "ask" /\ h = visit.host
              /\ id = NoText => visit.kind = "ps5.RemoteGames"
              /\ ~h.plain \/ (id = NoText /\ prune.at \notin {"idle", "probe"}) ]_consolesVars

\* The map of consoles, whoever writes to it: what is known of a console that answered
\* is not lost, and its record is the one under its own address.
RegistryIsSound == DetectedStaysKnown /\ RecordsAreFiled

\* If no detector waits for a server for good, a scan ends and leaves no goroutine,
\* although no subscriber reads what it publishes, others publish and the request may
\* be cancelled.
ScanEnds ==
    (\A w \in Workers : []<>(worker[w].at # "detect"))
        => (scan # "idle" ~> scan = "returned" /\ PoolEnded)
=============================================================================
