--------------------------- MODULE ConsolesProofs ---------------------------
(***************************************************************************)
(* Machine-checked proofs about the console registry, for any number of    *)
(* workers, networks, publishers and subscribers: no event is sent on a    *)
(* closed channel, a detected console stays known, a record stands under its*)
(* own address, and a scan that reports no error is complete.  That a scan *)
(* ends is left to TLC.                                                    *)
(***************************************************************************)
EXTENDS Consoles, TLAPS, SequenceTheorems

----------------------------------------------------------------------------
(* The event bus.                                                           *)

\* Whoever publishes serves open subscriptions, and no open one is closed.
BusInv ==
    /\ pub \in [Publishers -> SUBSET Streams]
    /\ subs \subseteq Streams
    /\ \A p \in Publishers : pub[p] \subseteq subs
    /\ subs \cap closed = {}

\* What a step of the whole may be to the bus.
BusStep ==
    \/ UNCHANGED busVars
    \/ \E p : Publish(p)
    \/ \E p \in Publishers : Send(p)
    \/ \E s \in Streams : Subscribe(s) \/ Receive(s) \/ Unsubscribe(s)

\* Every action of the module leaves the bus alone or takes one of its steps.
LEMMA NextIsBusStep == [ConsolesNext]_consolesVars => BusStep
<1> SUFFICES ASSUME [ConsolesNext]_consolesVars PROVE BusStep
  OBVIOUS
<1>1. CASE Collector
  BY <1>1 DEF Collector, ScanStarted, HostFound, AnnounceHost, ScanCompleted, BusStep
<1>2. CASE Goroutines
  BY <1>2 DEF Goroutines, BusStep
<1>3. CASE PruneOffline
  BY <1>3 DEF PruneOffline, PruneAnnounce, BusStep
<1>4. CASE Visiting
  BY <1>4 DEF Visiting, VisitAnnounce, BusStep
<1>5. CASE \E p \in Publishers : Publishing(p)
  BY <1>5 DEF Publishing, BusStep
<1>6. CASE Subscribers
  BY <1>6 DEF Subscribers, BusStep
<1>7. CASE UNCHANGED consolesVars
  BY <1>7 DEF consolesVars, BusStep
<1>8. QED
  BY <1>1, <1>2, <1>3, <1>4, <1>5, <1>6, <1>7 DEF ConsolesNext

\* Joining and leaving wait for the publishers, so BusInv is inductive.
LEMMA BusInvIsInductive == BusInv /\ BusStep => BusInv'
<1> SUFFICES ASSUME BusInv, BusStep PROVE BusInv'
  OBVIOUS
<1> USE DEF BusInv
<1>1. CASE UNCHANGED busVars
  BY <1>1 DEF busVars
<1>2. ASSUME NEW p, Publish(p) PROVE BusInv'
  BY <1>2 DEF Publish
<1>3. ASSUME NEW p \in Publishers, Send(p) PROVE BusInv'
  BY <1>3 DEF Send
<1>4. ASSUME NEW s \in Streams, Subscribe(s) PROVE BusInv'
  BY <1>4 DEF Subscribe, Readers, Quiet
<1>5. ASSUME NEW s \in Streams, Receive(s) PROVE BusInv'
  BY <1>5 DEF Receive
<1>6. ASSUME NEW s \in Streams, Unsubscribe(s) PROVE BusInv'
  <2>1. \A p \in Publishers : pub[p] = {}
    BY <1>6 DEF Unsubscribe, Readers, Quiet
  <2>2. QED
    BY <1>6, <2>1 DEF Unsubscribe
<1>7. QED
  BY <1>1, <1>2, <1>3, <1>4, <1>5, <1>6 DEF BusStep

\* No publisher ever holds a closed channel.
THEOREM SendsStaySafe == ConsolesSpec => []SendsAreSafe
<1>1. ConsolesInit => BusInv
  BY DEF ConsolesInit, BusInit, BusInv
<1>2. BusInv /\ [ConsolesNext]_consolesVars => BusInv'
  BY NextIsBusStep, BusInvIsInductive
<1>3. BusInv => SendsAreSafe
  BY DEF BusInv, SendsAreSafe
<1>4. QED
  BY <1>1, <1>2, <1>3, PTL DEF ConsolesSpec

----------------------------------------------------------------------------
(* The registry.                                                            *)

\* No address is NoHost.
LEMMA AddressesAreNumbers == Addresses \subseteq Nat
<1> SUFFICES ASSUME NEW n \in Networks, NEW i \in DOMAIN Enumerate(n)
             PROVE  Enumerate(n)[i] \in Nat
  BY DEF Addresses, Range
<1> DEFINE count == 2 ^ (AddressBits - n.bits)
           all   == [j \in 1 .. count |-> n.first + j - 1]
<1>1. count \in Nat /\ n.first \in Nat
  BY ScanAssumption
<1>2. Enumerate(n) = IF n.bits < MinBits THEN <<>>
                     ELSE IF count > 2 THEN SubSeq(all, 2, count - 1) ELSE all
  BY DEF Enumerate, count
<1> HIDE DEF count
<1>3. \A j \in 1 .. count : all[j] \in Nat
  BY <1>1
<1>4. CASE n.bits < MinBits
  BY <1>2, <1>4
<1>5. CASE ~(n.bits < MinBits) /\ count > 2
  <2>1. Enumerate(n) = SubSeq(all, 2, count - 1)
    BY <1>2, <1>5
  <2>2. /\ SubSeq(all, 2, count - 1) \in Seq(Nat)
        /\ Len(SubSeq(all, 2, count - 1)) = count - 2
        /\ \A j \in 1 .. count - 2 :
              SubSeq(all, 2, count - 1)[j] = all[2 + j - 1] /\ 2 + j - 1 \in 1 .. count
    <3>1. all \in Seq(Nat) /\ Len(all) = count
      BY <1>1, <1>3
    <3>2. \A j \in 2 .. count - 1 : all[j] \in Nat
      BY <1>1
    <3> HIDE DEF all
    <3>3. QED
      BY <1>1, <1>5, <3>1, <3>2, SubSeqProperties
  <2>3. QED
    BY <1>3, <2>1, <2>2, LenProperties
<1>6. CASE ~(n.bits < MinBits) /\ ~(count > 2)
  BY <1>2, <1>3, <1>6
<1>7. QED
  BY <1>4, <1>5, <1>6

\* AddConsole goes on with an address as validateIP writes it.  A console that
\* ps5.RemoteGames asks, and that was named like that, was registered when the visit
\* began, and only a prune takes it away again.
RegistryInv ==
    /\ prune = [at |-> prune.at, hosts |-> prune.hosts, offline |-> prune.offline]
    /\ visit = [at |-> visit.at, kind |-> visit.kind, host |-> visit.host]
    /\ visit.at = "ask" => /\ visit.host \in Texts
                           /\ visit.kind = "AddConsole" => visit.host.plain
    /\ visit.at = "ask" /\ visit.kind = "ps5.RemoteGames" /\ prune.at \in {"idle", "probe"}
          => ~visit.host.plain \/ visit.host \in DOMAIN consoles

\* What DetectedStaysKnown says of one step.
KeptByStep ==
    \A h \in DOMAIN consoles :
        consoles[h].detected =>
            \/ h \in DOMAIN consoles' /\ consoles'[h].detected
            \/ prune.at = "probe" /\ h \in prune.offline

\* What RecordsAreFiled says of one step, and of one record in it.
FiledAs(h, id) ==
    \/ id = h /\ h.plain
    \/ h \in DOMAIN consoles /\ id = consoles[h].id
    \/ /\ visit.at = "ask" /\ h = visit.host
       /\ id = NoText => visit.kind = "ps5.RemoteGames"
       /\ ~h.plain \/ (id = NoText /\ prune.at \notin {"idle", "probe"})

FiledByStep == \A h \in DOMAIN consoles' : FiledAs(h, consoles'[h].id)

\* Putting a detected record into the map loses nothing.
LEMMA PutKeeps ==
    ASSUME NEW host, NEW id, Put(host, Seen(id))
    PROVE  KeptByStep /\ DOMAIN consoles' = DOMAIN consoles \cup {host}
BY DEF Put, Seen, KeptByStep

\* A record that is put where it may be leaves the map in order.
LEMMA PutFiles ==
    ASSUME NEW host, NEW console, Put(host, console), FiledAs(host, console.id)
    PROVE  FiledByStep
BY DEF Put, FiledByStep, FiledAs

\* Nor does leaving the map alone disturb anything.
LEMMA SameKeeps == consoles' = consoles => KeptByStep /\ FiledByStep
BY DEF KeptByStep, FiledByStep, FiledAs

\* RegistryInv is inductive, and under it every step keeps what it should.
LEMMA RegistryStep ==
    RegistryInv /\ [ConsolesNext]_consolesVars
        => RegistryInv' /\ KeptByStep /\ FiledByStep
<1> SUFFICES ASSUME RegistryInv, [ConsolesNext]_consolesVars
             PROVE  RegistryInv' /\ KeptByStep /\ FiledByStep
  OBVIOUS
<1> USE DEF RegistryInv
<1>1. ASSUME UNCHANGED registryVars PROVE RegistryInv' /\ KeptByStep /\ FiledByStep
  BY <1>1, SameKeeps DEF registryVars
<1>2. CASE Collector
  <2>1. CASE ~HostFound
    BY <1>2, <2>1, <1>1 DEF Collector, ScanStarted, AnnounceHost, ScanCompleted
  <2>2. CASE HostFound
    <3> DEFINE host == String(found[Len(found)])
    <3>1. /\ Put(host, Seen(host)) /\ visit' = visit /\ prune' = prune
      BY <2>2 DEF HostFound
    <3>2. KeptByStep /\ DOMAIN consoles' = DOMAIN consoles \cup {host}
      BY <3>1, PutKeeps
    <3>3. FiledAs(host, Seen(host).id)
      BY DEF FiledAs, Seen, String
    <3>4. FiledByStep
      BY <3>1, <3>3, PutFiles
    <3>5. QED
      BY <3>1, <3>2, <3>4
  <2>3. QED
    BY <2>1, <2>2
<1>3. CASE Goroutines
  BY <1>3, <1>1 DEF Goroutines
<1>4. CASE PruneOffline
  <2>1. CASE PruneSnapshot
    BY <2>1, SameKeeps DEF PruneSnapshot
  <2>2. CASE Reprobe
    <3>1. \E H, O : prune' = [prune EXCEPT !.hosts = H, !.offline = O]
      BY <2>2, Zenon DEF Reprobe
    <3>2. prune.at = "probe" /\ consoles' = consoles /\ visit' = visit
      BY <2>2 DEF Reprobe
    <3>3. prune' = [at |-> "probe", hosts |-> prune'.hosts, offline |-> prune'.offline]
      BY <3>1, <3>2
    <3>4. QED
      BY <3>2, <3>3, SameKeeps
  <2>3. CASE PruneDelete
    <3>1. /\ prune.at = "probe" /\ prune' = NoPrune("announce") /\ visit' = visit
          /\ consoles' = [h \in DOMAIN consoles \ prune.offline |-> consoles[h]]
      BY <2>3 DEF PruneDelete, Forget
    <3>2. KeptByStep /\ FiledByStep
      BY <3>1 DEF KeptByStep, FiledByStep, FiledAs
    <3>3. QED
      BY <3>1, <3>2 DEF NoPrune
  <2>4. CASE PruneAnnounce
    BY <2>4, SameKeeps DEF PruneAnnounce, NoPrune
  <2>5. QED
    BY <1>4, <2>1, <2>2, <2>3, <2>4 DEF PruneOffline
<1>5. CASE Visiting
  <2>1. ASSUME NEW kind \in Kinds, NEW text \in Texts, Visit(kind, text)
        PROVE  RegistryInv' /\ KeptByStep /\ FiledByStep
    <3> DEFINE host == validateIP(text)
    <3>1. host \in Texts /\ host.plain /\ (text.plain => text = host)
      BY DEF Texts, validateIP, String
    <3> HIDE DEF host
    <3>2. CASE kind = "AddConsole"
      <4>1. /\ visit' = [at |-> "ask", kind |-> kind, host |-> host]
            /\ consoles' = consoles /\ prune' = prune
        BY <2>1, <3>2 DEF Visit, host
      <4>2. QED
        BY <3>1, <3>2, <4>1, SameKeeps
    <3>3. CASE kind # "AddConsole"
      <4>1. /\ visit' = [at |-> "ask", kind |-> kind, host |-> text] /\ prune' = prune
            /\ IF host \in DOMAIN consoles THEN UNCHANGED consoles
               ELSE Put(host, Asked(host))
        BY <2>1, <3>3 DEF Visit, EnsureConsole, host
      <4>2. host \in DOMAIN consoles' /\ KeptByStep
        BY <4>1, SameKeeps DEF Put, KeptByStep
      <4>3. FiledAs(host, Asked(host).id)
        BY <3>1 DEF FiledAs, Asked
      <4>4. FiledByStep
        BY <4>1, <4>3, PutFiles, SameKeeps
      <4>5. QED
        BY <3>1, <3>3, <4>1, <4>2, <4>4
    <3>4. QED
      BY <3>2, <3>3
  <2>2. CASE VisitFails
    BY <2>2, SameKeeps DEF VisitFails, NoVisit
  <2>3. ASSUME NEW kind, NEW id, Answered(kind, Seen(id)),
               FiledAs(visit.host, id)
        PROVE  RegistryInv' /\ KeptByStep /\ FiledByStep
    <3>1. /\ Put(visit.host, Seen(id)) /\ visit' = NoVisit("announce") /\ prune' = prune
      BY <2>3 DEF Answered
    <3>2. KeptByStep
      BY <3>1, PutKeeps
    <3>3. FiledByStep
      BY <2>3, <3>1, PutFiles DEF Seen
    <3>4. QED
      BY <3>1, <3>2, <3>3 DEF NoVisit
  <2>4. ASSUME visit.at = "ask"
        PROVE  /\ visit.host \in Texts /\ visit.host # NoText
               /\ validateIP(visit.host) # NoText
               /\ visit.host.plain => visit.host = validateIP(visit.host)
    BY <2>4, AddressesAreNumbers DEF Texts, NoText, String, NoHost, validateIP
  <2>5. CASE AddConsole
    <3>1. visit.at = "ask" /\ visit.kind = "AddConsole"
      BY <2>5 DEF AddConsole, Answered
    <3>2. FiledAs(visit.host, visit.host)
      BY <3>1 DEF FiledAs
    <3>3. QED
      BY <2>3, <2>5, <3>2 DEF AddConsole
  <2>6. CASE RemoteGames
    <3>1. FiledAs(visit.host, visit.host)
      BY <2>4, <2>6 DEF RemoteGames, Answered, FiledAs
    <3>2. QED
      BY <2>3, <2>6, <3>1 DEF RemoteGames
  <2>7. CASE Compare
    <3>1. FiledAs(visit.host, validateIP(visit.host))
      BY <2>4, <2>7 DEF Compare, Answered, FiledAs
    <3>2. QED
      BY <2>3, <2>7, <3>1 DEF Compare
  <2>8. CASE UpdateFound
    <3> DEFINE id == IF visit.host \in DOMAIN consoles THEN consoles[visit.host].id
                     ELSE NoText
    <3>1. visit.at = "ask" /\ visit.kind = "ps5.RemoteGames"
      BY <2>8 DEF UpdateFound, Answered
    <3>2. FiledAs(visit.host, id)
      BY <3>1 DEF FiledAs
    <3>3. QED
      BY <2>3, <2>8, <3>2 DEF UpdateFound
  <2>9. CASE VisitAnnounce
    BY <2>9, SameKeeps DEF VisitAnnounce, NoVisit
  <2>10. \A v \in Visits : v.kind \in Kinds /\ v.text \in Texts
    BY VisitsAssumption
  <2>11. QED
    BY <1>5, <2>1, <2>2, <2>5, <2>6, <2>7, <2>8, <2>9, <2>10 DEF Visiting
<1>6. CASE \E p \in Publishers : Publishing(p)
  BY <1>6, <1>1 DEF Publishing
<1>7. CASE Subscribers
  BY <1>7, <1>1 DEF Subscribers
<1>8. CASE UNCHANGED consolesVars
  BY <1>8, <1>1 DEF consolesVars
<1>9. QED
  BY <1>2, <1>3, <1>4, <1>5, <1>6, <1>7, <1>8 DEF ConsolesNext

\* RegistryInv is an invariant.
LEMMA RegistryIsKept == ConsolesSpec => []RegistryInv
<1>1. ConsolesInit => RegistryInv
  BY DEF ConsolesInit, RegistryInv, NoPrune, NoVisit
<1>2. RegistryInv /\ [ConsolesNext]_consolesVars => RegistryInv'
  BY RegistryStep
<1>3. QED
  BY <1>1, <1>2, PTL DEF ConsolesSpec

\* A detected console is forgotten by a prune that probed it in vain and by
\* nothing else, however requests write its address.
THEOREM DetectedIsKept == ConsolesSpec => DetectedStaysKnown
<1>1. RegistryInv /\ [ConsolesNext]_consolesVars => [KeptByStep]_consolesVars
  BY RegistryStep
<1>2. QED
  BY <1>1, RegistryIsKept, PTL DEF ConsolesSpec, DetectedStaysKnown, KeptByStep

\* A record under another text than its own address comes from a visit that named
\* the console so, or from ps5.RemoteGames after a prune.
THEOREM RecordsStayFiled == ConsolesSpec => RecordsAreFiled
<1>1. RegistryInv /\ [ConsolesNext]_consolesVars => [FiledByStep]_consolesVars
  BY RegistryStep
<1>2. [FiledByStep]_consolesVars =>
          [ \A h \in DOMAIN consoles' :
               LET id == consoles'[h].id IN
               \/ id = h /\ h.plain
               \/ h \in DOMAIN consoles /\ id = consoles[h].id
               \/ /\ visit.at = "ask" /\ h = visit.host
                  /\ id = NoText => visit.kind = "ps5.RemoteGames"
                  /\ ~h.plain \/ (id = NoText /\ prune.at \notin {"idle", "probe"}) ]_consolesVars
  BY DEF FiledByStep, FiledAs
<1>3. QED
  BY <1>1, <1>2, RegistryIsKept, PTL DEF ConsolesSpec, RecordsAreFiled

\* The map of consoles: what is known of a console that answered is not lost, and its
\* record is the one under its own address, with the exceptions of the two theorems.
THEOREM RegistryStaysSound == ConsolesSpec => RegistryIsSound
  BY DetectedIsKept, RecordsStayFiled DEF RegistryIsSound

----------------------------------------------------------------------------
(* The addresses on their way from the network to the caller of Scan.       *)

\* Taking the first address leaves the others, each still there once.
LEMMA TakeHead ==
    ASSUME NEW S, NEW s \in Seq(S), s # <<>>, IsInjective(s)
    PROVE  /\ Head(s) \in S /\ Tail(s) \in Seq(S)
           /\ Head(s) \in Range(s) /\ Head(s) \notin Range(Tail(s))
           /\ Range(Tail(s)) \subseteq Range(s)
           /\ IsInjective(Tail(s))
<1>1. /\ Head(s) \in S /\ Tail(s) \in Seq(S) /\ Head(s) = s[1]
      /\ Len(s) \in Nat /\ Len(s) >= 1 /\ DOMAIN s = 1 .. Len(s)
      /\ DOMAIN Tail(s) = 1 .. (Len(s) - 1)
      /\ \A i \in 1 .. (Len(s) - 1) : Tail(s)[i] = s[i + 1]
  BY HeadTailProperties, LenProperties, EmptySeq
<1>2. \A i \in 1 .. (Len(s) - 1) : i + 1 \in 1 .. Len(s) /\ i + 1 # 1
  BY <1>1
<1>3. 1 \in 1 .. Len(s)
  BY <1>1
<1>4. Head(s) \in Range(s) /\ Range(Tail(s)) \subseteq Range(s)
  BY <1>1, <1>2, <1>3 DEF Range
<1>5. Head(s) \notin Range(Tail(s))
  BY <1>1, <1>2, <1>3 DEF Range, IsInjective
<1>6. ASSUME NEW i \in 1 .. (Len(s) - 1), NEW j \in 1 .. (Len(s) - 1),
             Tail(s)[i] = Tail(s)[j]
      PROVE  i = j
  BY <1>1, <1>2, <1>6 DEF IsInjective
<1>7. QED
  BY <1>1, <1>4, <1>5, <1>6 DEF IsInjective

\* Collecting an address that is not there yet keeps each of them there once.
LEMMA Collect ==
    ASSUME NEW S, NEW s \in Seq(S), NEW e \in S
    PROVE  /\ Append(s, e) \in Seq(S)
           /\ Range(Append(s, e)) = Range(s) \cup {e}
           /\ IsInjective(s) /\ e \notin Range(s) => IsInjective(Append(s, e))
<1>1. /\ Append(s, e) \in Seq(S)
      /\ DOMAIN s = 1 .. Len(s) /\ Len(s) \in Nat
      /\ DOMAIN Append(s, e) = 1 .. (Len(s) + 1)
      /\ \A i \in 1 .. Len(s) : Append(s, e)[i] = s[i]
      /\ Append(s, e)[Len(s) + 1] = e
  BY LenProperties
<1>2. \A i \in 1 .. (Len(s) + 1) : i \in 1 .. Len(s) \/ i = Len(s) + 1
  BY <1>1
<1>3. /\ \A i \in 1 .. Len(s) : i \in 1 .. (Len(s) + 1)
      /\ Len(s) + 1 \in 1 .. (Len(s) + 1)
  BY <1>1
<1>4. Range(Append(s, e)) = Range(s) \cup {e}
  BY <1>1, <1>2, <1>3 DEF Range
<1>5. IsInjective(s) /\ e \notin Range(s) => IsInjective(Append(s, e))
  BY <1>1, <1>2 DEF IsInjective, Range
<1>6. QED
  BY <1>1, <1>4, <1>5

\* A network names each of its addresses once.
LEMMA EnumerateOnce ==
    ASSUME NEW n \in Networks
    PROVE  Enumerate(n) \in Seq(Int) /\ IsInjective(Enumerate(n))
<1> DEFINE count == 2 ^ (AddressBits - n.bits)
           all   == [i \in 1 .. count |-> n.first + i - 1]
<1>1. count \in Nat /\ n.first \in Nat
  BY ScanAssumption
<1> HIDE DEF count
<1>2. all \in Seq(Int) /\ IsInjective(all) /\ Len(all) = count
  BY <1>1 DEF IsInjective
<1>3. ASSUME count > 2
      PROVE  SubSeq(all, 2, count - 1) \in Seq(Int)
             /\ IsInjective(SubSeq(all, 2, count - 1))
  <2> DEFINE sub == SubSeq(all, 2, count - 1)
  <2>1. \A i \in 2 .. count - 1 : all[i] \in Int /\ all[i] = n.first + i - 1
    BY <1>1
  <2>2. /\ sub \in Seq(Int)
        /\ Len(sub) = count - 2
        /\ \A i \in 1 .. count - 2 : sub[i] = all[2 + i - 1]
    <3> HIDE DEF all
    <3>1. QED
      BY <1>1, <1>3, <2>1, SubSeqProperties
  <2>3. \A i \in 1 .. count - 2 : sub[i] = n.first + i
    <3> HIDE DEF sub, all
    <3>1. QED
      BY <1>1, <1>3, <2>1, <2>2
  <2>4. DOMAIN sub = 1 .. count - 2
    BY <2>2, LenProperties
  <2>5. IsInjective(sub)
    <3> HIDE DEF sub
    <3>1. QED
      BY <1>1, <2>3, <2>4 DEF IsInjective
  <2>6. QED
    BY <2>2, <2>5
<1>4. <<>> \in Seq(Int) /\ IsInjective(<<>>)
  BY DEF IsInjective
<1>5. Enumerate(n) = IF n.bits < MinBits THEN <<>>
                     ELSE IF count > 2 THEN SubSeq(all, 2, count - 1) ELSE all
  BY DEF Enumerate, count
<1> HIDE DEF all
<1>6. QED
  BY <1>2, <1>3, <1>4, <1>5

----------------------------------------------------------------------------
(* The scan.                                                                *)

PoolTypeOK ==
    /\ hosts \in Seq(Int) /\ found \in Seq(Int)
    /\ worker \in [Workers -> [at : {"idle", "dial", "detect", "send", "done"},
                               host : Int]]
    /\ feeding \in BOOLEAN /\ cancelled \in BOOLEAN /\ failed \in BOOLEAN

Busy(w) == worker[w].at \in {"dial", "detect", "send"}
Sending == {worker[w].host : w \in {v \in Workers : worker[v].at = "send"}}

\* An address is with the feeder, with one worker or collected.
InOnePlace ==
    /\ IsInjective(hosts) /\ IsInjective(found)
    /\ Range(hosts) \cap Range(found) = {}
    /\ \A w \in Workers :
          Busy(w) => worker[w].host \notin Range(hosts) \cup Range(found)
    /\ \A w, v \in Workers :
          Busy(w) /\ Busy(v) /\ worker[w].host = worker[v].host => w = v

\* What answered is collected or about to be, unless the request was cancelled;
\* and nothing is on its way before a scan or after one that reports no error.
NothingLost ==
    /\ scan \in {"idle", "start"} =>
          hosts = <<>> /\ found = <<>> /\ answered = {} /\ PoolEnded
    /\ ~cancelled => answered = Range(found) \cup Sending
    /\ ~feeding /\ ~cancelled => hosts = <<>>
    /\ scan \in {"complete", "returned"} /\ ~failed =>
          hosts = <<>> /\ PoolEnded /\ Range(found) = answered

ScanInv == PoolTypeOK /\ InOnePlace /\ NothingLost

\* The caller goes on and the pool does not.
CallerStep ==
    /\ <<scan, scan'>> \in {<<"idle", "start">>, <<"register", "announce">>,
                            <<"announce", "collect">>, <<"complete", "returned">>}
    /\ UNCHANGED <<hosts, feeding, worker, found, cancelled, failed, answered>>

\* What a step of the whole may be to the scan.
PoolStep ==
    \/ UNCHANGED poolVars
    \/ CallerStep
    \/ \E n \in Networks : StartScan(n)
    \/ \E w \in Workers : Deliver(w) \/ Feed(w) \/ WorkerStep(w) \/ Detect(w)
    \/ ResultsClosed \/ CloseJobs \/ CancelScan

\* Every action of the module leaves the scan alone or takes one of its steps.
LEMMA NextIsPoolStep == [ConsolesNext]_consolesVars => PoolStep
<1> SUFFICES ASSUME [ConsolesNext]_consolesVars PROVE PoolStep
  OBVIOUS
<1>1. CASE Collector
  <2>1. CASE ScanStarted \/ HostFound \/ AnnounceHost \/ ScanCompleted
    BY <2>1 DEF ScanStarted, HostFound, AnnounceHost, ScanCompleted, CallerStep,
                PoolStep
  <2>2. QED
    BY <1>1, <2>1 DEF Collector, PoolStep
<1>2. CASE Goroutines
  BY <1>2 DEF Goroutines, PoolStep
<1>3. CASE PruneOffline
  BY <1>3 DEF PruneOffline, PruneAnnounce, PoolStep
<1>4. CASE Visiting
  BY <1>4 DEF Visiting, VisitAnnounce, PoolStep
<1>5. CASE \E p \in Publishers : Publishing(p)
  BY <1>5 DEF Publishing, PoolStep
<1>6. CASE Subscribers
  BY <1>6 DEF Subscribers, PoolStep
<1>7. CASE UNCHANGED consolesVars
  BY <1>7 DEF consolesVars, PoolStep
<1>8. QED
  BY <1>1, <1>2, <1>3, <1>4, <1>5, <1>6, <1>7 DEF ConsolesNext

\* A network has nothing left, so no two workers have the same address of it.
LEMMA StartScanKeeps ==
    ASSUME ScanInv, NEW n \in Networks, StartScan(n)
    PROVE  ScanInv'
<1> USE DEF ScanInv, PoolTypeOK, InOnePlace, NothingLost
<1>1. CASE n.bits < MinBits
  BY <1>1 DEF StartScan, PoolEnded, Busy, Sending
<1>2. CASE ~(n.bits < MinBits)
  <2>1. /\ hosts' = Enumerate(n) /\ worker' = [w \in Workers |-> Idle]
        /\ found' = <<>> /\ answered' = {} /\ scan' = "collect" /\ feeding' = TRUE
        /\ UNCHANGED <<cancelled, failed>>
    BY <1>2 DEF StartScan
  <2>2. hosts' \in Seq(Int) /\ IsInjective(hosts')
    BY <2>1, EnumerateOnce
  <2>3. \A w \in Workers : worker'[w] = Idle /\ ~Busy(w)'
    BY <2>1 DEF Busy, Idle
  <2>4. Sending' = {}
    BY <2>3 DEF Sending, Idle
  <2>5. Range(found') = {} /\ IsInjective(found') /\ found' \in Seq(Int)
    BY <2>1 DEF Range, IsInjective
  <2>6. PoolTypeOK'
    BY <2>1, <2>2, <2>5 DEF Idle, NoHost
  <2>7. InOnePlace'
    BY <2>2, <2>3, <2>5
  <2>8. NothingLost'
    BY <2>1, <2>4, <2>5
  <2>9. QED
    BY <2>6, <2>7, <2>8
<1>3. QED
  BY <1>1, <1>2

\* The address moves from the feeder to the worker.
LEMMA FeedKeeps ==
    ASSUME ScanInv, NEW w \in Workers, Feed(w)
    PROVE  ScanInv'
<1> USE DEF ScanInv, PoolTypeOK, InOnePlace, NothingLost
<1>1. /\ hosts # <<>> /\ feeding /\ worker[w].at = "idle"
      /\ worker' = [worker EXCEPT ![w] = [at |-> "dial", host |-> Head(hosts)]]
      /\ hosts' = Tail(hosts)
      /\ UNCHANGED <<scan, feeding, found, cancelled, failed, answered>>
  BY DEF Feed
<1>2. /\ Head(hosts) \in Int /\ hosts' \in Seq(Int)
      /\ Head(hosts) \in Range(hosts) /\ Head(hosts) \notin Range(hosts')
      /\ Range(hosts') \subseteq Range(hosts) /\ IsInjective(hosts')
  BY <1>1, TakeHead
<1>3. /\ worker'[w] = [at |-> "dial", host |-> Head(hosts)]
      /\ \A v \in Workers : v # w => worker'[v] = worker[v]
  BY <1>1
<1>4. Sending' = Sending
  BY <1>1, <1>3 DEF Sending
<1>5. PoolTypeOK'
  BY <1>1, <1>2
<1>6. InOnePlace'
  BY <1>1, <1>2, <1>3 DEF Busy
<1>7. NothingLost'
  BY <1>1, <1>4 DEF PoolEnded
<1>8. QED
  BY <1>5, <1>6, <1>7

\* The address moves from the worker to the caller.
LEMMA DeliverKeeps ==
    ASSUME ScanInv, NEW w \in Workers, Deliver(w)
    PROVE  ScanInv'
<1> USE DEF ScanInv, PoolTypeOK, InOnePlace, NothingLost
<1>1. /\ worker[w].at = "send" /\ scan = "collect" /\ scan' = "register"
      /\ found' = Append(found, worker[w].host)
      /\ worker' = [worker EXCEPT ![w] = Idle]
      /\ UNCHANGED <<hosts, feeding, cancelled, failed, answered>>
  BY DEF Deliver
<1>2. /\ found' \in Seq(Int)
      /\ Range(found') = Range(found) \cup {worker[w].host}
      /\ IsInjective(found')
  BY <1>1, Collect DEF Busy
<1>3. /\ worker'[w] = Idle
      /\ \A v \in Workers : v # w => worker'[v] = worker[v]
  BY <1>1
<1>4. Range(found') \cup Sending' = Range(found) \cup Sending
  BY <1>1, <1>2, <1>3 DEF Sending, Idle
<1>5. PoolTypeOK'
  BY <1>1, <1>2 DEF Idle, NoHost
<1>6. InOnePlace'
  BY <1>1, <1>2, <1>3 DEF Busy, Idle
<1>7. NothingLost'
  BY <1>1, <1>4
<1>8. QED
  BY <1>5, <1>6, <1>7

\* A worker that goes on keeps its address.
LEMMA GoesOn ==
    ASSUME PoolTypeOK, NEW w \in Workers, NEW step,
           worker' = [worker EXCEPT ![w].at = step]
    PROVE  worker' = [worker EXCEPT ![w] = [at |-> step, host |-> worker[w].host]]
<1>1. ASSUME NEW A, NEW r \in [at : A, host : Int]
      PROVE  [r EXCEPT !.at = step] = [at |-> step, host |-> r.host]
  OBVIOUS
<1>2. [worker[w] EXCEPT !.at = step] = [at |-> step, host |-> worker[w].host]
  BY <1>1 DEF PoolTypeOK
<1>3. worker' = [worker EXCEPT ![w] = [worker[w] EXCEPT !.at = step]]
  OBVIOUS
<1>4. QED
  BY <1>2, <1>3, Zenon

\* A worker gives its address up, keeps it, or tells that a console answered.
LEMMA WorkerStepKeeps ==
    ASSUME ScanInv, NEW w \in Workers, WorkerStep(w) \/ Detect(w)
    PROVE  ScanInv'
<1> USE DEF ScanInv, PoolTypeOK, InOnePlace, NothingLost
<1> DEFINE Same == UNCHANGED <<scan, hosts, feeding, found, cancelled, failed>>
<1>1. ASSUME NEW step \in {"idle", "dial", "detect", "send", "done"}, NEW h \in Int,
             worker' = [worker EXCEPT ![w] = [at |-> step, host |-> h]],
             worker[w].at # "done", Same,
             step \in {"dial", "detect", "send"} => Busy(w) /\ h = worker[w].host
      PROVE  PoolTypeOK' /\ InOnePlace' /\ (~PoolEnded)
  <2>1. /\ worker'[w] = [at |-> step, host |-> h]
        /\ \A v \in Workers : v # w => worker'[v] = worker[v]
    BY <1>1
  <2>2. PoolTypeOK'
    BY <1>1
  <2>3. \A v \in Workers : Busy(v)' => Busy(v) /\ worker'[v].host = worker[v].host
    BY <1>1, <2>1 DEF Busy
  <2>4. InOnePlace'
    BY <1>1, <2>3
  <2>5. QED
    BY <1>1, <2>2, <2>4 DEF PoolEnded
<1>2. CASE Dial(w)
  <2>1. \E step \in {"idle", "detect"}, h \in Int :
           /\ worker' = [worker EXCEPT ![w] = [at |-> step, host |-> h]]
           /\ step = "detect" => h = worker[w].host
    BY <1>2 DEF Dial, Idle, NoHost
  <2>2. worker[w].at = "dial" /\ Same /\ answered' = answered
    BY <1>2 DEF Dial
  <2>3. Sending' = Sending
    BY <2>1, <2>2 DEF Sending
  <2>4. QED
    BY <1>1, <2>1, <2>2, <2>3 DEF Busy
<1>3. CASE Detect(w)
  <2> worker[w].at = "detect" /\ Same
    BY <1>3 DEF Detect
  <2>1. CASE worker' = [worker EXCEPT ![w].at = "send"]
             /\ answered' = answered \cup {worker[w].host}
    <3>1. worker' = [worker EXCEPT ![w] = [at |-> "send", host |-> worker[w].host]]
      BY <2>1, GoesOn
    <3>2. Sending' = Sending \cup {worker[w].host}
      BY <1>3, <3>1 DEF Sending
    <3>3. QED
      BY <1>1, <1>3, <2>1, <3>1, <3>2 DEF Busy
  <2>2. CASE worker' = [worker EXCEPT ![w] = Idle] /\ answered' = answered
    <3>1. worker' = [worker EXCEPT ![w] = [at |-> "idle", host |-> NoHost]] /\ NoHost \in Int
      BY <2>2 DEF Idle, NoHost
    <3>2. Sending' = Sending
      BY <1>3, <3>1 DEF Sending
    <3>3. QED
      BY <1>1, <1>3, <2>2, <3>1, <3>2 DEF Busy
  <2>3. QED
    BY <1>3, <2>1, <2>2 DEF Detect
<1>4. CASE Drop(w)
  <2>1. /\ worker[w].at = "send" /\ cancelled /\ Same /\ answered' = answered
        /\ worker' = [worker EXCEPT ![w] = [at |-> "idle", host |-> NoHost]]
        /\ NoHost \in Int
    BY <1>4 DEF Drop, Idle, NoHost
  <2>2. QED
    BY <1>1, <2>1
<1>5. CASE WorkerEnds(w)
  <2>1. /\ worker[w].at = "idle" /\ Same /\ answered' = answered
        /\ worker' = [worker EXCEPT ![w] = [at |-> "done", host |-> worker[w].host]]
    BY <1>5, GoesOn DEF WorkerEnds
  <2>2. Sending' = Sending
    BY <2>1 DEF Sending
  <2>3. QED
    BY <1>1, <2>1, <2>2
<1>6. QED
  BY <1>2, <1>3, <1>4, <1>5 DEF WorkerStep

\* ScanInv is inductive.
LEMMA ScanInvIsInductive == ScanInv /\ PoolStep => ScanInv'
<1> SUFFICES ASSUME ScanInv, PoolStep PROVE ScanInv'
  OBVIOUS
<1> USE DEF ScanInv, PoolTypeOK, InOnePlace, NothingLost
<1>1. CASE UNCHANGED poolVars
  BY <1>1 DEF poolVars, PoolEnded, Busy, Sending
<1>2. CASE CallerStep
  BY <1>2 DEF CallerStep, PoolEnded, Busy, Sending
<1>3. ASSUME NEW n \in Networks, StartScan(n) PROVE ScanInv'
  BY <1>3, StartScanKeeps
<1>4. ASSUME NEW w \in Workers, Deliver(w) \/ Feed(w) \/ WorkerStep(w) \/ Detect(w)
      PROVE  ScanInv'
  BY <1>4, DeliverKeeps, FeedKeeps, WorkerStepKeeps
<1>5. CASE ResultsClosed
  <2>1. /\ PoolEnded /\ failed' = cancelled
        /\ UNCHANGED <<hosts, feeding, worker, found, cancelled, answered>>
        /\ scan' = IF cancelled THEN "returned" ELSE "complete"
    BY <1>5 DEF ResultsClosed
  <2>2. Sending = {}
    BY <2>1 DEF PoolEnded, Sending
  <2>3. ~cancelled => hosts = <<>> /\ Range(found) = answered
    BY <2>1, <2>2 DEF PoolEnded
  <2>4. QED
    BY <2>1, <2>3 DEF PoolEnded, Busy, Sending
<1>6. CASE CloseJobs
  <2>1. /\ feeding /\ (hosts = <<>> \/ cancelled) /\ feeding' = FALSE
        /\ UNCHANGED <<scan, hosts, worker, found, cancelled, failed, answered>>
    BY <1>6 DEF CloseJobs
  <2>2. Sending' = Sending /\ \A w \in Workers : Busy(w)' = Busy(w)
    BY <2>1 DEF Sending, Busy
  <2>3. ~PoolEnded
    BY <2>1 DEF PoolEnded
  <2>4. PoolTypeOK' /\ InOnePlace'
    BY <2>1, <2>2
  <2>5. NothingLost'
    BY <2>1, <2>2, <2>3
  <2>6. QED
    BY <2>4, <2>5
<1>7. CASE CancelScan
  BY <1>7 DEF CancelScan, PoolEnded, Busy, Sending
<1>8. QED
  BY <1>1, <1>2, <1>3, <1>4, <1>5, <1>6, <1>7 DEF PoolStep

\* A scan that reports no error returns every console that answered, once.
THEOREM ScansAreComplete == ConsolesSpec => []ScanIsComplete
<1>1. ConsolesInit => ScanInv
  <2> SUFFICES ASSUME ConsolesInit PROVE ScanInv
    OBVIOUS
  <2>1. /\ scan = "idle" /\ hosts = <<>> /\ feeding = FALSE /\ found = <<>>
        /\ cancelled = FALSE /\ failed = FALSE /\ answered = {}
    BY DEF ConsolesInit, PoolInit
  <2>2. worker = [w \in Workers |-> [at |-> "done", host |-> -1]]
    BY DEF ConsolesInit, PoolInit, NoHost
  <2>3. \A w \in Workers : worker[w].at = "done" /\ ~Busy(w)
    BY <2>2 DEF Busy
  <2>4. hosts \in Seq(Int) /\ IsInjective(hosts) /\ Range(hosts) = {}
    BY <2>1 DEF Range, IsInjective
  <2>5. PoolTypeOK
    <3>1. [at |-> "done", host |-> -1]
             \in [at: {"idle", "dial", "detect", "send", "done"}, host: Int]
      OBVIOUS
    <3>2. worker \in [Workers -> [at: {"idle", "dial", "detect", "send", "done"}, host: Int]]
      BY <2>2, <3>1
    <3>3. found \in Seq(Int)
      BY <2>1
    <3>4. QED
      BY <2>1, <2>4, <3>2, <3>3 DEF PoolTypeOK
  <2>6. InOnePlace
    BY <2>1, <2>3, <2>4 DEF InOnePlace, Busy
  <2>7. NothingLost
    BY <2>1, <2>3, <2>4 DEF NothingLost, PoolEnded, Sending
  <2>8. QED
    BY <2>5, <2>6, <2>7 DEF ScanInv
<1>2. ScanInv /\ [ConsolesNext]_consolesVars => ScanInv'
  BY NextIsPoolStep, ScanInvIsInductive
<1>3. ScanInv => ScanIsComplete
  BY DEF ScanInv, InOnePlace, NothingLost, ScanIsComplete
<1>4. QED
  BY <1>1, <1>2, <1>3, PTL DEF ConsolesSpec
=============================================================================
