------------------------ MODULE PS2ConversionProofs ------------------------
(***************************************************************************)
(* Machine-checked proofs about the two ways a PS2 game leaves the server: *)
(* the writer of an OPL drive, for any games, sizes and lengths of parts,  *)
(* and with it the invariant of a build (FPKGBuilderProofs) the theorems   *)
(* of ConversionSpec.                                                      *)
(***************************************************************************)
EXTENDS PS2Conversion, FPKGBuilderProofs

----------------------------------------------------------------------------
(* Numbers and lists.                                                       *)

\* A game that is not empty has a part.
LEMMA PartsPositive ==
    ASSUME NEW g \in Games
    PROVE  /\ Parts(g) \in Int
           /\ Size[g] > 0 => Parts(g) >= 1
<1>1. Size[g] \in Nat /\ PartSize \in Nat \ {0}
  BY OPLAssumption
<1>2. \A x, y \in Nat : x >= y /\ y > 0 => x \div y >= 1 /\ x \div y \in Int
  BY Z3
<1>3. QED
  BY <1>1, <1>2 DEF Parts

\* The records upsertULRecord keeps.
LEMMA FilteredRecords ==
    ASSUME NEW R, NEW s \in Seq(R), NEW title, NEW picture
    PROVE  /\ filtered(s, title, picture) \in Seq(R)
           /\ \A r : (\E k \in DOMAIN filtered(s, title, picture) :
                         filtered(s, title, picture)[k] = r)
                     <=> (\E k \in DOMAIN s : s[k] = r /\ r.title # title /\ r.image # picture)
<1> DEFINE twin(n) == s[n].title = title \/ s[n].image = picture
           Next(f, n) == IF n = 0 THEN <<>> ELSE IF twin(n) THEN f[n - 1] ELSE Append(f[n - 1], s[n])
           Pass(f, m) == f = [n \in 0 .. m |-> Next(f, n)]
           Right(q, m) == /\ q \in Seq(R)
                          /\ \A r : (\E k \in DOMAIN q : q[k] = r)
                                    <=> (\E k \in 1 .. m : s[k] = r /\ ~twin(k))
           Good(m) == /\ \E f : Pass(f, m)
                      /\ \A f : Pass(f, m) => Right(f[m], m)
           T == {m \in Nat : m <= Len(s) => Good(m)}
<1>1. /\ Len(s) \in Nat
      /\ \A n \in 1 .. Len(s) : s[n] \in R
  OBVIOUS
<1>2. 0 \in T
  <2>1. ASSUME NEW f, Pass(f, 0)
        PROVE  f[0] = <<>>
    BY <2>1
  <2>2. Right(<<>>, 0)
    OBVIOUS
  <2>3. Pass([n \in 0 .. 0 |-> <<>>], 0)
    OBVIOUS
  <2>4. Good(0)
    <3> HIDE DEF Right, Pass
    <3>1. QED
      BY <2>1, <2>2, <2>3
  <2>5. QED
    <3> HIDE DEF Good
    <3>1. QED
      BY <2>4
<1>3. ASSUME NEW n \in Nat, n \in T
      PROVE  n + 1 \in T
  <2> SUFFICES ASSUME n + 1 <= Len(s)
               PROVE  Good(n + 1)
    <3> HIDE DEF Good
    <3>1. QED
      OBVIOUS
  <2>1. Good(n)
    <3> HIDE DEF Good
    <3>1. QED
      BY <1>1, <1>3
  <2>2. \E f : Pass(f, n + 1)
    <3>1. PICK g : Pass(g, n)
      BY <2>1
    <3> DEFINE h == [m \in 0 .. n + 1 |-> IF m = n + 1 THEN Next(g, m) ELSE g[m]]
    <3>2. \A m \in 0 .. n : h[m] = g[m]
      OBVIOUS
    <3>3. \A m \in 0 .. n : g[m] = Next(g, m)
      BY <3>1
    <3>4. \A m \in 0 .. n + 1 : m \in 0 .. n \/ m = n + 1
      OBVIOUS
    <3>5. \A m \in 0 .. n + 1 : h[m] = Next(g, m)
      <4> HIDE DEF Next
      <4>1. QED
        BY <3>3, <3>4
    <3>6. \A m \in 0 .. n + 1 : m # 0 => m - 1 \in 0 .. n
      OBVIOUS
    <3>7. \A m \in 0 .. n + 1 : Next(g, m) = Next(h, m)
      BY <3>2, <3>6
    <3>8. Pass(h, n + 1)
      BY <3>5, <3>7
    <3>9. QED
      BY <3>8
  <2>3. ASSUME NEW f, Pass(f, n + 1)
        PROVE  Right(f[n + 1], n + 1)
    <3> DEFINE g == [m \in 0 .. n |-> f[m]]
    <3>1. \A m \in 0 .. n + 1 : f[m] = Next(f, m)
      BY <2>3
    <3>2. \A m \in 0 .. n : m \in 0 .. n + 1 /\ (m # 0 => m - 1 \in 0 .. n)
      OBVIOUS
    <3>3. \A m \in 0 .. n : Next(f, m) = Next(g, m)
      BY <3>2
    <3>4. Pass(g, n)
      BY <3>1, <3>2, <3>3
    <3>5. Right(f[n], n)
      <4>1. Right(g[n], n)
        <5> HIDE DEF Right, Pass, g
        <5>1. QED
          BY <3>4, <2>1
      <4>2. g[n] = f[n]
        OBVIOUS
      <4> HIDE DEF Right, g
      <4>3. QED
        BY <4>1, <4>2
    <3>6. f[n + 1] = IF twin(n + 1) THEN f[n] ELSE Append(f[n], s[n + 1])
      BY <3>1
    <3>7. n + 1 \in 1 .. Len(s)
      OBVIOUS
    <3>8. \A k : k \in 1 .. n + 1 <=> k \in 1 .. n \/ k = n + 1
      OBVIOUS
    <3> HIDE DEF twin
    <3>9. CASE twin(n + 1)
      BY <3>5, <3>6, <3>8, <3>9
    <3>10. CASE ~twin(n + 1)
      <4> DEFINE q == f[n]
                 p == f[n + 1]
      <4>1. p = Append(q, s[n + 1])
        BY <3>6, <3>10
      <4>2. q \in Seq(R) /\ s[n + 1] \in R
        BY <3>5, <3>7, <1>1
      <4> HIDE DEF q, p
      <4>3. p \in Seq(R) /\ Len(p) = Len(q) + 1 /\ Len(q) \in Nat
        BY <4>1, <4>2
      <4>4. DOMAIN p = 1 .. Len(q) + 1 /\ DOMAIN q = 1 .. Len(q)
        BY <4>2, <4>3
      <4>5. /\ \A k \in DOMAIN q : k \in DOMAIN p /\ p[k] = q[k]
            /\ p[Len(q) + 1] = s[n + 1]
        BY <4>1, <4>2, <4>3, <4>4
      <4>6. \A k \in DOMAIN p : k \in DOMAIN q \/ k = Len(q) + 1
        BY <4>3, <4>4
      <4>7. Len(q) + 1 \in DOMAIN p
        BY <4>3, <4>4
      <4>8. ASSUME NEW r
            PROVE  (\E k \in DOMAIN p : p[k] = r)
                   <=> (\E k \in DOMAIN q : q[k] = r) \/ r = s[n + 1]
        BY <4>5, <4>6, <4>7
      <4>9. ASSUME NEW r
            PROVE  (\E k \in DOMAIN q : q[k] = r)
                   <=> (\E k \in 1 .. n : s[k] = r /\ ~twin(k))
        BY <3>5 DEF q
      <4>10. ASSUME NEW r
             PROVE  (\E k \in DOMAIN p : p[k] = r)
                    <=> (\E k \in 1 .. n + 1 : s[k] = r /\ ~twin(k))
        BY <4>8, <4>9, <3>8, <3>10
      <4>11. QED
        BY <4>3, <4>10 DEF p
    <3>11. QED
      BY <3>9, <3>10
  <2>4. QED
    BY <2>2, <2>3
<1>4. Good(Len(s))
  <2> HIDE DEF Good
  <2>1. Nat \subseteq T
    <3> HIDE DEF T
    <3>1. QED
      BY <1>2, <1>3, Induction
  <2>2. QED
    BY <2>1, <1>1
<1>5. PICK g : Pass(g, Len(s))
  BY <1>4
<1> DEFINE loop == CHOOSE f : Pass(f, Len(s))
<1>6. Pass(loop, Len(s))
  BY <1>5
<1>7. filtered(s, title, picture) = loop[Len(s)]
  BY DEF filtered
<1>8. Right(loop[Len(s)], Len(s))
  BY <1>4, <1>6, ZenonT(60)
<1>9. DOMAIN s = 1 .. Len(s)
  OBVIOUS
<1>10. ASSUME NEW r
      PROVE  (\E k \in DOMAIN s : s[k] = r /\ r.title # title /\ r.image # picture)
             <=> (\E k \in 1 .. Len(s) : s[k] = r /\ ~twin(k))
  BY <1>9
<1>11. /\ loop[Len(s)] \in Seq(R)
       /\ \A r : (\E k \in DOMAIN loop[Len(s)] : loop[Len(s)][k] = r)
                 <=> (\E k \in 1 .. Len(s) : s[k] = r /\ ~twin(k))
  BY <1>8
<1> HIDE DEF loop, twin
<1>12. QED
  BY <1>7, <1>10, <1>11, ZenonT(60)

----------------------------------------------------------------------------
(* The invariant.                                                           *)

\* The names an install may give to a file.
DriveNames == {System, ULConfig} \cup {DVD(g) : g \in Games}
              \cup {UL(g, n) : g \in Games, n \in Nat}

Steps == {"idle", "create", "copy", "check", "part", "split", "record", "unwritten",
          "rename", "verify"}

Record == [title : {Title[g] : g \in Games}, image : Games \cup {NoGame}, parts : Int]

IsMap(f) == f = [x \in DOMAIN f |-> f[x]]

DriveTypeOK ==
    /\ IsMap(files) /\ IsMap(temps)
    /\ DOMAIN files \cup DOMAIN temps \subseteq DriveNames
    /\ cfg \in Seq(Record)
    /\ at \in Steps /\ part \in Nat
    /\ game \in Games \cup {NoGame} /\ (game = NoGame <=> at = "idle")
    /\ completed \subseteq Games

\* The records, and the games whose install was verified, have their data.
AreWhole(records) ==
    \A i \in DOMAIN records :
        records[i].image # NoGame =>
            /\ records[i].parts = Parts(records[i].image)
            /\ PartsWhole(records[i].image)

ListedIsWhole == AreWhole(cfg)

\* So have the records that are about to become ul.cfg.
UpdateIsWhole == update.records \in Seq(Record) /\ AreWhole(update.records)

HasData(g) == IF useDirectCopy(g) THEN Fits(DVD(g), Size[g]) ELSE PartsWhole(g)

CompletedIsWhole == \A g \in completed : HasData(g)

Splitting == at \in {"part", "split", "record", "unwritten", "rename"}

\* What an install may rely on: the parts it removes when it fails are its own.
InstallIsAlone ==
    /\ at \in {"idle", "check"} => part = 0
    /\ at \in {"create", "copy"} /\ part # 0 =>
          useDirectCopy(game) /\ ~Exists(DVD(game))
    /\ Splitting =>
          /\ ~useDirectCopy(game) /\ ~Listed(game)
          /\ \A n \in 0 .. part - 1 :
                Exists(UL(game, n)) /\ files[UL(game, n)] = PartLength(game, n)
    /\ Splitting /\ (at # "part" \/ part > 0) => game \notin completed
    /\ at \in {"record", "unwritten", "rename"} => part = Parts(game)
    /\ at = "rename" => UpdateIsWhole

\* Who a file belongs to.
FilesAreKnown ==
    \A g \in Games \ excused, n \in Nat :
        Exists(UL(g, n)) =>
            Listed(g) \/ (Splitting /\ g = game /\ n < part)

TempsAreKnown ==
    \A g \in Games \ excused :
        /\ DVD(g) \in DOMAIN temps => at = "copy" /\ part # 0 /\ g = game
        /\ \A n \in Nat :
              UL(g, n) \in DOMAIN temps => at = "split" /\ n = part /\ g = game

DriveInv ==
    /\ DriveTypeOK
    /\ ListedIsWhole
    /\ CompletedIsWhole
    /\ InstallIsAlone
    /\ FilesAreKnown
    /\ TempsAreKnown

----------------------------------------------------------------------------
(* What the steps do to it.                                                 *)

\* No two names of files are the same.
LEMMA Names ==
    /\ \A g, h, n, m : UL(g, n) = UL(h, m) <=> g = h /\ n = m
    /\ \A g, h : DVD(g) = DVD(h) <=> g = h
    /\ \A g, h, n : UL(g, n) # DVD(h) /\ UL(g, n) # System /\ DVD(h) # System
    /\ \A g, n : ULConfig # UL(g, n) /\ ULConfig # DVD(g)
  BY DEF UL, DVD, System, ULConfig

\* A map of files with one more entry.
LEMMA WithFacts ==
    ASSUME NEW f, NEW name, NEW v
    PROVE  /\ DOMAIN With(f, name, v) = DOMAIN f \cup {name}
           /\ With(f, name, v)[name] = v
           /\ \A x \in DOMAIN f : x # name => With(f, name, v)[x] = f[x]
           /\ IsMap(With(f, name, v))
  BY DEF With, IsMap

\* A map of files without some entries.
LEMMA WithoutFacts ==
    ASSUME NEW f, NEW names
    PROVE  /\ DOMAIN Without(f, names) = DOMAIN f \ names
           /\ \A x \in DOMAIN f \ names : Without(f, names)[x] = f[x]
           /\ IsMap(Without(f, names))
  BY DEF Without, Restrict, IsMap

\* Nothing that belongs to a listed or verified game goes away: both stay whole.
LEMMA DataIsKept ==
    ASSUME DriveInv, cfg' = cfg, completed' = completed,
           \A g \in Games : Listed(g) \/ g \in completed =>
               \A x \in {DVD(g)} \cup {UL(g, n) : n \in Nat} :
                   Exists(x) => Exists(x)' /\ files'[x] = files[x]
    PROVE  ListedIsWhole' /\ CompletedIsWhole'
<1> USE DEF DriveInv
<1>1. ASSUME NEW g \in Games, Listed(g) \/ g \in completed, PartsWhole(g)
      PROVE  PartsWhole(g)'
  <2>1. \A n \in 0 .. Parts(g) - 1 :
            n \in Nat /\ UL(g, n) \in {DVD(g)} \cup {UL(g, k) : k \in Nat}
    BY PartsPositive
  <2>2. QED
    BY <1>1, <2>1 DEF PartsWhole, Fits, Exists
<1>2. ListedIsWhole'
  <2> SUFFICES ASSUME NEW i \in DOMAIN cfg, cfg[i].image # NoGame
               PROVE  /\ cfg[i].parts = Parts(cfg[i].image)
                      /\ PartsWhole(cfg[i].image)'
    BY DEF ListedIsWhole, AreWhole, PartsWhole
  <2>1. cfg[i] \in Record
    BY DEF DriveTypeOK
  <2>2. cfg[i].image \in Games /\ Listed(cfg[i].image)
    BY <2>1 DEF Record, Listed
  <2>3. QED
    BY <1>1, <2>2 DEF ListedIsWhole, AreWhole
<1>3. ASSUME NEW g \in completed
      PROVE  HasData(g)'
  <2>1. g \in Games /\ HasData(g)
    BY DEF DriveTypeOK, CompletedIsWhole
  <2>2. CASE useDirectCopy(g)
    BY <2>1, <2>2 DEF HasData, Fits, Exists
  <2>3. CASE ~useDirectCopy(g)
    BY <2>1, <2>3, <1>1 DEF HasData
  <2>4. QED
    BY <2>2, <2>3
<1>4. QED
  BY <1>2, <1>3 DEF CompletedIsWhole

\* Steps that leave files, ul.cfg and the lists of games alone, and create no
\* temporary file.
LEMMA QuietSteps ==
    ASSUME DriveInv,
           \/ \E g \in Games : InstallGame(g)
           \/ InstallFails \/ DirectCopy \/ usbExtreme
           \/ Cancel \/ Plug \/ Flush \/ UNCHANGED oplVars
    PROVE  DriveInv'
<1> USE DEF DriveInv
<1>1. /\ files' = files /\ cfg' = cfg /\ completed' = completed
      /\ excused' = excused /\ temps' = temps
  BY DEF InstallGame, InstallFails, DirectCopy, usbExtreme, Cancel, Plug, Flush,
         oplVars, drive, history
<1>2. /\ \A x : Exists(x)' <=> Exists(x)
      /\ \A g : Listed(g)' <=> Listed(g)
  BY <1>1 DEF Exists, Listed
<1>3. ListedIsWhole' /\ CompletedIsWhole'
  BY <1>1, <1>2, DataIsKept
<1>4. ASSUME NEW g \in Games, InstallGame(g)
      PROVE  DriveTypeOK' /\ InstallIsAlone' /\ FilesAreKnown' /\ TempsAreKnown'
  <2>1. /\ at = "idle" /\ at' = "create" /\ game' = g /\ part' = part
        /\ temps' = temps /\ part = 0
    BY <1>4 DEF InstallGame, drive, InstallIsAlone
  <2>2. QED
    BY <1>1, <1>2, <2>1, OPLAssumption
    DEF DriveTypeOK, InstallIsAlone, FilesAreKnown, TempsAreKnown, Steps, Splitting
<1>5. ASSUME at' = "idle", game' = NoGame, part' = 0, ~Splitting, at # "copy"
      PROVE  DriveTypeOK' /\ InstallIsAlone' /\ FilesAreKnown' /\ TempsAreKnown'
  BY <1>1, <1>2, <1>5
  DEF DriveTypeOK, InstallIsAlone, FilesAreKnown, TempsAreKnown, Steps, Splitting
<1>6. ASSUME at' = at, game' = game, part' = part, update' = update
      PROVE  DriveTypeOK' /\ InstallIsAlone' /\ FilesAreKnown' /\ TempsAreKnown'
  <2>1. UpdateIsWhole' <=> UpdateIsWhole
    BY <1>1, <1>6 DEF UpdateIsWhole, AreWhole, PartsWhole, Fits, Exists
  <2>2. QED
    BY <1>1, <1>2, <1>6, <2>1
  DEF DriveTypeOK, InstallIsAlone, FilesAreKnown, TempsAreKnown, Steps, Splitting
<1>7. CASE InstallFails
  <2>1. at' = "idle" /\ game' = NoGame /\ part' = 0 /\ temps' = temps
        /\ at \in {"create", "check"}
    BY <1>7 DEF InstallFails, Return, drive
  <2>2. QED
    BY <1>3, <1>5, <2>1 DEF Splitting
<1>8. CASE Cancel \/ Plug \/ Flush \/ UNCHANGED oplVars
  <2>1. /\ at' = at /\ game' = game /\ part' = part /\ temps' = temps
        /\ update' = update
    BY <1>8 DEF Cancel, Plug, Flush, oplVars, drive, install
  <2>2. QED
    BY <1>3, <1>6, <2>1 DEF DriveTypeOK
<1>9. CASE DirectCopy
  <2>1. /\ at = "check" /\ temps' = temps /\ part = 0 /\ ~Splitting
        /\ useDirectCopy(game)
    BY <1>9 DEF DirectCopy, drive, InstallIsAlone, Splitting
  <2>2. CASE at' = "verify" /\ game' = game /\ part' = part
    BY <1>1, <1>2, <1>3, <2>1, <2>2
    DEF DriveTypeOK, InstallIsAlone, FilesAreKnown, TempsAreKnown, Steps, Splitting
  <2>3. CASE at' = "create" /\ game' = game /\ part' = 1 /\ ~Exists(DVD(game))
    BY <1>1, <1>2, <1>3, <2>1, <2>3
    DEF DriveTypeOK, InstallIsAlone, FilesAreKnown, TempsAreKnown, Steps, Splitting
  <2>4. CASE Return
    BY <1>3, <1>5, <2>1, <2>4 DEF Return
  <2>5. QED
    BY <1>9, <2>2, <2>3, <2>4 DEF DirectCopy
<1>10. CASE usbExtreme
  <2>1. /\ at = "check" /\ temps' = temps /\ part = 0 /\ ~Splitting
        /\ ~useDirectCopy(game)
    BY <1>10 DEF usbExtreme, drive, InstallIsAlone, Splitting
  <2>2. CASE at' = "part" /\ game' = game /\ part' = part /\ ~Listed(game)
    BY <1>1, <1>2, <1>3, <2>1, <2>2
    DEF DriveTypeOK, InstallIsAlone, FilesAreKnown, TempsAreKnown, Steps, Splitting
  <2>3. CASE Return
    BY <1>3, <1>5, <2>1, <2>3 DEF Return
  <2>4. QED
    BY <1>10, <2>2, <2>3 DEF usbExtreme
<1>11. QED
  BY <1>3, <1>4, <1>7, <1>8, <1>9, <1>10

\* Steps that create or extend a temporary file.
LEMMA TempSteps ==
    ASSUME DriveInv,
           CreateTemp \/ CopyChunk \/ SplitChunk \/ (StartPart /\ ~Exists(UL(game, part)))
    PROVE  DriveInv'
<1> USE DEF DriveInv
<1>1. /\ files' = files /\ cfg' = cfg /\ completed' = completed
      /\ excused' = excused /\ game' = game /\ part' = part
  BY DEF CreateTemp, CopyChunk, SplitChunk, StartPart, history, install
<1>2. /\ \A x : Exists(x)' <=> Exists(x)
      /\ \A g : Listed(g)' <=> Listed(g)
  BY <1>1 DEF Exists, Listed
<1>3. ListedIsWhole' /\ CompletedIsWhole'
  BY <1>1, <1>2, DataIsKept
<1>4. game \in Games
  BY DEF CreateTemp, CopyChunk, SplitChunk, StartPart, DriveTypeOK
<1>5. ASSUME NEW x \in {System, DVD(game)}, NEW v, temps' = With(temps, x, v),
             at \in {"create", "copy"}, at' = "copy", part = 0 => x = System
      PROVE  DriveInv'
  <2>1. DOMAIN temps' = DOMAIN temps \cup {x} /\ IsMap(temps')
    BY <1>5, WithFacts
  <2>2. DriveTypeOK'
    <3>1. x \in DriveNames
      BY <1>4 DEF DriveNames
    <3>2. QED
      BY <1>1, <1>5, <2>1, <3>1 DEF DriveTypeOK, Steps
  <2>3. InstallIsAlone' /\ FilesAreKnown'
    BY <1>1, <1>2, <1>5 DEF InstallIsAlone, FilesAreKnown, Splitting
  <2>4. TempsAreKnown'
    BY <1>1, <1>2, <1>5, <2>1, Names DEF TempsAreKnown
  <2>5. QED
    BY <1>3, <2>2, <2>3, <2>4
<1>6. ASSUME NEW v, temps' = With(temps, UL(game, part), v), at' = "split",
             at \in {"part", "split"}, at = "part" => ~Exists(UL(game, part))
      PROVE  DriveInv'
  <2>1. DOMAIN temps' = DOMAIN temps \cup {UL(game, part)} /\ IsMap(temps')
    BY <1>6, WithFacts
  <2>2. DriveTypeOK'
    <3>1. UL(game, part) \in DriveNames
      BY <1>4 DEF DriveNames, DriveTypeOK
    <3>2. QED
      BY <1>1, <1>6, <2>1, <3>1 DEF DriveTypeOK, Steps
  <2>3. at = "part" => game \notin completed
    <3> SUFFICES ASSUME at = "part", game \in completed
                 PROVE  FALSE
      OBVIOUS
    <3>1. ~useDirectCopy(game) /\ PartsWhole(game)
      BY DEF InstallIsAlone, Splitting, CompletedIsWhole, HasData
    <3>2. Parts(game) >= 1 /\ Parts(game) \in Int
      BY <1>4, <3>1, PartsPositive, OPLAssumption DEF useDirectCopy
    <3>3. Exists(UL(game, 0)) /\ part = 0
      BY <3>1, <3>2 DEF PartsWhole, Fits, InstallIsAlone, Splitting, DriveTypeOK
    <3>4. QED
      BY <1>6, <3>3
  <2>4. InstallIsAlone' /\ FilesAreKnown'
    BY <1>1, <1>2, <1>6, <2>3 DEF InstallIsAlone, FilesAreKnown, Splitting
  <2>5. TempsAreKnown'
    BY <1>1, <1>2, <1>6, <2>1, Names DEF TempsAreKnown
  <2>6. QED
    BY <1>3, <2>2, <2>4, <2>5
<1>7. CASE CreateTemp
  BY <1>5, <1>7 DEF CreateTemp, Target
<1>8. CASE CopyChunk
  BY <1>5, <1>8 DEF CopyChunk, Target, install
<1>9. CASE SplitChunk
  BY <1>6, <1>9 DEF SplitChunk, install
<1>10. CASE StartPart /\ ~Exists(UL(game, part))
  BY <1>6, <1>10 DEF StartPart
<1>11. QED
  BY <1>7, <1>8, <1>9, <1>10

\* An install that gives up takes its parts and temporary files back.
LEMMA CleanupStep ==
    ASSUME DriveInv, Splitting, NEW removed, cleanup(removed), Return,
           cfg' = cfg, completed' = completed,
           PartialParts \ {UL(game, part)} \subseteq removed,
           at = "split" => UL(game, part) \in removed
    PROVE  DriveInv'
<1> USE DEF DriveInv
<1>1. /\ at' = "idle" /\ game' = NoGame /\ part' = 0 /\ game \in Games
      /\ ~useDirectCopy(game) /\ ~Listed(game) /\ part \in Nat
  BY DEF Return, DriveTypeOK, Splitting, InstallIsAlone
<1>2. \A g : Listed(g)' <=> Listed(g)
  BY DEF Listed
<1> DEFINE mine == {UL(game, n) : n \in 0 .. part - 1}
<1>3. CASE plugged
  <2>1. /\ files' = Without(files, mine) /\ temps' = Without(temps, removed)
        /\ excused' = excused
    BY <1>3 DEF cleanup
  <2> HIDE DEF mine
  <2>2. /\ DOMAIN files' = DOMAIN files \ mine
        /\ \A x \in DOMAIN files \ mine : files'[x] = files[x]
        /\ IsMap(files')
    BY <2>1, WithoutFacts
  <2>3. /\ DOMAIN temps' = DOMAIN temps \ removed
        /\ IsMap(temps')
    BY <2>1, WithoutFacts
  <2>4. DriveTypeOK'
    BY <1>1, <2>2, <2>3 DEF DriveTypeOK, Steps
  <2>5. ASSUME NEW g \in Games, Listed(g) \/ g \in completed,
               NEW x \in {DVD(g)} \cup {UL(g, n) : n \in Nat}, Exists(x)
        PROVE  x \notin mine
    <3>1. CASE part = 0
      BY <3>1 DEF mine
    <3>2. CASE part > 0
      <4>1. g # game
        BY <1>1, <2>5, <3>2 DEF InstallIsAlone
      <4>2. QED
        BY <4>1, Names DEF mine
    <3>3. QED
      BY <1>1, <3>1, <3>2
  <2>6. ListedIsWhole' /\ CompletedIsWhole'
    BY <2>2, <2>5, DataIsKept DEF Exists
  <2>7. InstallIsAlone'
    BY <1>1 DEF InstallIsAlone, Splitting
  <2>8. FilesAreKnown'
    BY <1>1, <1>2, <2>1, <2>2 DEF FilesAreKnown, Exists, Splitting, mine
  <2>9. TempsAreKnown'
    <3>1. part \in 0 .. part
      BY <1>1
    <3>2. ~(at = "copy")
      BY DEF Splitting
    <3>3. QED
      BY <1>1, <2>1, <2>3, <3>1, <3>2 DEF TempsAreKnown, PartialParts
  <2>10. QED
    BY <2>4, <2>6, <2>7, <2>8, <2>9
<1>4. CASE ~plugged
  <2>1. files' = files /\ temps' = temps /\ excused' = excused \cup {game}
    BY <1>4 DEF cleanup
  <2>2. \A x : Exists(x)' <=> Exists(x)
    BY <2>1 DEF Exists
  <2>3. DriveTypeOK'
    BY <1>1, <2>1 DEF DriveTypeOK, Steps
  <2>4. ListedIsWhole' /\ CompletedIsWhole'
    BY <2>1, <2>2, DataIsKept
  <2>5. InstallIsAlone'
    BY <1>1 DEF InstallIsAlone, Splitting
  <2>6. FilesAreKnown' /\ TempsAreKnown'
    BY <1>1, <1>2, <2>1, <2>2 DEF FilesAreKnown, TempsAreKnown, Splitting
  <2>7. QED
    BY <2>3, <2>4, <2>5, <2>6
<1>5. QED
  BY <1>3, <1>4

\* CopyFails, Crash and Verify: the install is over, its file may stay.
LEMMA EndSteps ==
    ASSUME DriveInv, CopyFails \/ Crash \/ Verify
    PROVE  DriveInv'
<1> USE DEF DriveInv
<1>1. /\ at' = "idle" /\ game' = NoGame /\ part' = 0 /\ game \in Games
      /\ files' = files /\ cfg' = cfg
  BY DEF CopyFails, Crash, Verify, Return, drive, DriveTypeOK
<1>2. /\ \A x : Exists(x)' <=> Exists(x)
      /\ \A g : Listed(g)' <=> Listed(g)
  BY <1>1 DEF Exists, Listed
<1>3. InstallIsAlone'
  BY <1>1 DEF InstallIsAlone, Splitting
<1>4. CASE CopyFails /\ plugged
  <2>1. /\ at = "copy" /\ completed' = completed /\ excused' = excused
        /\ temps' = Without(temps, {Target})
        /\ part # 0 => Target = DVD(game)
    BY <1>4 DEF CopyFails, Target
  <2>2. DOMAIN temps' = DOMAIN temps \ {Target} /\ IsMap(temps')
    BY <2>1, WithoutFacts
  <2>3. DriveTypeOK'
    BY <1>1, <2>1, <2>2 DEF DriveTypeOK, Steps
  <2>4. ListedIsWhole' /\ CompletedIsWhole'
    BY <1>1, <1>2, <2>1, DataIsKept
  <2>5. FilesAreKnown' /\ TempsAreKnown'
    BY <1>1, <1>2, <2>1, <2>2 DEF FilesAreKnown, TempsAreKnown, Splitting
  <2>6. QED
    BY <1>3, <2>3, <2>4, <2>5
<1>5. CASE (CopyFails /\ ~plugged) \/ Crash
  <2>1. /\ completed' = completed /\ excused' = excused \cup {game} /\ temps' = temps
    BY <1>5 DEF CopyFails, Crash, drive
  <2>2. DriveTypeOK'
    BY <1>1, <2>1 DEF DriveTypeOK, Steps
  <2>3. ListedIsWhole' /\ CompletedIsWhole'
    BY <1>1, <1>2, <2>1, DataIsKept
  <2>4. FilesAreKnown' /\ TempsAreKnown'
    BY <1>1, <1>2, <2>1 DEF FilesAreKnown, TempsAreKnown, Splitting
  <2>5. QED
    BY <1>3, <2>2, <2>3, <2>4
<1>6. CASE Verify
  <2>1. /\ at = "verify" /\ excused' = excused /\ temps' = temps
        /\ completed' = completed \/ (completed' = completed \cup {game} /\ HasData(game))
    BY <1>6 DEF Verify, drive, HasData
  <2>2. DriveTypeOK'
    BY <1>1, <2>1 DEF DriveTypeOK, Steps
  <2>3. \A g : HasData(g)' <=> HasData(g)
    BY <1>1, <1>2 DEF HasData, PartsWhole, Fits
  <2>4. CompletedIsWhole'
    BY <2>1, <2>3 DEF CompletedIsWhole
  <2>5. ListedIsWhole'
    BY <1>1, <1>2 DEF ListedIsWhole, AreWhole, PartsWhole, Fits
  <2>6. FilesAreKnown' /\ TempsAreKnown'
    BY <1>1, <1>2, <2>1 DEF FilesAreKnown, TempsAreKnown, Splitting
  <2>7. QED
    BY <1>3, <2>2, <2>4, <2>5, <2>6
<1>7. QED
  BY <1>4, <1>5, <1>6

\* The rename of a finished temporary file.
LEMMA CommitSteps ==
    ASSUME DriveInv, CommitCopy \/ CommitPart
    PROVE  DriveInv'
<1> USE DEF DriveInv
<1>1. /\ cfg' = cfg /\ completed' = completed /\ excused' = excused
      /\ game' = game /\ game \in Games /\ part \in Nat
  BY DEF CommitCopy, CommitPart, DriveTypeOK, history
<1>2. \A g : Listed(g)' <=> Listed(g)
  BY <1>1 DEF Listed
<1>3. ASSUME NEW x \in DriveNames, NEW v, files' = With(files, x, v),
             temps' = Without(temps, {x})
      PROVE  /\ DOMAIN files' = DOMAIN files \cup {x} /\ DOMAIN temps' = DOMAIN temps \ {x}
             /\ files'[x] = v /\ \A y \in DOMAIN files : y # x => files'[y] = files[y]
             /\ \A y : Exists(y)' <=> Exists(y) \/ y = x
             /\ IsMap(files') /\ IsMap(temps')
             /\ DOMAIN files' \cup DOMAIN temps' \subseteq DriveNames
  <2>1. /\ DOMAIN files' = DOMAIN files \cup {x} /\ files'[x] = v /\ IsMap(files')
        /\ \A y \in DOMAIN files : y # x => files'[y] = files[y]
    <3> DEFINE f == With(files, x, v)
    <3>1. /\ DOMAIN f = DOMAIN files \cup {x} /\ f[x] = v /\ IsMap(f)
          /\ \A y \in DOMAIN files : y # x => f[y] = files[y]
      BY DEF With, IsMap
    <3> HIDE DEF f
    <3>2. files' = f
      BY <1>3 DEF f
    <3>3. QED
      BY <3>1, <3>2
  <2>2. DOMAIN temps' = DOMAIN temps \ {x} /\ IsMap(temps')
    BY <1>3, WithoutFacts
  <2>3. DOMAIN files' \cup DOMAIN temps' \subseteq DriveNames
    BY <2>1, <2>2 DEF DriveTypeOK
  <2>4. QED
    BY <2>1, <2>2, <2>3 DEF Exists
<1>4. CASE CommitCopy
  <2>1. /\ at = "copy" /\ part' = part
        /\ Target = IF part = 0 THEN System ELSE DVD(game)
        /\ at' = IF Target = System THEN "check" ELSE "verify"
        /\ files' = With(files, Target, Total) /\ temps' = Without(temps, {Target})
    BY <1>4 DEF CommitCopy, Target
  <2>2. Target \in DriveNames /\ (Target = System <=> part = 0)
    BY <1>1, <2>1, Names DEF DriveNames
  <2>3. /\ DOMAIN temps' = DOMAIN temps \ {Target}
        /\ \A y \in DOMAIN files : y # Target => files'[y] = files[y]
        /\ \A y : Exists(y)' <=> Exists(y) \/ y = Target
        /\ IsMap(files') /\ IsMap(temps')
        /\ DOMAIN files' \cup DOMAIN temps' \subseteq DriveNames
    BY <1>3, <2>1, <2>2
  <2>4. DriveTypeOK'
    BY <1>1, <2>1, <2>3 DEF DriveTypeOK, Steps
  <2>5. Target = System \/ ~Exists(Target)
    BY <2>1 DEF InstallIsAlone
  <2>6. ListedIsWhole' /\ CompletedIsWhole'
    BY <1>1, <2>3, <2>5, Names, DataIsKept DEF Exists
  <2>7. InstallIsAlone'
    BY <2>1, <2>2 DEF InstallIsAlone, Splitting
  <2>8. \A g, n : Target # UL(g, n)
    BY <2>1, Names
  <2>9. FilesAreKnown'
    BY <1>1, <1>2, <2>1, <2>3, <2>8 DEF FilesAreKnown, Splitting
  <2>10. TempsAreKnown'
    BY <1>1, <2>1, <2>2, <2>3, Names DEF TempsAreKnown
  <2>11. QED
    BY <2>4, <2>6, <2>7, <2>9, <2>10
<1>5. CASE CommitPart
  <2> DEFINE temp == UL(game, part)
  <2>1. /\ at = "split" /\ part' = part + 1
        /\ at' = IF part + 1 = Parts(game) THEN "record" ELSE "part"
        /\ files' = With(files, temp, PartLength(game, part))
        /\ temps' = Without(temps, {temp})
    BY <1>5 DEF CommitPart
  <2>2. temp \in DriveNames
    BY <1>1 DEF DriveNames
  <2>3. /\ DOMAIN temps' = DOMAIN temps \ {temp}
        /\ files'[temp] = PartLength(game, part)
        /\ \A y \in DOMAIN files : y # temp => files'[y] = files[y]
        /\ \A y : Exists(y)' <=> Exists(y) \/ y = temp
        /\ IsMap(files') /\ IsMap(temps')
        /\ DOMAIN files' \cup DOMAIN temps' \subseteq DriveNames
    BY <1>3, <2>1, <2>2
  <2>4. DriveTypeOK'
    <3>1. at' \in {"record", "part"} /\ part' \in Nat
      BY <1>1, <2>1
    <3>2. QED
      BY <1>1, <2>1, <2>3, <3>1 DEF DriveTypeOK, Steps
  <2>5. ~Listed(game) /\ game \notin completed /\ ~useDirectCopy(game)
    BY <2>1 DEF InstallIsAlone, Splitting
  <2>6. ListedIsWhole' /\ CompletedIsWhole'
    BY <1>1, <2>3, <2>5, Names, DataIsKept DEF Exists
  <2>7. InstallIsAlone'
    <3>1. \A n \in 0 .. part' - 1 : n \in 0 .. part - 1 \/ n = part
      BY <1>1, <2>1
    <3>2. \A n \in 0 .. part' - 1 :
             Exists(UL(game, n))' /\ files'[UL(game, n)] = PartLength(game, n)
      <4> SUFFICES ASSUME NEW n \in 0 .. part' - 1
                   PROVE  Exists(UL(game, n))' /\ files'[UL(game, n)] = PartLength(game, n)
        OBVIOUS
      <4>1. CASE n = part
        BY <1>1, <2>3, <4>1
      <4>2. CASE n # part
        <5>1. /\ Exists(UL(game, n)) /\ files[UL(game, n)] = PartLength(game, n)
              /\ UL(game, n) # temp
          BY <2>1, <3>1, <4>2, Names DEF InstallIsAlone, Splitting
        <5>2. QED
          BY <1>1, <2>3, <5>1 DEF Exists
      <4>3. QED
        BY <4>1, <4>2
    <3>3. QED
      BY <1>1, <1>2, <2>1, <2>5, <3>2 DEF InstallIsAlone, Splitting
  <2>8. FilesAreKnown'
    BY <1>1, <1>2, <2>1, <2>3, Names DEF FilesAreKnown, Splitting
  <2>9. TempsAreKnown'
    BY <1>1, <2>1, <2>3, Names, ZenonT(60) DEF TempsAreKnown
  <2>10. QED
    BY <2>4, <2>6, <2>7, <2>8, <2>9
<1>6. QED
  BY <1>4, <1>5

\* The records with the new one are whole, and go to ul.cfg.partial.
LEMMA UpdateStep ==
    ASSUME DriveInv, upsertULRecord
    PROVE  DriveInv'
<1> USE DEF DriveInv
<1> DEFINE kept == filtered(cfg, Title[game], game)
           new  == [title |-> Title[game], image |-> game, parts |-> Parts(game)]
<1>1. /\ at = "record" /\ at' \in {"rename", "unwritten"}
      /\ update'.records = Append(kept, new)
      /\ files' = files /\ temps' = With(temps, ULConfig, 1) /\ completed' = completed
      /\ cfg' = cfg /\ excused' = excused
      /\ game' = game /\ part' = part /\ game \in Games /\ Splitting
      /\ ~useDirectCopy(game) /\ part = Parts(game)
  BY DEF upsertULRecord, DriveTypeOK, Splitting, InstallIsAlone, history
<1>2. /\ kept \in Seq(Record)
      /\ \A r : (\E k \in DOMAIN kept : kept[k] = r)
                <=> (\E k \in DOMAIN cfg : cfg[k] = r /\ r.title # Title[game]
                                           /\ r.image # game)
  BY FilteredRecords, SMTT(30) DEF DriveTypeOK
<1>3. new \in Record
  BY <1>1, PartsPositive DEF Record
<1>4. new.image = game /\ new.parts = Parts(game)
  OBVIOUS
<1> HIDE DEF kept, new
<1>5. /\ update'.records \in Seq(Record)
      /\ DOMAIN update'.records = DOMAIN kept \cup {Len(kept) + 1}
      /\ update'.records[Len(kept) + 1] = new
      /\ \A k \in DOMAIN kept : update'.records[k] = kept[k]
  BY <1>1, <1>2, <1>3, AppendProperties
<1>6. /\ \A x : Exists(x)' <=> Exists(x)
      /\ \A g : Listed(g)' <=> Listed(g)
  BY <1>1 DEF Exists, Listed
<1>7. PartsWhole(game)
  BY <1>1 DEF InstallIsAlone, PartsWhole, Fits
<1>8. \A g : PartsWhole(g)' <=> PartsWhole(g)
  BY <1>1, <1>6 DEF PartsWhole, Fits
<1>9. /\ DOMAIN temps' = DOMAIN temps \cup {ULConfig} /\ IsMap(temps')
      /\ ULConfig \in DriveNames
  <2>1. ULConfig \in DriveNames
    BY DEF DriveNames
  <2>2. DOMAIN temps' = DOMAIN temps \cup {ULConfig} /\ IsMap(temps')
    BY <1>1, WithFacts
  <2>3. QED
    BY <2>1, <2>2
<1>10. DriveTypeOK'
  BY <1>1, <1>9 DEF DriveTypeOK, Steps
<1>11. ListedIsWhole' /\ CompletedIsWhole'
  BY <1>1, <1>6, DataIsKept
<1>12. AreWhole(update.records)'
  <2> SUFFICES ASSUME NEW i \in DOMAIN update'.records,
                      (update.records[i].image # NoGame)'
               PROVE  (/\ update.records[i].parts = Parts(update.records[i].image)
                       /\ PartsWhole(update.records[i].image))'
    BY DEF AreWhole
  <2>1. CASE i \in DOMAIN kept
    <3>1. PICK k \in DOMAIN cfg : cfg[k] = update'.records[i]
      BY <1>2, <1>5, <2>1
    <3>2. QED
      BY <1>8, <3>1 DEF ListedIsWhole, AreWhole
  <2>2. CASE i = Len(kept) + 1
    BY <1>4, <1>5, <1>7, <1>8, <2>2
  <2>3. QED
    BY <1>5, <2>1, <2>2
<1>13. UpdateIsWhole'
  BY <1>5, <1>12 DEF UpdateIsWhole
<1>14. InstallIsAlone'
  BY <1>1, <1>6, <1>13 DEF InstallIsAlone, Splitting
<1>15. FilesAreKnown'
  BY <1>1, <1>6 DEF FilesAreKnown, Splitting
<1>16. TempsAreKnown'
  BY <1>1, <1>9, Names DEF TempsAreKnown
<1>17. QED
  BY <1>10, <1>11, <1>14, <1>15, <1>16

\* They become ul.cfg.
LEMMA CommitConfigStep ==
    ASSUME DriveInv, CommitConfig
    PROVE  DriveInv'
<1> USE DEF DriveInv
<1>1. /\ at = "rename" /\ at' = "verify" /\ cfg' = update.records
      /\ files' = files /\ temps' = Without(temps, {ULConfig}) /\ completed' = completed
      /\ game' = game /\ part' = part /\ game \in Games /\ UpdateIsWhole
      /\ excused' = excused \cup ((Images(cfg) \cup {game}) \ Images(update.records))
  BY DEF CommitConfig, DriveTypeOK, InstallIsAlone
<1>2. DOMAIN temps' = DOMAIN temps \ {ULConfig} /\ IsMap(temps')
  BY <1>1, WithoutFacts
<1>3. \A x : Exists(x)' <=> Exists(x)
  BY <1>1 DEF Exists
<1>4. \A g : PartsWhole(g)' <=> PartsWhole(g)
  BY <1>1, <1>3 DEF PartsWhole, Fits
<1>5. DriveTypeOK'
  BY <1>1, <1>2 DEF DriveTypeOK, Steps, UpdateIsWhole
<1>6. ListedIsWhole'
  BY <1>1, <1>4 DEF ListedIsWhole, UpdateIsWhole, AreWhole
<1>7. CompletedIsWhole'
  BY <1>1, <1>3, <1>4 DEF CompletedIsWhole, HasData, Fits
<1>8. InstallIsAlone'
  BY <1>1 DEF InstallIsAlone, Splitting
<1>9. ASSUME NEW g \in Games \ excused', Listed(g) \/ g = game
      PROVE  Listed(g)'
  <2>1. g \in Images(cfg) \cup {game}
    BY <1>9, OPLAssumption DEF Listed, Images
  <2>2. g \in Images(update.records)
    BY <1>1, <2>1
  <2>3. QED
    BY <1>1, <2>2 DEF Listed, Images
<1>10. FilesAreKnown'
  BY <1>1, <1>3, <1>9 DEF FilesAreKnown
<1>11. TempsAreKnown'
  BY <1>1, <1>2 DEF TempsAreKnown
<1>12. QED
  BY <1>5, <1>6, <1>7, <1>8, <1>10, <1>11

\* What is left of unsynced records are records, and none names another game.
LEMMA LeftFacts ==
    ASSUME NEW file, file.records \in Seq(Record), NEW now \in Left(file)
    PROVE  /\ now.records \in Seq(Record)
           /\ \A i \in DOMAIN now.records :
                 now.records[i].image # NoGame =>
                     \E k \in DOMAIN file.records : file.records[k] = now.records[i]
<1> DEFINE s == file.records
           end(n, cut) == CASE cut = "between" -> <<>>
                            [] cut = "name"    -> <<[s[n + 1] EXCEPT !.image = NoGame]>>
                            [] cut = "image"   -> <<s[n + 1]>>
<1>1. CASE now = file
  BY <1>1
<1>2. CASE now # file
  <2>1. PICK n \in 0 .. Len(s) - 1, cut \in {"between", "name", "image"} :
            now.records = Cut(s, n, cut)
    BY <1>2 DEF Left
  <2> DEFINE head == SubSeq(s, 1, n)
             rest == end(n, cut)
  <2>2. now.records = head \o rest
    BY <2>1 DEF Cut
  <2>3. /\ Len(s) \in Nat /\ DOMAIN s = 1 .. Len(s)
        /\ n \in 0 .. Len(s) /\ n + 1 \in DOMAIN s /\ s[n + 1] \in Record
    OBVIOUS
  <2>4. /\ head \in Seq(Record) /\ Len(head) = n /\ DOMAIN head = 1 .. n
        /\ \A k \in 1 .. n : head[k] = s[k]
    BY <2>3, SubSeqProperties
  <2>5. /\ [s[n + 1] EXCEPT !.image = NoGame] \in Record
        /\ [s[n + 1] EXCEPT !.image = NoGame].image = NoGame
    BY <2>3 DEF Record
  <2>6. /\ rest \in Seq(Record) /\ Len(rest) \in {0, 1}
        /\ Len(rest) = 1 => rest[1].image = NoGame \/ rest[1] = s[n + 1]
    <3>1. CASE cut = "between"
      BY <3>1
    <3>2. CASE cut = "name"
      <4> DEFINE r == [s[n + 1] EXCEPT !.image = NoGame]
      <4>1. rest = <<r>>
        BY <3>2
      <4>2. r \in Record /\ r.image = NoGame
        BY <2>5
      <4> HIDE DEF r, rest
      <4>3. QED
        BY <4>1, <4>2
    <3>3. CASE cut = "image"
      BY <2>3, <3>3
    <3>4. QED
      BY <3>1, <3>2, <3>3
  <2> HIDE DEF head, rest, s, end
  <2>7. /\ head \o rest \in Seq(Record)
        /\ Len(head \o rest) = n + Len(rest)
        /\ \A k \in 1 .. n + Len(rest) :
              (head \o rest)[k] = IF k <= n THEN head[k] ELSE rest[k - n]
    BY <2>4, <2>6, ConcatProperties
  <2>8. ASSUME NEW i \in DOMAIN (head \o rest), (head \o rest)[i].image # NoGame
        PROVE  \E k \in DOMAIN s : s[k] = (head \o rest)[i]
    <3>1. i \in 1 .. n \/ (i = n + 1 /\ Len(rest) = 1)
      <4>1. i \in 1 .. n + Len(rest) /\ n \in Nat /\ Len(rest) \in {0, 1}
        BY <2>3, <2>6, <2>7
      <4>2. \A a \in Nat, b \in {0, 1} :
                \A k \in 1 .. a + b : k \in 1 .. a \/ (k = a + 1 /\ b = 1)
        OBVIOUS
      <4>3. QED
        BY <4>1, <4>2
    <3>2. CASE i \in 1 .. n
      BY <2>3, <2>4, <2>6, <2>7, <3>2
    <3>3. CASE i = n + 1 /\ Len(rest) = 1
      <4>1. (head \o rest)[i] = rest[1]
        BY <2>3, <2>7, <3>3
      <4>2. QED
        BY <2>3, <2>6, <2>8, <3>3, <4>1
    <3>4. QED
      BY <3>1, <3>2, <3>3
  <2>9. QED
    BY <2>2, <2>7, <2>8 DEF s
<1>3. QED
  BY <1>1, <1>2

\* The drive is pulled out, and ul.cfg and ul.cfg.partial may lose their ends.
LEMMA UnplugStep ==
    ASSUME DriveInv, Unplug
    PROVE  DriveInv'
<1> USE DEF DriveInv
<1>1. /\ files' = files /\ temps' = temps /\ completed' = completed
      /\ at' = at /\ game' = game /\ part' = part
  BY DEF Unplug
<1>2. /\ cfg' \in Seq(Record)
      /\ \A i \in DOMAIN cfg' :
            cfg'[i].image # NoGame => \E k \in DOMAIN cfg : cfg[k] = cfg'[i]
      /\ excused' = excused \cup (Images(cfg) \ Images(cfg'))
  <2> DEFINE config == [records |-> cfg, torn |-> torn]
  <2>1. PICK now : /\ now \in Left(config) \/ now = config
                   /\ cfg' = now.records
                   /\ excused' = excused \cup (Images(cfg) \ Images(now.records))
    BY DEF Unplug
  <2>2. config.records = cfg /\ cfg \in Seq(Record)
    BY DEF DriveTypeOK
  <2> HIDE DEF config
  <2>3. CASE now = config
    BY <2>1, <2>2, <2>3
  <2>4. CASE now \in Left(config)
    BY <2>1, <2>2, <2>4, LeftFacts
  <2>5. QED
    BY <2>1, <2>3, <2>4
<1>3. \A x : Exists(x)' <=> Exists(x)
  BY <1>1 DEF Exists
<1>4. \A g : PartsWhole(g)' <=> PartsWhole(g)
  BY <1>1, <1>3 DEF PartsWhole, Fits
<1>5. \A g \in Games \ excused' : Listed(g) => Listed(g)'
  BY <1>2, OPLAssumption DEF Listed, Images
<1>6. Splitting => ~Listed(game)'
  <2>1. Splitting => game # NoGame
    BY DEF Splitting, DriveTypeOK
  <2>2. QED
    BY <1>1, <1>2, <2>1 DEF Listed, InstallIsAlone
<1>7. DriveTypeOK'
  BY <1>1, <1>2 DEF DriveTypeOK
<1>8. ListedIsWhole'
  BY <1>2, <1>4 DEF ListedIsWhole, AreWhole
<1>9. CompletedIsWhole'
  BY <1>1, <1>3, <1>4 DEF CompletedIsWhole, HasData, Fits
<1>10. (at = "rename" => UpdateIsWhole)'
  <2> SUFFICES ASSUME at = "rename" PROVE UpdateIsWhole'
    BY <1>1
  <2>1. UpdateIsWhole /\ update' \in Left(update)
    BY DEF InstallIsAlone, Unplug
  <2>2. /\ update'.records \in Seq(Record)
        /\ \A i \in DOMAIN update'.records :
              update'.records[i].image # NoGame =>
                  \E k \in DOMAIN update.records : update.records[k] = update'.records[i]
    BY <2>1, LeftFacts DEF UpdateIsWhole
  <2>3. AreWhole(update.records)'
    BY <1>4, <2>1, <2>2 DEF UpdateIsWhole, AreWhole
  <2>4. QED
    BY <2>2, <2>3 DEF UpdateIsWhole
<1>11. InstallIsAlone'
  BY <1>1, <1>3, <1>6, <1>10 DEF InstallIsAlone, Splitting
<1>12. FilesAreKnown' /\ TempsAreKnown'
  BY <1>1, <1>2, <1>3, <1>5 DEF FilesAreKnown, TempsAreKnown, Splitting
<1>13. QED
  BY <1>7, <1>8, <1>9, <1>11, <1>12

\* Every step keeps the invariant.  A part that is there already ends the install
\* like an error.
LEMMA DriveInvariance ==
    DriveInv /\ (OPLNext \/ UNCHANGED oplVars) => DriveInv'
<1> SUFFICES ASSUME DriveInv, OPLNext \/ UNCHANGED oplVars
             PROVE  DriveInv'
  OBVIOUS
<1>1. CASE StartPart /\ Exists(UL(game, part))
  <2>1. /\ Splitting /\ at # "split" /\ cleanup(PartialParts \ {UL(game, part)}) /\ Return
        /\ cfg' = cfg /\ completed' = completed
    BY <1>1 DEF StartPart, Splitting
  <2>2. QED
    BY <2>1, CleanupStep
<1>2. CASE usbExtremeFails
  <2>1. /\ Splitting /\ cleanup(PartialParts) /\ Return
        /\ cfg' = cfg /\ completed' = completed
    BY <1>2 DEF usbExtremeFails, Splitting
  <2>2. UL(game, part) \in PartialParts
    BY DEF PartialParts, DriveInv, DriveTypeOK
  <2>3. QED
    BY <2>1, <2>2, CleanupStep
<1>3. QED
  BY <1>1, <1>2, QuietSteps, TempSteps, EndSteps, CommitSteps, UpdateStep,
     CommitConfigStep, UnplugStep
  DEF OPLNext

\* The drive is empty at first.
LEMMA DriveInvInit == OPLInit => DriveInv
  BY DEF OPLInit, DriveInv, DriveTypeOK, ListedIsWhole, AreWhole, CompletedIsWhole, InstallIsAlone,
         FilesAreKnown, TempsAreKnown, Splitting, Steps, IsMap, Exists, Listed

\* What the invariant says of games and of failed installs.
LEMMA DriveInvImplies == DriveInv => GamesAreWhole /\ FailedInstallLeavesNothing
<1> SUFFICES ASSUME DriveInv
             PROVE  GamesAreWhole /\ FailedInstallLeavesNothing
  OBVIOUS
<1> USE DEF DriveInv
<1>1. GamesAreWhole
  BY DEF GamesAreWhole, ListedIsWhole, AreWhole, CompletedIsWhole, HasData
<1>2. ASSUME at = "idle", NEW g \in Games \ excused
      PROVE  /\ ~Listed(g) => PartsOf(g) = {}
             /\ \A name \in DOMAIN temps : name \in {System, ULConfig} \/ name[2] # g
  <2>1. \A n \in Nat : UL(g, n) \notin DOMAIN temps /\ (Exists(UL(g, n)) => Listed(g))
    BY <1>2 DEF FilesAreKnown, TempsAreKnown, Splitting
  <2>2. DVD(g) \notin DOMAIN temps
    BY <1>2 DEF TempsAreKnown
  <2>3. ASSUME NEW name \in DriveNames
        PROVE  \/ name \in {System, ULConfig} /\ name[1] \in {"system", "ul.cfg"}
               \/ \E h \in Games : name = DVD(h) /\ name[1] = "DVD" /\ name[2] = h
               \/ \E h \in Games, n \in Nat : name = UL(h, n) /\ name[1] = "ul" /\ name[2] = h
    BY <2>3 DEF DriveNames, System, ULConfig, DVD, UL
  <2>4. DOMAIN files \cup DOMAIN temps \subseteq DriveNames
    BY DEF DriveTypeOK
  <2>5. QED
    BY <2>1, <2>2, <2>3, <2>4 DEF PartsOf, Exists
<1>3. QED
  BY <1>1, <1>2 DEF FailedInstallLeavesNothing

----------------------------------------------------------------------------
(* The theorems.                                                            *)

\* The drive and the package keep their invariants, whichever way a game takes.
ConversionInv == DriveInv /\ BuildInv /\ StageOK /\ TreeIsSized /\ ReadInv

\* The invariants of the drive and of a build hold in every reachable state.
THEOREM ConversionInvariance == ConversionSpec => []ConversionInv
<1>1. ConversionInit => ConversionInv
  <2>1. FPKGInit => TreeIsSized /\ ReadInv
    BY DEF FPKGInit, ImageInit, TreeIsSized, ReadInv, ImageIsWritten, SlotsAreInBlocks,
       SectorsAreEncrypted, PastWrite
  <2>2. QED
    BY <2>1, DriveInvInit, PackageInit DEF ConversionInit, ConversionInv
<1>2. ConversionInv /\ [ConversionNext]_conversionVars => ConversionInv'
  <2> SUFFICES ASSUME ConversionInv, [ConversionNext]_conversionVars
               PROVE  ConversionInv'
    OBVIOUS
  <2>1. /\ OPLNext \/ UNCHANGED oplVars
        /\ FPKGNext \/ UNCHANGED fpkgVars
    BY DEF ConversionNext, conversionVars
  <2>2. QED
    BY <2>1, DriveInvariance, PackageInvariance, SizeInvariance, ReadInvariance
       DEF ConversionInv
<1>3. QED
  BY <1>1, <1>2, PTL DEF ConversionSpec

\* Every game that ul.cfg lists has all its parts on the drive, and every game whose
\* install was reported has all its data, whatever games are installed, whenever the
\* drive is pulled out or the program dies (Filesystem.InstallGame).
THEOREM GamesAreWholeAlways == ConversionSpec => []GamesAreWhole
<1>1. ConversionInv => GamesAreWhole
  BY DriveInvImplies DEF ConversionInv
<1>2. QED
  BY <1>1, ConversionInvariance, PTL

\* Between installs there is no unfinished file but ul.cfg.partial, and no part of a
\* game that ul.cfg does not list, but of games that a crash, an unplugged drive or a
\* game of the same title left behind (Filesystem.usbExtreme and its clean-up).
THEOREM FailedInstallsLeaveNothing == ConversionSpec => []FailedInstallLeavesNothing
<1>1. ConversionInv => FailedInstallLeavesNothing
  BY DriveInvImplies DEF ConversionInv
<1>2. QED
  BY <1>1, ConversionInvariance, PTL

\* The name of the package never stands for a part of one, unless it is being copied,
\* and no workspace outlives its build (FPKGBuilder.Build, publishFile).
THEOREM OutputIsAlwaysWhole == ConversionSpec => []OutputIsWhole
<1>1. ConversionInv => OutputIsWhole
  BY DEF ConversionInv, StageOK
<1>2. QED
  BY <1>1, ConversionInvariance, PTL

\* In a package that is built every signature and digest is that of the bytes that are
\* there, for any sizes of image and any number of workers (orbis.Build, parallelDo).
THEOREM SealsAreAlwaysFinal == ConversionSpec => []SealsAreFinal
<1>1. ConversionInv => SealsAreFinal
  BY BuildInvImplies DEF ConversionInv
<1>2. QED
  BY <1>1, ConversionInvariance, PTL

\* The entries of a package lie one behind the other before its image, and the table of
\* chunk digests has room for the digests of the package it is part of, as long as the
\* package has less than 256 GB (buildHeaderAndEntries).
THEOREM EntriesAlwaysFit == ConversionSpec => []EntriesFit
<1>1. ConversionInv => EntriesFit
  BY SizedTreesFit DEF ConversionInv
<1>2. QED
  BY <1>1, ConversionInvariance, PTL

\* Who opens a package that was built finds in it the directories of its tree and its
\* files with their sizes and contents, each by its name, and nothing else: for any tree
\* whose directories fit in their blocks, however many blocks the image has and whatever
\* workers sign and encrypt them.  Each is found by the hash of its path as well if the
\* tree has no more paths and collisions than the blocks that are reserved for the path
\* table and the resolver hold (orbis.Build, OpenPackage, newPfscReader,
\* pfsReader.loadDir).
THEOREM TreesAreReadBack == ConversionSpec => []ReadsBack
<1>1. ConversionInv => ReadsBack
  BY BuiltIsReadBack DEF ConversionInv
<1>2. QED
  BY <1>1, ConversionInvariance, PTL

=============================================================================
