---------------------------- MODULE OPLFilesystem ----------------------------
(***************************************************************************)
(* ps2.Filesystem: games on an OPL drive.  A small game is copied to       *)
(* DVD/<serial>.<title>.iso, a large one is split into ul.<crc>.<serial>.n *)
(* parts and gets a record in ul.cfg.  Every file is written to a .partial *)
(* name, synced and renamed; ul.cfg is renamed without a sync.             *)
(*                                                                         *)
(* A file is its size in chunks.  Installs run one at a time (the worker   *)
(* of ps2.Queue); any of their steps may fail, be cancelled, lose the      *)
(* drive or be the last one of the process.  A game stands for its serial. *)
(***************************************************************************)
EXTENDS Integers, Sequences, FiniteSets, Functions

CONSTANTS
    Games,
    Title,            \* [Games -> titles cut to 32 bytes]
    Size,             \* [Games -> chunks of the ISO when the library was scanned]
    SystemSize,       \* chunks of the system directory
    DirectCopyLimit,  \* games up to this size are copied in one piece
    PartSize,         \* chunks of a part
    MaxParts          \* what the part count in a record can hold: 255

NoGame == "none"

ASSUME OPLAssumption ==
    /\ {Size[g] : g \in Games} \cup {DirectCopyLimit, SystemSize, MaxParts}
       \subseteq Nat
    /\ PartSize \in Nat \ {0}
    /\ NoGame \notin Games

VARIABLES
    plugged,  \* the drive is there
    files,    \* what the drive holds: [name -> chunks]
    temps,    \* the .partial files: [name -> chunks]
    cfg,      \* the records of ul.cfg
    torn,     \* ul.cfg ends within a record
    dirty,    \* ul.cfg is not on the medium yet
    iso,      \* chunks of the game's ISO: it may be another one since the scan
    at,       \* the step of InstallGame
    game,     \* the game being installed
    part,     \* parts created by this install
    update,   \* what this install wrote to ul.cfg.partial
    open,     \* the handle of the file being written is good
    stopped,  \* the context is cancelled
    excused,  \* history: games whose files the code could not tidy up
    completed \* history: games whose install was verified

drive   == <<files, temps, cfg, torn, dirty>>
install == <<at, game, iso, part, update, open, stopped>>
history == <<excused, completed>>
oplVars == <<plugged, drive, install, history>>

System    == <<"system">>
DVD(g)    == <<"DVD", g>>
UL(g, n)  == <<"ul", g, n>>
ULConfig  == <<"ul.cfg">>

useDirectCopy(g) == Size[g] <= DirectCopyLimit
Parts(g)         == (Size[g] + PartSize - 1) \div PartSize

PartLength(g, n) ==
    LET left == Size[g] - n * PartSize
    IN  IF left < PartSize THEN left ELSE PartSize

Without(f, names) == Restrict(f, DOMAIN f \ names)
With(f, name, n)  == [x \in DOMAIN f \cup {name} |-> IF x = name THEN n ELSE f[x]]

Exists(name)  == name \in DOMAIN files
PartsOf(g)    == {name \in DOMAIN files \cup DOMAIN temps :
                    name[1] = "ul" /\ name[2] = g}

Listed(g)     == \E i \in DOMAIN cfg : cfg[i].image = g

NoUpdate        == [records |-> <<>>, torn |-> FALSE]
Images(records) == {records[i].image : i \in DOMAIN records} \ {NoGame}

\* Compare: what the web page shows as installed.
Installed(g)  == Listed(g) \/ Exists(DVD(g))

OPLInit ==
    /\ plugged = TRUE
    /\ files = <<>> /\ temps = <<>>
    /\ cfg = <<>> /\ torn = FALSE /\ dirty = FALSE
    /\ at = "idle" /\ game = NoGame /\ iso = 0 /\ part = 0 /\ update = NoUpdate
    /\ open = FALSE /\ stopped = FALSE
    /\ excused = {} /\ completed = {}

----------------------------------------------------------------------------
(* How an install ends.                                                     *)

Return ==
    /\ at' = "idle" /\ game' = NoGame /\ iso' = 0 /\ part' = 0 /\ update' = NoUpdate
    /\ open' = FALSE /\ stopped' = FALSE

\* Mutant: only the part in hand is removed.
cleanup_TempOnly(removed) ==
    IF plugged
    THEN /\ temps' = Without(temps, removed)
         /\ UNCHANGED <<files, excused>>
    ELSE /\ excused' = excused \cup {game}
         /\ UNCHANGED <<files, temps>>

\* Removes the parts this install created and its .partial files, if it can.
cleanup(removed) ==
    IF plugged
    THEN /\ files' = Without(files, {UL(game, n) : n \in 0 .. part - 1})
         /\ temps' = Without(temps, removed)
         /\ UNCHANGED excused
    ELSE /\ excused' = excused \cup {game}
         /\ UNCHANGED <<files, temps>>

PartialParts == {UL(game, n) : n \in 0 .. part}

----------------------------------------------------------------------------
(* copyWithProgress: the system directory, then a small game.               *)

\* The file that is copied at this point, and how much there is to copy.
Target == IF at \in {"create", "copy"} /\ part = 0 THEN System ELSE DVD(game)
Total  == IF Target = System THEN SystemSize ELSE iso

\* The worker took a job; Prepare has made the directories.
InstallGame(g) ==
    /\ at = "idle" /\ plugged
    /\ at' = "create" /\ game' = g
    /\ iso' \in {Size[g] - 1, Size[g], Size[g] + 1} \cap Nat
    /\ UNCHANGED <<plugged, drive, part, update, open, stopped, history>>

\* The install stops before it wrote anything for the game.
InstallFails ==
    /\ at \in {"create", "check"}
    /\ Return
    /\ UNCHANGED <<plugged, drive, history>>

CreateTemp ==
    /\ at = "create" /\ plugged
    /\ temps' = With(temps, Target, 0)
    /\ open' = TRUE
    /\ at' = "copy"
    /\ UNCHANGED <<plugged, files, cfg, torn, dirty, iso, game, part, update, stopped,
                   history>>

CopyChunk ==
    /\ at = "copy" /\ open /\ ~stopped
    /\ temps[Target] < Total
    /\ temps' = With(temps, Target, temps[Target] + 1)
    /\ UNCHANGED <<plugged, files, cfg, torn, dirty, install, history>>

\* A read, write or sync fails, the drive is gone, or the context is done.
CopyFails ==
    /\ at = "copy"
    /\ IF plugged
       THEN temps' = Without(temps, {Target}) /\ UNCHANGED excused
       ELSE excused' = excused \cup {game} /\ UNCHANGED temps
    /\ Return
    /\ UNCHANGED <<plugged, files, cfg, torn, dirty, completed>>

CommitCopy ==
    /\ at = "copy" /\ open
    /\ temps[Target] = Total
    /\ files' = With(files, Target, Total)
    /\ temps' = Without(temps, {Target})
    /\ at' = IF Target = System THEN "check" ELSE "verify"
    /\ open' = FALSE
    /\ UNCHANGED <<plugged, cfg, torn, dirty, iso, game, part, update, stopped, history>>

\* directCopy: a file of the right size is taken for the game.  part = 1 tells
\* the second copy from the first.
DirectCopy ==
    /\ at = "check" /\ plugged
    /\ useDirectCopy(game)
    /\ IF Exists(DVD(game))
       THEN IF files[DVD(game)] = Size[game]
            THEN at' = "verify" /\ UNCHANGED <<game, iso, part, update, open, stopped>>
            ELSE Return
       ELSE at' = "create" /\ part' = 1 /\ UNCHANGED <<game, iso, update, open, stopped>>
    /\ UNCHANGED <<plugged, drive, history>>

----------------------------------------------------------------------------
(* usbExtreme: a large game in parts, and its record in ul.cfg.             *)

usbExtreme ==
    /\ at = "check" /\ plugged
    /\ ~useDirectCopy(game)
    /\ IF Listed(game) \/ Parts(game) > MaxParts
       THEN Return
       ELSE at' = "part" /\ UNCHANGED <<game, iso, part, update, open, stopped>>
    /\ UNCHANGED <<plugged, drive, history>>

StartPart ==
    /\ at = "part" /\ plugged
    /\ IF Exists(UL(game, part))
       THEN cleanup(PartialParts \ {UL(game, part)}) /\ Return
       ELSE /\ temps' = With(temps, UL(game, part), 0)
            /\ open' = TRUE
            /\ at' = "split"
            /\ UNCHANGED <<files, game, iso, part, update, stopped, excused>>
    /\ UNCHANGED <<plugged, cfg, torn, dirty, completed>>

SplitChunk ==
    LET temp == UL(game, part)
    IN  /\ at = "split" /\ open /\ ~stopped
        /\ temps[temp] < PartLength(game, part)
        /\ part * PartSize + temps[temp] < iso
        /\ temps' = With(temps, temp, temps[temp] + 1)
        /\ UNCHANGED <<plugged, files, cfg, torn, dirty, install, history>>

CommitPart ==
    LET temp == UL(game, part)
    IN  /\ at = "split" /\ open /\ plugged
        /\ temps[temp] = PartLength(game, part)
        /\ files' = With(files, temp, temps[temp])
        /\ temps' = Without(temps, {temp})
        /\ part' = part + 1
        /\ open' = FALSE
        /\ at' = IF part + 1 = Parts(game) THEN "record" ELSE "part"
        /\ UNCHANGED <<plugged, cfg, torn, dirty, iso, game, update, stopped, history>>

\* A step of the copy or of ul.cfg fails, the ISO ends too early, the drive is
\* gone, or the context is done.  Nobody removes ul.cfg.partial.
usbExtremeFails ==
    /\ at \in {"part", "split", "record", "unwritten", "rename"}
    /\ cleanup(PartialParts)
    /\ Return
    /\ UNCHANGED <<plugged, cfg, torn, dirty, completed>>

\* The loop over the records: those of another title and another image stay.
filtered(records, title, image) ==
    LET loop[n \in 0 .. Len(records)] ==
            IF n = 0 THEN <<>>
            ELSE IF records[n].title = title \/ records[n].image = image
            THEN loop[n - 1] ELSE Append(loop[n - 1], records[n])
    IN  loop[Len(records)]

\* A record with the title or the image of this game gives way to it: another
\* game with the same 32 bytes of title is not listed any more.  The records go to
\* ul.cfg.partial, which is there also when they cannot be written.
upsertULRecord ==
    LET record == [title |-> Title[game], image |-> game, parts |-> Parts(game)]
    IN  /\ at = "record" /\ plugged /\ ~torn
        /\ temps' = With(temps, ULConfig, 1)
        /\ update' = [records |-> Append(filtered(cfg, Title[game], game), record),
                      torn    |-> FALSE]
        /\ at' \in {"rename", "unwritten"}
        /\ UNCHANGED <<plugged, files, cfg, torn, dirty, iso, game, part, open,
                       stopped, history>>

CommitConfig ==
    /\ at = "rename" /\ plugged
    /\ cfg' = update.records /\ torn' = update.torn /\ dirty' = TRUE
    /\ temps' = Without(temps, {ULConfig})
    /\ at' = "verify"
    /\ excused' = excused \cup ((Images(cfg) \cup {game}) \ Images(update.records))
    /\ UNCHANGED <<plugged, files, iso, game, part, update, open, stopped, completed>>

\* A file of the expected size, if one is expected.
Fits(name, expected) == Exists(name) /\ (expected > 0 => files[name] = expected)

PartsWhole(g) ==
    \A n \in 0 .. Parts(g) - 1 :
        Fits(UL(g, n), PartLength(g, n))

\* Mutant: the files must be there, of whatever size.
Verify_AnySize ==
    /\ at = "verify"
    /\ completed' =
          IF plugged /\ (IF useDirectCopy(game)
                         THEN Exists(DVD(game))
                         ELSE \A n \in 0 .. Parts(game) - 1 : Exists(UL(game, n)))
          THEN completed \cup {game} ELSE completed
    /\ Return
    /\ UNCHANGED <<plugged, drive, excused>>

\* Compares sizes and looks at ul.cfg; what it finds wrong stays as it is.
Verify ==
    LET passed == /\ plugged
                  /\ IF useDirectCopy(game)
                     THEN Fits(DVD(game), Size[game])
                     ELSE PartsWhole(game) /\ cfg # <<>> /\ ~torn
    IN  /\ at = "verify"
        /\ completed' = IF passed THEN completed \cup {game} ELSE completed
        /\ Return
        /\ UNCHANGED <<plugged, drive, excused>>

----------------------------------------------------------------------------
(* What happens around an install.                                          *)

Cancel ==
    /\ at # "idle" /\ ~stopped
    /\ stopped' = TRUE
    /\ UNCHANGED <<plugged, drive, iso, at, game, part, update, open, history>>

Crash ==
    /\ at # "idle"
    /\ excused' = excused \cup {game}
    /\ Return
    /\ UNCHANGED <<plugged, drive, completed>>

\* What is on the medium of records that were never synced: all of them, or they
\* end in or between records.
Cut(records, n, where) ==
    SubSeq(records, 1, n) \o
    (CASE where = "between" -> <<>>
       [] where = "name"    -> <<[records[n + 1] EXCEPT !.image = NoGame]>>
       [] where = "image"   -> <<records[n + 1]>>)

Left(file) ==
    {file} \cup
    {[records |-> Cut(file.records, n, where), torn |-> (where # "between")] :
        n \in 0 .. Len(file.records) - 1, where \in {"between", "name", "image"}}

\* The games of the records that are lost are listed no more.
Unplug ==
    LET config == [records |-> cfg, torn |-> torn]
    IN  /\ plugged
        /\ plugged' = FALSE
        /\ open' = FALSE
        /\ dirty' = FALSE
        /\ \E now \in IF dirty THEN Left(config) ELSE {config} :
              /\ cfg' = now.records /\ torn' = now.torn
              /\ excused' = excused \cup (Images(cfg) \ Images(now.records))
        /\ update' \in IF at = "rename" THEN Left(update) ELSE {update}
        /\ UNCHANGED <<files, temps, iso, at, game, part, stopped, completed>>

Plug ==
    /\ ~plugged
    /\ plugged' = TRUE
    /\ UNCHANGED <<drive, install, history>>

Flush ==
    /\ dirty
    /\ dirty' = FALSE
    /\ UNCHANGED <<plugged, files, temps, cfg, torn, install, history>>

OPLNext ==
    \/ \E g \in Games : InstallGame(g)
    \/ InstallFails
    \/ CreateTemp \/ CopyChunk \/ CopyFails \/ CommitCopy \/ DirectCopy
    \/ usbExtreme \/ StartPart \/ SplitChunk \/ CommitPart \/ usbExtremeFails
    \/ upsertULRecord \/ CommitConfig \/ Verify
    \/ Cancel \/ Crash \/ Unplug \/ Plug \/ Flush

----------------------------------------------------------------------------
(* Properties.                                                              *)

\* A game in a record of ul.cfg has every part the record counts, each of its
\* length, and a game whose install was reported complete has all of its data:
\* whatever was cut off, unplugged, cancelled or replaced on the way.
GamesAreWhole ==
    /\ \A i \in DOMAIN cfg :
          cfg[i].image # NoGame =>
              /\ cfg[i].parts = Parts(cfg[i].image)
              /\ PartsWhole(cfg[i].image)
    /\ \A g \in completed :
          IF useDirectCopy(g)
          THEN Fits(DVD(g), Size[g])
          ELSE PartsWhole(g)

\* Between installs a drive holds no unfinished file but ul.cfg.partial, and no part
\* of a game that ul.cfg does not list: usbExtreme takes every part of a failed
\* install back, the ones of earlier installs of a listed game stay.  Excused are
\* games that an unplugged drive, a dead process or a game of the same title left
\* behind.
FailedInstallLeavesNothing ==
    at = "idle" =>
        \A g \in Games \ excused :
            /\ ~Listed(g) => PartsOf(g) = {}
            /\ \A name \in DOMAIN temps : name \in {System, ULConfig} \/ name[2] # g
=============================================================================
