---------------------------- MODULE FPKGBuilder ----------------------------
(***************************************************************************)
(* ps2.FPKGBuilder.Build: the emulator package is unpacked into a          *)
(* workspace, the tree of its files gets the ISO, the configuration and    *)
(* the artwork of the game, PackageImage packs it, and the result is moved *)
(* to the output directory.  The worker of ps2.FPKGQueue runs one build at *)
(* a time; others may write to the output directory.                       *)
(***************************************************************************)
EXTENDS PackageImage

CONSTANTS
    Templates,   \* the trees an emulator package may hold
    IsoSizes,
    DiscPath,    \* image/disc01.iso
    ConfigPath,  \* config-emu-ps4.txt
    Extras,      \* the sets of script and picture that games come with
    DataSize     \* of a configuration, script, SFO or picture

VARIABLES
    fpc,      \* the step of Build
    work,     \* its workspace exists
    output    \* what has the name of the package

fpkgVars == <<fpc, work, output, pkgVars>>

\* An orphan is the part of a package that a process that died had copied.
Outputs  == {"absent", "foreign", "partial", "orphan", "whole"}

----------------------------------------------------------------------------
(* Trees.                                                                   *)

\* put with mkdirAll: the file is added or replaced.
WithFile(t, path, size) ==
    [dirs  |-> t.dirs \cup {SubSeq(path, 1, i) : i \in 1 .. Len(path) - 1},
     files |-> [f \in DOMAIN t.files \cup {path} |->
                   IF f = path THEN size ELSE t.files[f]]]

WithData(t, paths) == FoldLeft(LAMBDA u, p : WithFile(u, p, DataSize), t, paths)

IsPicture(path) == path[1] = SceSys

\* The configuration with the line that is added to it, and a custom script.
installSupportFiles(t, extras) ==
    WithData(t, <<ConfigPath>> \o SetToSeq({p \in extras : ~IsPicture(p)}))

installArtwork(t, extras) == WithData(t, SetToSeq({p \in extras : IsPicture(p)}))

\* The tree of a game: DirTree of the template, the ISO as large as it is now,
\* the patched SFO, and what the game comes with.
GameTree(template, iso, extras) ==
    LET game == installSupportFiles(WithFile(template, DiscPath, iso), extras)
    IN  installArtwork(WithData(game, <<ParamSFO>>), extras)

\* The trees that Build may be given.
GameTrees == {GameTree(template, iso, extras) :
                 template \in Templates, iso \in IsoSizes, extras \in Extras}

\* Where sce_sys is a directory, what is put into a tree of a template is in
\* directories and not one itself.  The image takes no more blocks than an inode
\* has slots for, with two levels of indirect blocks.
ASSUME TreesAssumption ==
    \A t \in GameTrees :
        LET full == WithKeystone(t)
            m    == Layout(setup(full)).ndblock
        IN  <<SceSys>> \in t.dirs =>
               /\ IsTree(full)
               /\ PfscHeader(m) + m <= Direct + SigsPerBlock + SigsPerBlock * SigsPerBlock

\* The first estimate of the chunk table of each takes up to 32 alignments: the
\* package has less than 256 GB.
ASSUME EntriesAssumption ==
    \A t \in GameTrees :
        LET full    == WithKeystone(t)
            pfsSize == PfsSize(Layout(setup(full)).ndblock)
        IN  /\ IsFiniteSet(DOMAIN full.files)
            /\ \A i \in DOMAIN Entries(full) : Entries(full)[i].size \in Nat
            /\ ChunkDigest * Chunks(Sizes(Entries(full)), pfsSize)
               <= 32 * PkgAlign - EntryAlign

----------------------------------------------------------------------------
(* Build.                                                                   *)

FPKGInit ==
    /\ fpc = "idle" /\ work = FALSE /\ output = "absent"
    /\ ImageInit

Goto(p) == fpc' = p /\ UNCHANGED <<work, output, pkgVars>>

\* The serial is known, and emulator and output directory are there; else Build
\* returns at once.
Build == fpc = "idle" /\ Goto("started")

MkdirTemp ==
    /\ fpc = "started"
    /\ fpc' = "lstat" /\ work' = TRUE
    /\ UNCHANGED <<output, pkgVars>>

Lstat ==
    /\ fpc = "lstat"
    /\ Goto(IF output = "absent" THEN "extract" ELSE "returning")

\* OpenPackage, ExtractFiles and ParamSFO; then the context is looked at.
Extract == fpc = "extract" /\ Goto("import")

\* Without a configuration in the template and without a custom one, or with a
\* title that does not fit the SFO, there is no tree (BuildStepFails).
Import ==
    /\ fpc = "import"
    /\ \E template \in Templates, iso \in IsoSizes, custom \in BOOLEAN, extras \in Extras :
          /\ custom \/ ConfigPath \in DOMAIN template.files
          /\ tree' = GameTree(template, iso, extras)
    /\ step' = "prepare"
    /\ fpc' = "build"
    /\ UNCHANGED <<work, output, image, length, sealVars, loopVars>>

BuildStepFails ==
    /\ fpc \in {"started", "lstat", "extract", "import", "verify", "publish"}
    /\ Goto("returning")

OrbisBuild ==
    /\ fpc = "build"
    /\ ImageNext
    /\ UNCHANGED <<fpc, work, output>>

BuildReturns ==
    /\ fpc = "build" /\ step \in {"built", "failed"}
    /\ Goto(IF step = "built" THEN "verify" ELSE "returning")

\* verifyPS4PKG reads the magic back.
VerifyMagic == fpc = "verify" /\ Goto("publish")

\* publishFile: a rename, which replaces what has appeared there since Lstat, or
\* a link, which does not.
Publish ==
    /\ fpc = "publish"
    /\ fpc' = "returning" /\ output' = "whole"
    /\ UNCHANGED <<work, pkgVars>>

\* Neither rename nor link works: the copy starts if nothing is there.
StartCopy ==
    /\ fpc = "publish"
    /\ IF output = "absent"
       THEN fpc' = "copy" /\ output' = "partial"
       ELSE fpc' = "returning" /\ UNCHANGED output
    /\ UNCHANGED <<work, pkgVars>>

\* Mutant: what was copied until an error stays.
EndCopy_Keep ==
    /\ fpc = "copy"
    /\ output' \in {"whole", "partial"}
    /\ fpc' = "returning"
    /\ UNCHANGED <<work, pkgVars>>

\* A copy that failed is removed.
EndCopy ==
    /\ fpc = "copy"
    /\ output' \in {"whole", "absent"}
    /\ fpc' = "returning"
    /\ UNCHANGED <<work, pkgVars>>

ForgetImage ==
    /\ step' = "none" /\ tree' = NoTree /\ image' = <<>> /\ length' = 0
    /\ slots' = <<>> /\ rev' = <<>> /\ enc' = <<>>
    /\ next' = 1 /\ busy' = {} /\ failing' = FALSE
    /\ regions' = <<>> /\ seals' = <<>>

\* The deferred RemoveAll.
Returned ==
    /\ fpc = "returning"
    /\ fpc' = "idle" /\ work' = FALSE
    /\ ForgetImage
    /\ UNCHANGED <<output>>

\* The process dies: its workspace stays under a name that nobody knows, and a
\* copy stays as far as it got.
FPKGCrash ==
    /\ fpc # "idle"
    /\ fpc' = "idle" /\ work' = FALSE
    /\ output' = IF output = "partial" THEN "orphan" ELSE output
    /\ ForgetImage

\* Somebody puts a package of that name there, or takes one away.  Between Lstat
\* and publishFile nobody looks.
Appear ==
    /\ output = "absent" /\ fpc \in {"idle", "publish"}
    /\ output' = "foreign"
    /\ UNCHANGED <<fpc, work, pkgVars>>

Withdraw ==
    /\ output \in {"foreign", "orphan", "whole"} /\ fpc = "idle"
    /\ output' = "absent"
    /\ UNCHANGED <<fpc, work, pkgVars>>

FPKGNext ==
    \/ Build \/ MkdirTemp \/ Lstat \/ Extract \/ Import \/ BuildStepFails
    \/ OrbisBuild \/ BuildReturns \/ VerifyMagic \/ Publish \/ StartCopy \/ EndCopy
    \/ Returned \/ FPKGCrash \/ Appear \/ Withdraw

----------------------------------------------------------------------------
(* Properties.                                                              *)

\* The name of the package never stands for a part of one but while it is
\* copied, whatever fails, and a build that returned left no workspace.
OutputIsWhole ==
    /\ output = "partial" => fpc = "copy"
    /\ work => fpc # "idle"
=============================================================================
