---------------------------- MODULE PackageImage ----------------------------
(***************************************************************************)
(* orbis.Build: a tree becomes the signed and encrypted image and then the *)
(* finished package.  The outer image holds one file, pfs_image.dat.  Its  *)
(* blocks are signed into slots of inodes and indirect blocks, those into  *)
(* inodes, and those into the super block; then the sectors are encrypted, *)
(* then come the chunk digests and the chain of digests of the package.    *)
(* parallelDo spreads the independent steps over workers.                  *)
(*                                                                         *)
(* A digest, signature or encryption is not computed: a block or region    *)
(* has a revision that every write raises, a seal remembers what it saw,   *)
(* and a sector counts how often it was encrypted.                         *)
(***************************************************************************)
EXTENDS PFSLayout

CONSTANTS
    Workers,          \* goroutines of parallelDo
    SectorsPerBlock,
    Keystone,         \* the path sce_sys/keystone
    ParamSFO,         \* the path sce_sys/param.sfo
    EntrySize,        \* [generated package entries -> size]
    MetaSize,         \* of a row of the entry table, and of an entry digest
    ChunkDigest,      \* size of the digest of a chunk, cut as playgo wants it
    EntryAlign, PkgAlign, BodyOffset, ChunkSize

\* Whole chunks make up an alignment, and the digests of the chunks of two of them
\* fit one.
ASSUME PackageAssumption ==
    /\ {Workers, SectorsPerBlock, EntryAlign, PkgAlign, ChunkSize}
       \subseteq Nat \ {0}
    /\ {MetaSize, ChunkDigest, BodyOffset} \subseteq Nat
    /\ PkgAlign % ChunkSize = 0 /\ BodyOffset % EntryAlign = 0
    /\ 2 * ChunkDigest * (PkgAlign \div ChunkSize) + EntryAlign <= PkgAlign

VARIABLES
    step,     \* where Build is
    tree,     \* the files to pack
    image,    \* the blocks of the inner image
    length,   \* blocks of pfs_image.dat
    slots,    \* signature slots: [address -> [block, over]]
    rev,      \* [block -> times it was changed]
    enc,      \* [sector -> times it was encrypted]
    next,     \* the next index of a loop
    busy,     \* the indexes at the workers of parallelDo
    failing,  \* a worker had an error
    regions,  \* [region of the package -> times it was changed]
    seals     \* [digest -> what it covered, when it was taken]

imageVars == <<tree, image, length>>
sealVars  == <<slots, rev, enc, regions, seals>>
loopVars  == <<next, busy, failing>>
pkgVars   == <<step, imageVars, sealVars, loopVars>>

Empty == <<>>

----------------------------------------------------------------------------
(* pfs_image.dat and the layout of the outer image.                         *)

\* Blocks of a PFSC header for so many sectors, and where sector i is.
PfscHeader(n) ==
    LET table == n + 1 - (BlockSize - PfscHead)
    IN  1 + (IF table > 0 THEN BlocksOf(table) ELSE 0)
SectorMap(n, i) == PfscHeader(n) + i

OuterInodes == 4
FptBlock    == 3
EmptyBlock  == 4
IB0         == 5
IB1         == 6

indirectBlockCount(n) ==
    LET left == n - Direct
    IN  (IF left > 0 THEN 1 ELSE 0)
        + (IF left > SigsPerBlock
           THEN 1 + ceilDiv(left - SigsPerBlock, SigsPerBlock) ELSE 0)

\* The block of uroot; the file follows it.
UrootBlock(n) == IB0 + indirectBlockCount(n)
OuterSize(n)  == UrootBlock(n) + 1 + n

Super(k)  == <<"super", 0, k>>     \* a slot in the super block
Ino(i, k) == <<"inode", i, k>>     \* slot k of an inode
Ind(b, k) == <<"block", b, k>>     \* slot k of an indirect block
SlotBlock(a) == CASE a[1] = "super" -> 0 [] a[1] = "inode" -> 1
                  [] a[1] = "block" -> a[2]

Sig(block, at) == [block |-> block, at |-> at]

\* The slot of the k-th block of the file: its inode, the first indirect block,
\* or one of those the second points at.
FileSlot(k) ==
    LET past == k - Direct - SigsPerBlock
    IN  IF k < Direct THEN Ino(3, k)
        ELSE IF past < 0 THEN Ind(IB0, k - Direct)
        ELSE Ind(IB1 + 1 + past \div SigsPerBlock, past % SigsPerBlock)

dataSigs(n) ==
    <<Sig(UrootBlock(n), Ino(2, 0))>>
    \o [k \in 1 .. n |-> Sig(UrootBlock(n) + k, FileSlot(k - 1))]

\* Pushed from the outside in, and signed in the reverse order.
finalSigs(n) ==
    <<Sig(0, Super(0)), Sig(1, Super(1)), Sig(2, Ino(0, 0)), Sig(FptBlock, Ino(1, 0))>>
    \o (IF n > Direct THEN <<Sig(IB0, Ino(3, Direct))>> ELSE <<>>)
    \o (IF n > Direct + SigsPerBlock
        THEN <<Sig(IB1, Ino(3, Direct + 1))>>
             \o [i \in 1 .. ceilDiv(n - Direct - SigsPerBlock, SigsPerBlock) |->
                    Sig(IB1 + i, Ind(IB1, i - 1))]
        ELSE <<>>)

\* The pointers the inodes have before anything is signed.
FirstPointers(n) ==
    LET known == {Sig(1, Super(1)), Sig(2, Ino(0, 0)), Sig(FptBlock, Ino(1, 0)),
                  Sig(UrootBlock(n), Ino(2, 0)), Sig(UrootBlock(n) + 1, Ino(3, 0))}
                 \cup {x \in Range(finalSigs(n)) : x.at[1] = "inode"}
    IN  [a \in {x.at : x \in known} |->
            [block |-> (CHOOSE x \in known : x.at = a).block, over |-> Empty]]

N == PfscHeader(length) + length

\* The outer image before it is signed; its inodes have their blocks in slots.
OuterImage ==
    LET file(k) == IF k <= PfscHeader(length) THEN [pfsc |-> length, nth |-> k]
                   ELSE image[k - PfscHeader(length) - 1]
        dir(list) == <<[dir |-> Chain(list), nth |-> 1]>>
        node(blocks) == [blocks |-> blocks]
    IN  Written(OuterSize(N),
            <<Extent(0, <<SuperBlock(OuterInodes, 1)>>),
              Extent(1, <<[ino |-> <<node(1), node(1), node(1), node(N)>>]>>),
              Extent(2, dir(<<Dirent("file", 1, flat_path_table),
                              Dirent("dir", 2, uroot)>>)),
              Extent(FptBlock, <<EntryBlock("table", {[at |-> 0, inode |-> 3]}, 1, 1)>>),
              Extent(UrootBlock(N), dir(<<Dirent("dot", 2, 0), Dirent("dotdot", 2, 0),
                                          Dirent("file", 3, pfs_image_dat)>>)),
              Extent(UrootBlock(N) + 1, [k \in 1 .. N |-> file(k)])>>)

\* Every sector behind the super block, without the empty block.
xtsSectors ==
    LET before == (EmptyBlock - 1) * SectorsPerBlock
    IN  [i \in 1 .. (OuterSize(N) - 2) * SectorsPerBlock |->
            (IF i <= before THEN SectorsPerBlock ELSE 2 * SectorsPerBlock) + i - 1]

SectorsOf(b)  == b * SectorsPerBlock .. (b + 1) * SectorsPerBlock - 1
SectorCount   == OuterSize(N) * SectorsPerBlock

\* The parts of the package that digests are taken of, beside the image.
Regions == {"pfs_fields", "general", "body", "digests", "header", "file",
            "digest", "signature"}

\* What a digest of a block, or of a region, depends on.
Block(b) == <<rev[b], [s \in SectorsOf(b) |-> enc[s]]>>
Plain(b) == <<rev[b], [s \in SectorsOf(b) |-> 0]>>
Region(r) == IF r = "image" THEN <<rev, enc>> ELSE regions[r]

----------------------------------------------------------------------------
(* Header and entries.                                                      *)

align(n, a) == ceilDiv(n, a) * a

\* The entries in their order in the body, without their offsets.
FileEntries(t) ==
    Sorted({f \in DOMAIN t.files : isPkgEntryFile(f) /\ f # ParamSFO})
GeneratedEntries == <<"entry_keys", "image_key", "general_digests", "metas", "digests",
                      "entry_names", "chunk_dat", "chunk_sha", "manifest",
                      "license", "license_info", "param_sfo", "ps_reserved">>
Entries(t) ==
    LET count == Len(GeneratedEntries) + Len(FileEntries(t))
        size(e) == CASE e \in {"metas", "digests"} -> count * MetaSize
                     [] e = "chunk_sha" -> 0
                     [] OTHER -> EntrySize[e]
    IN  [i \in DOMAIN GeneratedEntries |->
            [name |-> GeneratedEntries[i], size |-> size(GeneratedEntries[i])]]
        \o [i \in DOMAIN FileEntries(t) |->
               [name |-> "file", size |-> t.files[FileEntries(t)[i]]]]

BodySize(bytes) == align(BodyOffset + bytes, PkgAlign)
Chunks(bytes, pfsSize) == (BodySize(bytes) + pfsSize) \div ChunkSize

\* What so many entries take, each with its padding.
Sums(entries) ==
    LET sum[i \in 0 .. Len(entries)] ==
            IF i = 0 THEN 0 ELSE sum[i - 1] + align(entries[i].size, EntryAlign)
    IN  sum
Sizes(entries) == Sums(entries)[Len(entries)]

\* Where in the package so many entries end.
Ends(entries) ==
    LET end[i \in 0 .. Len(entries)] ==
            IF i = 0 THEN BodyOffset
            ELSE align(end[i - 1] + entries[i].size, EntryAlign)
    IN  end

\* Mutant: one estimate, which leaves the table itself out.
chunkTableSize_OneShot(entries, pfsSize) ==
    ChunkDigest * Chunks(Sizes(entries), pfsSize)

\* The room for the chunk digests: the table is part of what it has digests of.
\* Eight rounds at most.
chunkTableSize(entries, pfsSize) ==
    LET needed(size) == ChunkDigest *
            Chunks(Sizes(entries) + align(size, EntryAlign), pfsSize)
        round(size) == IF needed(size) <= size THEN size ELSE needed(size)
        room[i \in 0 .. 8] == IF i = 0 THEN 0 ELSE round(room[i - 1])
    IN  room[8]

\* The entries with their offsets, the place of the image and its chunk count.
buildHeaderAndEntries(t, pfsSize) ==
    LET plain == Entries(t)
        sha   == chunkTableSize(plain, pfsSize)
        sized == [i \in DOMAIN plain |->
                     IF plain[i].name = "chunk_sha"
                     THEN [plain[i] EXCEPT !.size = sha] ELSE plain[i]]
        end   == Ends(sized)
        body  == align(end[Len(sized)], PkgAlign)
    IN  [entries |-> [i \in DOMAIN sized |->
                         [name |-> sized[i].name, size |-> sized[i].size,
                          at |-> end[i - 1]]],
         image   |-> body,
         chunks  |-> (body + pfsSize) \div ChunkSize,
         room    |-> sha]

PfsSize(m) == OuterSize(PfscHeader(m) + m) * ChunkSize

----------------------------------------------------------------------------
(* Build.                                                                   *)

NoTree == [dirs |-> {}, files |-> <<>>]

ImageInit ==
    /\ step = "none"
    /\ tree = NoTree /\ image = <<>> /\ length = 0
    /\ slots = <<>> /\ rev = <<>> /\ enc = <<>>
    /\ next = 1 /\ busy = {} /\ failing = FALSE
    /\ regions = <<>> /\ seals = <<>>

\* The context is done, or reading or writing fails.
BuildFails ==
    /\ step \in {"prepare", "write", "final", "finish"}
    /\ step' = "failed"
    /\ UNCHANGED <<imageVars, sealVars, loopVars>>

WithKeystone(t) ==
    IF Keystone \in DOMAIN t.files THEN t
    ELSE [t EXCEPT !.files = [f \in DOMAIN @ \cup {Keystone} |->
                                 IF f = Keystone THEN 1 ELSE @[f]]]

\* The keystone is added, the inner image laid out in memory, and from its size
\* the outer image and the header.
prepare ==
    LET full == WithKeystone(tree)
        m    == Layout(setup(full)).ndblock
        hdr  == buildHeaderAndEntries(full, PfsSize(m))
    IN  /\ step = "prepare"
        /\ IF <<SceSys>> \in tree.dirs /\ ParamSFO \in DOMAIN tree.files
           THEN /\ tree' = full
                /\ length' = m
                /\ step' = IF hdr.chunks * ChunkDigest <= hdr.room
                           THEN "write" ELSE "failed"
           ELSE step' = "failed" /\ UNCHANGED <<tree, length>>
        /\ UNCHANGED <<image, sealVars, loopVars>>

\* writeData of both images.  A directory may need more blocks than it has.
writeData ==
    /\ step = "write"
    /\ IF DirFits(setup(tree))
       THEN /\ image' = InnerImage(setup(tree))
            /\ slots' = FirstPointers(N)
            /\ rev' = [b \in 0 .. OuterSize(N) - 1 |-> 0]
            /\ enc' = [s \in 0 .. SectorCount - 1 |-> 0]
            /\ step' = "sign"
       ELSE step' = "failed" /\ UNCHANGED <<image, slots, rev, enc>>
    /\ UNCHANGED <<tree, length, regions, seals, loopVars>>

\* The digest of a block goes into its slot.  That of the super block covers the
\* slot itself, which is still zero.
sign(sig) ==
    LET b == SlotBlock(sig.at)
    IN  /\ slots' = [a \in DOMAIN slots \cup {sig.at} |->
                        IF a = sig.at
                        THEN [block |-> sig.block, over |-> Block(sig.block)]
                        ELSE slots[a]]
        /\ rev' = IF b = sig.block THEN rev ELSE [rev EXCEPT ![b] = @ + 1]
        /\ UNCHANGED <<enc, regions, seals>>

encrypt(sector) ==
    /\ enc' = [enc EXCEPT ![sector] = @ + 1]
    /\ UNCHANGED <<slots, rev, regions, seals>>

Seal(name, value) ==
    seals' = [x \in DOMAIN seals \cup {name} |->
                 IF x = name THEN value ELSE seals[x]]

\* The digests of the chunks before the image stay zero.
chunkDigest(b) ==
    /\ Seal(<<"chunk", b>>, Block(b))
    /\ UNCHANGED <<slots, rev, enc, regions>>

\* parallelDo: the indexes are fed in order; after an error the rest is drained.
Count == CASE step = "sign"    -> Len(dataSigs(N))
           [] step = "encrypt" -> Len(xtsSectors)
           [] step = "chunks"  -> OuterSize(N)
           [] OTHER            -> 0

Take ==
    /\ next <= Count /\ ~failing /\ Cardinality(busy) < Workers
    /\ busy' = busy \cup {next}
    /\ next' = next + 1
    /\ UNCHANGED <<step, imageVars, sealVars, failing>>

Work ==
    \E i \in busy :
        /\ busy' = busy \ {i}
        /\ \/ step = "sign"    /\ sign(dataSigs(N)[i])
           \/ step = "encrypt" /\ encrypt(xtsSectors[i])
           \/ step = "chunks"  /\ chunkDigest(i - 1)
        /\ UNCHANGED <<step, imageVars, next, failing>>

WorkFails ==
    \E i \in busy :
        /\ busy' = busy \ {i}
        /\ failing' = TRUE
        /\ UNCHANGED <<step, imageVars, sealVars, next>>

\* wg.Wait returns.
Joined ==
    /\ step \in {"sign", "encrypt", "chunks"}
    /\ busy = {} /\ (failing \/ next > Count)
    /\ step' = IF failing THEN "failed"
               ELSE CASE step = "sign"    -> "final"
                      [] step = "encrypt" -> "chunks"
                      [] step = "chunks"  -> "finish"
    /\ next' = 1 /\ failing' = FALSE
    /\ regions' = IF step = "chunks" THEN [r \in Regions |-> 0] ELSE regions
    /\ UNCHANGED <<imageVars, slots, rev, enc, seals, busy>>

\* finalSigs, the last one first.
SignFinal ==
    /\ step = "final"
    /\ next <= Len(finalSigs(N))
    /\ sign(finalSigs(N)[Len(finalSigs(N)) - next + 1])
    /\ next' = next + 1
    /\ UNCHANGED <<step, imageVars, busy, failing>>

FinalDone ==
    /\ step = "final" /\ next > Len(finalSigs(N))
    /\ step' = "encrypt" /\ next' = 1
    /\ UNCHANGED <<imageVars, sealVars, busy, failing>>

\* finish: each step takes something of these regions and puts it into that one.
Put(name, over, into) == [name |-> name, over |-> over, into |-> into]

pfsSignedDgst   == Put("pfsSignedDgst",   {"image"},                "pfs_fields")
pfsImageDigest  == Put("pfsImageDigest",  {"image"},                "pfs_fields")
\* headerDigestInput and contentDigest take no field that is still to come.
generalDigests  == Put("generalDigests",  {"pfs_fields"},           "general")
\* The entries hold the general digests and the digests of the chunks.
writeEntry      == Put("writeEntry",      {"general", "image"},     "body")
\* They are patched into the body.
entryDigests    == Put("entryDigests",    {"body"},                 "digests")
bodyDigest      == Put("bodyDigest",      {"body", "digests"},      "header")
digestTableHash == Put("digestTableHash", {"digests"},              "header")
scEntries1Hash  == Put("scEntries1Hash",  {"body", "digests"},      "header")
scEntries2Hash  == Put("scEntries2Hash",  {"body"},                 "header")
marshalHeader   == Put("marshal",         {"pfs_fields", "header"}, "file")
headerDigest    == Put("headerDigest",    {"file"},                 "digest")
signature       == Put("signature",       {"file", "digest"},       "signature")

\* Mutant: the body is hashed before the entry digests are patched into it.
finish_BodyDigestFirst ==
    <<pfsSignedDgst, pfsImageDigest, generalDigests, writeEntry, bodyDigest,
      entryDigests, digestTableHash, scEntries1Hash, scEntries2Hash,
      marshalHeader, headerDigest, signature>>

finish ==
    <<pfsSignedDgst, pfsImageDigest, generalDigests, writeEntry, entryDigests,
      bodyDigest, digestTableHash, scEntries1Hash, scEntries2Hash,
      marshalHeader, headerDigest, signature>>

FinishStep ==
    /\ step = "finish" /\ next <= Len(finish)
    /\ Seal(<<finish[next].name, 0>>, [r \in finish[next].over |-> Region(r)])
    /\ regions' = [regions EXCEPT ![finish[next].into] = @ + 1]
    /\ next' = next + 1
    /\ UNCHANGED <<step, imageVars, slots, rev, enc, busy, failing>>

Built ==
    /\ step = "finish" /\ next > Len(finish)
    /\ step' = "built"
    /\ UNCHANGED <<imageVars, sealVars, loopVars>>

ImageNext == BuildFails \/ prepare \/ writeData \/ Take \/ Work \/ WorkFails
             \/ Joined \/ SignFinal \/ FinalDone \/ FinishStep \/ Built

----------------------------------------------------------------------------
(* OpenPackage: what a reader finds in a built package.                     *)

\* A block is decrypted unless it is the super block.  An indirect block that
\* also holds data is neither.
Decrypted(b) ==
    LET start(s) == IF s < SectorsPerBlock THEN 0 ELSE 1
    IN  \A s \in SectorsOf(b) : s < SectorCount /\ enc[s] = start(s)
Shared(b)  == \E a \in DOMAIN slots : a[1] = "block" /\ a[2] = b
ReadBlock(outer, b) ==
    IF b \in DOMAIN outer /\ Decrypted(b) /\ ~Shared(b) THEN outer[b] ELSE Zero
Pointer(a) == IF a \in DOMAIN slots /\ Decrypted(SlotBlock(a))
              THEN slots[a].block ELSE -1

\* readBlockList: the slots of the inode, of its first indirect block, and of
\* the blocks its second one points at.
readBlockList(i, total) ==
    LET ib(slot, k) == Pointer(Ind(Pointer(Ino(i, slot)), k))
        past(k) == k - Direct - SigsPerBlock
        block(k) == IF k < Direct THEN Pointer(Ino(i, k))
                    ELSE IF past(k) < 0 THEN ib(Direct, k - Direct)
                    ELSE Pointer(Ind(ib(Direct + 1, past(k) \div SigsPerBlock),
                                     past(k) % SigsPerBlock))
    IN  [k \in 1 .. total |-> block(k - 1)]

\* The entries of that name in the directory of an inode.
Find(outer, i, name) ==
    {e.number : e \in {x \in ParseBlock(ReadBlock(outer, Pointer(Ino(i, 0)))) :
                          x.name = name}}

\* The sectors of the container whose blocks these are; none if it is not one.
newPfscReader(outer, list) ==
    LET head == ReadBlock(outer, list[1])
    IN  IF "pfsc" \in DOMAIN head THEN 0 .. head.pfsc - 1 ELSE {}

readSector(outer, list, i) ==
    LET k == SectorMap(length, i) + 1
    IN  IF k \in DOMAIN list THEN ReadBlock(outer, list[k]) ELSE Zero

\* newReader: pfs_image.dat below the uroot of the outer image, and what it holds.
ReadPackage ==
    LET outer == OuterImage
        file  == UNION {Find(outer, r, pfs_image_dat) : r \in Find(outer, 0, uroot)}
        list  == readBlockList(3, ReadBlock(outer, 1).ino[4].blocks)
    IN  IF "ino" \in DOMAIN ReadBlock(outer, 1) /\ file = {3}
        THEN [i \in newPfscReader(outer, list) |-> readSector(outer, list, i)]
        ELSE <<>>

----------------------------------------------------------------------------
(* Properties.                                                              *)

\* Who opens a built package finds in it, through decryption, block lists, the
\* PFSC table, directories and, if their tables fit, the path hashes, the tree it
\* was built from.
ReadsBack == step = "built" => ReadsBackAs(ReadPackage, tree)

\* In a built package every signature was taken of its block as it is, before
\* encryption, and every digest of the bytes as they are, after it: no block,
\* entry or header field changed once something that covers it was computed.
SealsAreFinal ==
    step = "built" =>
        /\ \A sig \in Range(dataSigs(N)) \cup Range(finalSigs(N)) :
              slots[sig.at] = [block |-> sig.block, over |-> Plain(sig.block)]
        /\ \A b \in DOMAIN rev : seals[<<"chunk", b>>] = Block(b)
        /\ \A i \in DOMAIN finish :
              seals[<<finish[i].name, 0>>] = [r \in finish[i].over |-> Region(r)]

\* The entries of a package follow each other without a gap or overlap that is
\* not alignment and end before the image, and the table of chunk digests, which
\* grows with the package it is part of, has the room it needs.
EntriesFit ==
    step \in {"write", "failed"} /\ length > 0 =>
        LET hdr == buildHeaderAndEntries(tree, PfsSize(length))
            e   == hdr.entries
        IN  /\ \A i \in DOMAIN e :
                  e[i].at + e[i].size <= IF i = Len(e) THEN hdr.image
                                         ELSE e[i + 1].at
            /\ hdr.chunks * ChunkDigest <= hdr.room
=============================================================================
