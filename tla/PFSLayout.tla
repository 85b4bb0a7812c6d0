----------------------------- MODULE PFSLayout -----------------------------
(***************************************************************************)
(* orbis: how a directory tree becomes the inner PFS image of a package,   *)
(* how the image is put into the PFSC container pfs_image.dat, where the   *)
(* blocks of that file go in the signed outer image, and how pfsReader     *)
(* finds everything again.                                                 *)
(*                                                                         *)
(* A tree is [dirs, files]: a set of paths and a function from paths to    *)
(* sizes.  A path is a sequence of names, a name a number in the order of  *)
(* the strings, and <<>> the root.  Sizes are in units of 8 bytes.  An     *)
(* image is a function from block numbers to contents.                     *)
(***************************************************************************)
EXTENDS Integers, Sequences, FiniteSets, SequencesExt, FiniteSetsExt

CONSTANTS
    EntSize,        \* [Names -> units of a directory entry of that name]
    DotSize,        \* units of "." and ".."
    DirentMax,      \* units of the largest entry
    BlockSize,      \* units of a block
    InodesPerBlock,
    MinBlocks,      \* the inner image has at least this many blocks
    PathEntSize,    \* units of a collision resolver entry
    ListGap,        \* units after a collision list
    PfscHead,       \* units before the block table of a PFSC header
    Direct,         \* direct block slots of an inode
    SigsPerBlock,   \* slots of an indirect block
    PathHash,       \* [paths -> the hash of the upper-cased path]
    SceSys,         \* the name sce_sys
    EntryNames      \* paths below sce_sys that are package entries

\* The names of the files of an image itself; those of a tree are positive.
uroot              == -1
flat_path_table    == -2
collision_resolver == -3
pfs_image_dat      == -4

\* The entries of a super root, and those of the root of an outer image, are in
\* one block.
ASSUME PFSAssumption ==
    /\ {DotSize, DirentMax, BlockSize, InodesPerBlock, PathEntSize, Direct, SigsPerBlock}
       \subseteq Nat \ {0}
    /\ {MinBlocks, ListGap, PfscHead} \subseteq Nat
    /\ PfscHead < BlockSize
    /\ uroot \in DOMAIN EntSize /\ flat_path_table \in DOMAIN EntSize
    /\ collision_resolver \in DOMAIN EntSize /\ pfs_image_dat \in DOMAIN EntSize
    /\ \A name \in DOMAIN EntSize : EntSize[name] \in 1 .. DirentMax
    /\ DotSize + DotSize + EntSize[pfs_image_dat] <= BlockSize
    /\ EntSize[flat_path_table] + EntSize[collision_resolver] + EntSize[uroot] <= BlockSize
    /\ DotSize <= DirentMax /\ DirentMax <= BlockSize

Larger(a, b)  == IF a > b THEN a ELSE b
Smaller(a, b) == IF a < b THEN a ELSE b
ceilDiv(a, b) == (a + b - 1) \div b
BlocksOf(n)   == ceilDiv(n, BlockSize)
Zero          == [zero |-> TRUE]

\* sum[i] is what the first i sizes are together.
Totals(sizes) ==
    LET sum[i \in 0 .. Len(sizes)] == IF i = 0 THEN 0 ELSE sum[i - 1] + sizes[i]
    IN  sum
SumOf(sizes) == Totals(sizes)[Len(sizes)]

----------------------------------------------------------------------------
(* Nodes and inodes.                                                        *)

isPkgEntryFile(path) ==
    Len(path) > 1 /\ path[1] = SceSys /\ Tail(path) \in EntryNames

\* The members of S in their order: before[x] are those in front of x.
Ordered(S, before) ==
    [i \in 1 .. Cardinality(S) |-> CHOOSE x \in S : Cardinality(before[x]) = i - 1]

\* A directory comes before what it holds.
PathLess(p, q) ==
    \E i \in 0 .. Len(p) :
        /\ i < Len(q) /\ SubSeq(p, 1, i) = SubSeq(q, 1, i)
        /\ i = Len(p) \/ p[i + 1] < q[i + 1]

Sorted(paths) == Ordered(paths, [p \in paths |-> {q \in paths : PathLess(q, p)}])

\* Directories come before files.
InOrder(dirs, files) == Sorted(dirs) \o Sorted(files)

hasHashCollision(groups) == \E h \in DOMAIN groups : Len(groups[h]) > 1

InImage(tree) == {f \in DOMAIN tree.files : ~isPkgEntryFile(f)}

\* Files and directories have names, and are in directories.
IsTree(tree) ==
    /\ IsFiniteSet(tree.dirs) /\ IsFiniteSet(DOMAIN tree.files)
    /\ tree.dirs \cap DOMAIN tree.files = {}
    /\ \A f \in DOMAIN tree.files : tree.files[f] \in Nat
    /\ \A p \in tree.dirs \cup DOMAIN tree.files :
          /\ p \in Seq(Nat \cap DOMAIN EntSize) /\ p # <<>>
          /\ Front(p) = <<>> \/ Front(p) \in tree.dirs
    /\ \A p \in tree.dirs \cup InImage(tree) : PathHash[p] \in Int

\* The builder of a tree.  nodes is allNodes, the root first; groups has the nodes
\* of each hash.  Inode 0 is the super root, 1 the flat path table, 2 the collision
\* resolver if there is one; then come the nodes.
setup(tree) ==
    LET files  == InImage(tree)
        hashed(S, h) == {p \in S : PathHash[p] = h}
        groups == [h \in {PathHash[p] : p \in tree.dirs \cup files} |->
                      InOrder(hashed(tree.dirs, h), hashed(files, h))]
    IN  [dirs |-> tree.dirs, files |-> tree.files,
         nodes |-> <<<<>>>> \o InOrder(tree.dirs, files),
         groups |-> groups,
         root |-> IF hasHashCollision(groups) THEN 3 ELSE 2]

\* The place of a node among all, and its inode.
Place(b, path)  == CHOOSE i \in DOMAIN b.nodes : b.nodes[i] = path
Number(b, path) == b.root - 1 + Place(b, path)
InodeCount(b)   == b.root + Len(b.nodes)

Dirent(type, number, name) == [type |-> type, number |-> number, name |-> name]
entSize(e) ==
    IF e.type \in {"dot", "dotdot"} THEN DotSize ELSE EntSize[e.name]

superRootDirents(b) ==
    IF b.root = 3
    THEN <<Dirent("file", 1, flat_path_table), Dirent("file", 2, collision_resolver),
           Dirent("dir", 3, uroot)>>
    ELSE <<Dirent("file", 1, flat_path_table), Dirent("dir", b.root, uroot)>>

dirents(b, d) ==
    LET up   == IF d = <<>> THEN d ELSE Front(d)
        In(S) == {p \in S : Front(p) = d}
        kids == InOrder(In(b.dirs), In(InImage(b)))
    IN  <<Dirent("dot", Number(b, d), 0),
          Dirent("dotdot", Number(b, up), 0)>>
        \o [i \in DOMAIN kids |->
               Dirent(IF kids[i] \in b.dirs THEN "dir" ELSE "file",
                      Number(b, kids[i]), Last(kids[i]))]

entSizes(entries) == [i \in DOMAIN entries |-> entSize(entries[i])]

nodeSize(b, node) ==
    IF node \in DOMAIN b.files THEN b.files[node]
    ELSE SumOf(entSizes(dirents(b, node)))

\* Mutant: the entries are not kept from crossing into the next block.
NextOffset_Dense(end) == end

NextOffset(end) ==
    IF end % BlockSize > BlockSize - DirentMax
    THEN BlocksOf(end) * BlockSize ELSE end

\* Where the next entry of a directory starts behind i of them.
Starts(entries) ==
    LET at[i \in 0 .. Len(entries)] ==
            IF i = 0 THEN 0 ELSE NextOffset(at[i - 1] + entSize(entries[i]))
    IN  at

Placed(entries, at) == [i \in DOMAIN entries |-> [at |-> at[i - 1], entry |-> entries[i]]]

\* The entries of a directory with their offsets, and whether they fit in the
\* blocks nodeSize gave it: it does not count what is skipped at a block's end.
marshalDirents(b, d) ==
    LET entries  == dirents(b, d)
        at       == Starts(entries)
        capacity == BlocksOf(nodeSize(b, d)) * BlockSize
    IN  [out  |-> Placed(entries, at),
         fits |-> \A i \in DOMAIN entries :
                     at[i - 1] + entSize(entries[i]) <= capacity]

\* Entries one after the other, as in a super root.
Chain(entries) == Placed(entries, Totals(entSizes(entries)))

----------------------------------------------------------------------------
(* The flat path table and its collision resolver.                          *)

Colliding(b) ==
    LET hashes == {h \in DOMAIN b.groups : Len(b.groups[h]) > 1}
    IN  Ordered(hashes, [h \in hashes |-> {g \in hashes : g < h}])

\* The sizes of the lists, and where that of the i-th colliding hash begins.
ListSizes(b) ==
    [i \in DOMAIN Colliding(b) |->
        Len(b.groups[Colliding(b)[i]]) * PathEntSize + ListGap]
ResolverSize(b)  == SumOf(ListSizes(b))
ListOffset(b, i) == Totals(ListSizes(b))[i - 1]

\* What is in the table: a unit for each hash, in their order.
newFlatPathTable(b) ==
    LET at(h) == Cardinality({g \in DOMAIN b.groups : g < h})
        entry(h) ==
            IF Len(b.groups[h]) = 1
            THEN [at |-> at(h), hash |-> h, inode |-> Number(b, b.groups[h][1])]
            ELSE [at |-> at(h), hash |-> h,
                  list |-> ListOffset(b, CHOOSE i \in DOMAIN Colliding(b) :
                                            Colliding(b)[i] = h)]
    IN  {entry(h) : h \in DOMAIN b.groups}

\* What is in the resolver, at which offsets.
collisionResolver(b) ==
    LET group(i) == b.groups[Colliding(b)[i]]
        List(i)  == {[at |-> ListOffset(b, i) + (j - 1) * PathEntSize,
                      path |-> group(i)[j], inode |-> Number(b, group(i)[j])] :
                        j \in DOMAIN group(i)}
    IN  UNION {List(i) : i \in DOMAIN Colliding(b)}

----------------------------------------------------------------------------
(* The inner image.                                                         *)

\* Mutant: the loop ends a block early.
Reserved_Short(n) == Larger(1, Smaller(n - 1, Direct))

\* The direct slots, whatever is to go there.
Reserved(n) == Larger(1, Smaller(n, Direct))

\* calculateDataBlockLayout without signatures: the super block, the inodes, the
\* super root, the path table, the resolver or an empty block, and the nodes.
Layout(b) ==
    LET inodes == ceilDiv(InodeCount(b), InodesPerBlock)
        table  == inodes + 2
        res    == table + Reserved(BlocksOf(Cardinality(DOMAIN b.groups)))
        first  == res + (IF b.root = 3
                         THEN Reserved(BlocksOf(ResolverSize(b))) ELSE 1)
        sum    == Totals([i \in DOMAIN b.nodes |-> BlocksOf(nodeSize(b, b.nodes[i]))])
    IN  [inodes |-> inodes, superRoot |-> inodes + 1, table |-> table,
         resolver |-> res,
         start   |-> [i \in DOMAIN b.nodes |-> first + sum[i - 1]],
         ndblock |-> Larger(MinBlocks, first + sum[Len(b.nodes)])]

inode(start, size) == [start |-> start, size |-> size, blocks |-> BlocksOf(size)]

Inodes(b) ==
    LET at == Layout(b)
        size(path) == IF path \in DOMAIN b.files THEN b.files[path]
                      ELSE BlocksOf(nodeSize(b, path)) * BlockSize
    IN  <<inode(at.superRoot, BlockSize),
          inode(at.table, Cardinality(DOMAIN b.groups))>>
        \o (IF b.root = 3
            THEN <<inode(at.resolver, ResolverSize(b))>> ELSE <<>>)
        \o [i \in DOMAIN b.nodes |-> inode(at.start[i], size(b.nodes[i]))]

DirFits(b) == \A d \in b.dirs \cup {<<>>} : marshalDirents(b, d).fits

SuperBlock(count, blocks) == [inodes |-> count, blocks |-> blocks]

\* What writeData puts from a block on: a sequence of contents.
Extent(at, contents) == [at |-> at, contents |-> contents]

\* The k-th block of inodes, and of a file or directory.
InodeBlock(b, k) ==
    [ino |-> [i \in 1 .. Smaller(InodesPerBlock, InodeCount(b) - (k - 1) * InodesPerBlock)
                |-> Inodes(b)[(k - 1) * InodesPerBlock + i]]]
NodeBlock(b, path, k) ==
    IF path \in DOMAIN b.files THEN [file |-> path, nth |-> k]
    ELSE [dir |-> marshalDirents(b, path).out, nth |-> k]

\* The k-th block of a table or resolver has the entries of which it has a part.
Touches(e, size, k) == e.at < k * BlockSize /\ (k - 1) * BlockSize < e.at + size
EntryBlock(kind, entries, size, k) ==
    [kind |-> kind, entries |-> {e \in entries : Touches(e, size, k)}]

\* All of the table and of the resolver is written, and then the nodes.
Extents(b) ==
    LET at == Layout(b)
    IN  <<Extent(0, <<SuperBlock(InodeCount(b), at.inodes)>>),
          Extent(1, [k \in 1 .. at.inodes |-> InodeBlock(b, k)]),
          Extent(at.superRoot, <<[dir |-> Chain(superRootDirents(b)), nth |-> 1]>>),
          Extent(at.table, [k \in 1 .. BlocksOf(Cardinality(DOMAIN b.groups)) |->
                               EntryBlock("table", newFlatPathTable(b), 1, k)])>>
        \o (IF b.root = 3
            THEN <<Extent(at.resolver, [k \in 1 .. BlocksOf(ResolverSize(b)) |->
                             EntryBlock("resolver", collisionResolver(b), PathEntSize, k)])>>
            ELSE <<>>)
        \o [i \in DOMAIN b.nodes |->
               Extent(at.start[i], [k \in 1 .. BlocksOf(nodeSize(b, b.nodes[i])) |->
                                      NodeBlock(b, b.nodes[i], k)])]

\* An image of so many blocks: what was written last holds.
Written(ndblock, extents) ==
    LET covering(k) == {i \in DOMAIN extents :
                           k - extents[i].at + 1 \in DOMAIN extents[i].contents}
        last(k) == extents[Max(covering(k))]
    IN  [k \in 0 .. ndblock - 1 |->
            IF covering(k) = {} THEN Zero
            ELSE last(k).contents[k - last(k).at + 1]]

InnerImage(b) == Written(Layout(b).ndblock, Extents(b))

----------------------------------------------------------------------------
(* pfsReader.  img is an image as it is read: contents by block number.     *)

At(img, b) == IF b \in DOMAIN img THEN img[b] ELSE Zero

\* The n-th inode is in one of the blocks behind the super block; where there is
\* none, zeroes are read.
InodeTable(img) ==
    LET sb == At(img, 0)
        read(block, i) == IF "ino" \in DOMAIN block /\ i \in DOMAIN block.ino
                          THEN block.ino[i] ELSE inode(0, 0)
    IN  IF "inodes" \in DOMAIN sb
        THEN [n \in 1 .. Smaller(sb.inodes, sb.blocks * InodesPerBlock) |->
                 read(At(img, 1 + (n - 1) \div InodesPerBlock),
                      1 + ((n - 1) % InodesPerBlock))]
        ELSE <<>>

\* The chain of entries of a directory block: an entry follows if it is where the
\* chain is and within the block.
Follows(placed, i, at, end) ==
    placed[i].at = at /\ at + entSize(placed[i].entry) <= end

Cursor(placed, end) ==
    LET at[i \in 0 .. Len(placed)] ==
            IF i = 0 THEN end - BlockSize
            ELSE IF Follows(placed, i, at[i - 1], end)
                 THEN at[i - 1] + entSize(placed[i].entry) ELSE at[i - 1]
    IN  at

ParseBlock(content) ==
    LET end == content.nth * BlockSize
        at  == Cursor(content.dir, end)
    IN  IF "dir" \in DOMAIN content
        THEN {content.dir[i].entry :
                 i \in {j \in DOMAIN content.dir : Follows(content.dir, j, at[j - 1], end)}}
        ELSE {}

Children(img, ino) ==
    UNION {ParseBlock(At(img, ino.start + k - 1)) : k \in 1 .. ino.blocks}

\* What is in a directory, as <<path, type, inode>>.
InDirectory(img, x) ==
    LET inodes == InodeTable(img)
    IN  {<<Append(x[1], e.name), e.type, e.number>> :
            e \in {c \in Children(img, inodes[x[3] + 1]) :
                      c.type \in {"file", "dir"} /\ c.number < Len(inodes)}}

\* What is below inode 0, level by level.
Levels(img) ==
    LET level[k \in 0 .. Len(InodeTable(img))] ==
            IF k = 0 THEN {<<<<>>, "dir", 0>>}
            ELSE UNION {InDirectory(img, x) : x \in {y \in level[k - 1] : y[2] = "dir"}}
    IN  level

\* There are no more levels than inodes.
loadDir(img) ==
    LET level == Levels(img)
    IN  UNION {level[k] : k \in 1 .. Len(InodeTable(img))}

\* The nodes below uroot.
Below(img) == {<<Tail(x[1]), x[2], x[3]>> :
                  x \in {y \in loadDir(img) : Len(y[1]) > 1 /\ y[1][1] = uroot}}

ReadFile(img, number) ==
    LET ino == InodeTable(img)[number + 1]
    IN  [size |-> ino.size,
         contents |-> [k \in 1 .. ino.blocks |-> At(img, ino.start + k - 1)]]

\* The entries that are there as a whole, in every block they touch.
Intact(img, ino, kind, size) ==
    LET block(k) == At(img, ino.start + k - 1)
        held(k)  == IF "kind" \in DOMAIN block(k) /\ block(k).kind = kind
                    THEN block(k).entries ELSE {}
    IN  {e \in UNION {held(k) : k \in 1 .. ino.blocks} :
            \A k \in 1 .. ino.blocks : Touches(e, size, k) => e \in held(k)}

\* The inode the console finds for a path by its hash, or -1.
Lookup(img, path) ==
    LET inodes == InodeTable(img)
        hits   == {e \in Intact(img, inodes[2], "table", 1) : e.hash = PathHash[path]}
        found  == CHOOSE e \in hits : TRUE
        lists  == Intact(img, inodes[3], "resolver", PathEntSize)
        run    == {x \in lists : x.path = path /\
                      \A k \in 0 .. x.at - found.list :
                         k % PathEntSize = 0 =>
                            \E y \in lists : y.at = found.list + k}
    IN  IF hits = {} THEN -1
        ELSE IF "inode" \in DOMAIN found THEN found.inode
        ELSE IF run = {} THEN -1 ELSE (CHOOSE x \in run : TRUE).inode

\* The blocks that are reserved for the table and the resolver hold all of them:
\* else the nodes are written over the rest.
TablesFit(b) ==
    /\ BlocksOf(Cardinality(DOMAIN b.groups)) <= Direct
    /\ BlocksOf(ResolverSize(b)) <= Direct

\* Everything in the tree that is not a package entry is found in the image by name,
\* and nothing else is; a file has its size and its contents.  It is found by its
\* hash as well, unless there are too many paths.
ReadsBackAs(img, tree) ==
    LET below == Below(img)
    IN  /\ {<<x[1], x[2]>> : x \in below} =
           {<<d, "dir">> : d \in tree.dirs} \cup {<<f, "file">> : f \in InImage(tree)}
        /\ \A x \in below :
              /\ TablesFit(setup(tree)) => Lookup(img, x[1]) = x[3]
              /\ x[2] = "file" =>
                    ReadFile(img, x[3]) =
                        [size |-> tree.files[x[1]],
                         contents |-> [k \in 1 .. BlocksOf(tree.files[x[1]]) |->
                                          [file |-> x[1], nth |-> k]]]
=============================================================================
