--------------------------------- MODULE Images ---------------------------------
(***************************************************************************)
(* The filesystem images of APEX packages (src/dex/apex/): ext4 with       *)
(* extents or block maps, and erofs with files stored plainly or           *)
(* compressed, up to the jars of /javalib.                                 *)
(*                                                                         *)
(* A block is a sequence of cells: bytes, the entries of a directory,      *)
(* block numbers, or a node of an extent tree.  What can fail is a set:    *)
(* empty for an error, else the one result.                                *)
(***************************************************************************)
EXTENDS Integers, Sequences, FiniteSets, SequencesExt

The(S) == CHOOSE x \in S : TRUE

\* Of sets that each hold one result, the sequence of the results.
Whole(results) == IF \E k \in DOMAIN results : results[k] = {} THEN {}
                  ELSE {[k \in DOMAIN results |-> The(results[k])]}

CeilDiv(a, b) == (a + b - 1) \div b

Zeros(n) == [k \in 1 .. n |-> 0]

-----------------------------------------------------------------------------
(***************************************************************************)
(* ext4.                                                                   *)
(***************************************************************************)
Ext4Inode(d, ino) == d.tables[(ino - 1) \div d.perGroup][(ino - 1) % d.perGroup]

\* The leaves of an extent tree from left to right, given those below each block.
LeavesBelow(node, below) ==
  IF node.depth = 0 THEN {node.entries}
  ELSE {FlattenSeq(parts) : parts \in Whole([k \in DOMAIN node.entries |-> below[node.entries[k]]])}

\* A tree is at most eight levels deep.
Extents(d, root) ==
  LET below[levels \in 0 .. 8] ==
        [b \in DOMAIN d.blocks |-> IF levels = 0 THEN {} ELSE LeavesBelow(d.blocks[b], below[levels - 1])]
  IN  LeavesBelow(root, below[8])

\* Mutant of Mapped: an extent that was never written is read from the disk.
MappedRaw(leaves, l) ==
  {e.start + l - e.lblk : e \in {x \in ToSet(leaves) : l \in x.lblk .. x.lblk + (x.raw % 32768) - 1}}

\* Where block l is, if anywhere: a length beyond 32768 marks what was never written.
Mapped(leaves, l) ==
  {e.start + l - e.lblk : e \in {x \in ToSet(leaves) : x.raw <= 32768 /\ l \in x.lblk .. x.lblk + x.raw - 1}}

Pointers(d, b) == IF b = 0 THEN Zeros(d.per) ELSE d.blocks[b]

\* Twelve direct blocks, one block of pointers, one of blocks of pointers.
ClassicMap(d, ino) ==
  LET second == Pointers(d, ino.map[14])
      all == SubSeq(ino.map, 1, 12) \o Pointers(d, ino.map[13])
               \o FlattenSeq([k \in DOMAIN second |-> Pointers(d, second[k])])
  IN  IF ino.map[15] # 0 /\ Len(all) < CeilDiv(ino.size, d.bs) THEN {} ELSE {all}

\* Per logical block the set of its physical block, empty for a hole.
Ext4Blocks(d, ino) ==
  LET ls == 0 .. CeilDiv(ino.size, d.bs) - 1
  IN  IF ino.extents THEN {[l \in ls |-> Mapped(leaves, l)] : leaves \in Extents(d, ino.root)}
      ELSE {[l \in ls |-> IF l < Len(all) /\ all[l + 1] # 0 THEN {all[l + 1]} ELSE {}] : all \in ClassicMap(d, ino)}

Ext4Read(d, ino) ==
  IF ino.inline THEN {}
  ELSE {SubSeq(FlattenSeq([k \in 1 .. Cardinality(DOMAIN m) |->
          IF m[k - 1] = {} THEN Zeros(d.bs) ELSE d.blocks[The(m[k - 1])]]), 1, ino.size) : m \in Ext4Blocks(d, ino)}

\* What i_block has left for the entries of a directory kept in its inode, in bytes.
InlineRoom == 56

EntrySize(e) == 8 + 4 * CeilDiv(e.length, 4)

\* The entries in i_block; those beyond it are in an attribute, which is not read.
InBlock(entries) ==
  LET end[k \in 0 .. Len(entries)] == IF k = 0 THEN 0 ELSE end[k - 1] + EntrySize(entries[k])
  IN  SubSeq(entries, 1, Cardinality({k \in DOMAIN entries : end[k] <= InlineRoom}))

Ext4Entries(d, ino) ==
  IF ~ ino.dir THEN {}
  ELSE {SelectSeq(cells, LAMBDA e : e.ino # 0) : cells \in IF ino.inline THEN {InBlock(ino.entries)} ELSE Ext4Read(d, ino)}

-----------------------------------------------------------------------------
(***************************************************************************)
(* LZ4 blocks.                                                             *)
(***************************************************************************)
\* A length and where it ends: fifteen goes on in bytes until one is not 255.
Length(src, at, nibble) ==
  IF nibble < 15 THEN {<<nibble, at>>}
  ELSE {<<15 + 255 * (k - at) + src[k], k + 1>> :
          k \in {j \in at .. Len(src) : src[j] # 255 /\ \A h \in at .. j - 1 : src[h] = 255}}

\* A match may reach into what it writes: a byte is the one `off` before it.
CopyMatch(dst, off, n) ==
  LET byte[p \in 1 .. Len(dst) + n] == IF p <= Len(dst) THEN dst[p] ELSE byte[p - off]
  IN  dst \o [k \in 1 .. n |-> byte[Len(dst) + k]]

Bad(s) == [s EXCEPT !.status = "bad"]

MatchStep(src, s, nibble) ==
  LET off == src[s.i] + 256 * src[s.i + 1]
  IN  IF s.i + 1 > Len(src) THEN Bad(s)
      ELSE IF off = 0 \/ off > Len(s.dst) \/ Length(src, s.i + 2, nibble) = {} THEN Bad(s)
      ELSE LET l == The(Length(src, s.i + 2, nibble))
           IN  [s EXCEPT !.i = l[2], !.dst = CopyMatch(@, off, l[1] + 4)]

\* Literals, and a match unless the block or the output ends with them.
SequenceStep(src, n, s) ==
  LET literals == Length(src, s.i + 1, src[s.i] \div 16)
      from == The(literals)[2]
      to == from + The(literals)[1]
      read == [s EXCEPT !.i = to, !.dst = @ \o SubSeq(src, from, to - 1)]
  IN  IF literals = {} \/ to - 1 > Len(src) THEN Bad(s)
      ELSE IF to > Len(src) \/ Len(read.dst) >= n THEN [read EXCEPT !.status = "end"]
      ELSE MatchStep(src, read, src[s.i] % 16)

Decompress(src, n) ==
  LET run[s \in [i : Nat, dst : Seq(Nat), status : {"go", "end", "bad"}]] ==
        IF s.status # "go" \/ s.i > Len(src) \/ Len(s.dst) >= n THEN s ELSE run[SequenceStep(src, n, s)]
      end == run[[i |-> 1, dst |-> <<>>, status |-> "go"]]
  IN  IF end.status = "bad" \/ Len(end.dst) < n THEN {} ELSE {SubSeq(end.dst, 1, n)}

-----------------------------------------------------------------------------
(***************************************************************************)
(* erofs.  Positions are bytes from the start of the image; blocks are a   *)
(* multiple of every pack of indexes.                                      *)
(***************************************************************************)
PLAIN == 0
NONHEAD == 2

\* Behind the inode and its attributes.
BodyAt(ino) == ino.off + ino.isize + (IF ino.xattrs = 0 THEN 0 ELSE 12 + (ino.xattrs - 1) * 4)

FlatRead(d, ino) ==
  LET full == ino.size \div d.bs
      tail == ino.size % d.bs
  IN  FlattenSeq([b \in 1 .. full |-> d.blocks[ino.raw + b - 1]])
        \o (IF tail = 0 THEN <<>> ELSE IF ino.layout = "inline" THEN ino.tail ELSE SubSeq(d.blocks[ino.raw + full], 1, tail))

\* Where the indexes begin: behind a header of eight bytes, itself aligned to eight.
IndexBase(ino) == 8 * CeilDiv(BodyAt(ino), 8) + 8

\* Entry i of a pack; its block is that of the cluster that runs into the pack.
PackEntry(pack, i) ==
  LET before == {j \in 1 .. i : pack.entries[j][1] # NONHEAD}
  IN  <<pack.entries[i + 1][1], pack.entries[i + 1][2], pack.block + 1 + Cardinality(before)>>

EntryAt(ino, pos, packsize, width) == PackEntry(ino.index[pos - (pos % packsize)], (pos % packsize) \div width)

\* Indexes of four bytes up to a boundary of 32, packs of sixteen of two bytes, and again of four.
CompactIndex(ino, total, lcn) ==
  LET ebase == IndexBase(ino)
      initial == ((32 - (ebase % 32)) \div 4) % 8
      c2b == IF ino.twoByte /\ initial < total THEN 16 * ((total - initial) \div 16) ELSE 0
      l == lcn - initial
  IN  IF l < 0 THEN EntryAt(ino, ebase + 4 * lcn, 8, 4)
      ELSE IF l < c2b THEN EntryAt(ino, ebase + 4 * initial + 2 * l, 32, 2)
      ELSE EntryAt(ino, ebase + 4 * initial + 2 * c2b + 4 * (l - c2b), 8, 4)

Index(ino, total, lcn) == IF ino.layout = "full" THEN ino.index[lcn + 1] ELSE CompactIndex(ino, total, lcn)

\* The physical clusters: where each begins in the file, its type and its block.
HeadsOf(index, lcs) ==
  LET at == SelectSeq([k \in DOMAIN index |-> k], LAMBDA k : index[k][1] # NONHEAD)
  IN  [h \in DOMAIN at |-> [start |-> (at[h] - 1) * lcs + index[at[h]][2],
                            type |-> index[at[h]][1], block |-> index[at[h]][3]]]

Heads(ino) ==
  LET total == CeilDiv(ino.size, ino.lcs)
  IN  HeadsOf([k \in 1 .. total |-> Index(ino, total, k - 1)], ino.lcs)

StripZeros(cells) ==
  LET first == SelectInSeq(cells, LAMBDA c : c # 0) IN IF first = 0 THEN <<>> ELSE SubSeq(cells, first, Len(cells))

Cluster(d, head, len) ==
  LET cells == d.blocks[head.block]
  IN  IF len = 0 THEN {<<>>}
      ELSE IF head.type = PLAIN THEN (IF Len(cells) < len THEN {} ELSE {SubSeq(cells, 1, len)})
      ELSE Decompress(IF d.zeroPadding THEN StripZeros(cells) ELSE cells, len)

HeadEnd(heads, k, size) == IF k = Len(heads) THEN size ELSE heads[k + 1].start

\* Nothing in front of the first cluster, and none that ends before it begins.
Contiguous(heads, size) ==
  /\ IF heads = <<>> THEN size = 0 ELSE heads[1].start = 0
  /\ \A k \in DOMAIN heads : heads[k].start <= HeadEnd(heads, k, size)

ReadClusters(d, heads, size) ==
  IF ~ Contiguous(heads, size) THEN {}
  ELSE {FlattenSeq(parts) : parts \in Whole([k \in DOMAIN heads |->
                                        Cluster(d, heads[k], HeadEnd(heads, k, size) - heads[k].start)])}

CompressedRead(d, ino) == IF ino.unsupported THEN {} ELSE ReadClusters(d, Heads(ino), ino.size)

ErofsRead(d, ino) ==
  CASE ino.layout \in {"plain", "inline"} -> {FlatRead(d, ino)}
    [] ino.layout \in {"full", "compact"} -> CompressedRead(d, ino)
    [] OTHER -> {}

ErofsEntries(d, ino) == IF ino.dir THEN ErofsRead(d, ino) ELSE {}

-----------------------------------------------------------------------------
(***************************************************************************)
(* The jars of /javalib, by name.                                          *)
(***************************************************************************)
Inode(d, ino) == IF d.fs = "ext4" THEN Ext4Inode(d, ino) ELSE d.inodes[ino]
Read(d, ino) == IF d.fs = "ext4" THEN Ext4Read(d, Inode(d, ino)) ELSE ErofsRead(d, Inode(d, ino))
Entries(d, ino) == IF d.fs = "ext4" THEN Ext4Entries(d, Inode(d, ino)) ELSE ErofsEntries(d, Inode(d, ino))

\* The root is inode 2 of an ext4 image; a directory that is not there has no entries.
ReadDir(d, name) ==
  UNION {LET at == SelectInSeq(es, LAMBDA e : e.name = name)
         IN  IF at = 0 THEN {<<>>} ELSE Entries(d, es[at].ino)
         : es \in Entries(d, IF d.fs = "ext4" THEN 2 ELSE d.root)}

IsJar(e) == e.regular /\ e.name[2] = "jar"

JarsInImage(d) ==
  IF d.fs \notin {"ext4", "erofs"} THEN {}
  ELSE UNION {LET jars == SelectSeq(es, IsJar)
              IN  {[k \in DOMAIN jars |-> [name |-> jars[k].name, bytes |-> read[k]]] :
                     read \in Whole([k \in DOMAIN jars |-> Read(d, jars[k].ino)])}
              : es \in ReadDir(d, <<"javalib", "">>)}
=================================================================================
