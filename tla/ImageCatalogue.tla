----------------------------- MODULE ImageCatalogue -----------------------------
(***************************************************************************)
(* Images to read, as mke2fs and mkfs.erofs lay them out: extent trees     *)
(* with holes and unwritten blocks, block maps up to the double-indirect   *)
(* block, directories in blocks and inline, with entries beyond the inode, *)
(* too; plain and inline files, and compressed ones with full and compact  *)
(* indexes.  Blocks have four or sixteen cells, so that small files need   *)
(* every level.                                                            *)
(***************************************************************************)
EXTENDS Integers, Sequences, FiniteSets, SequencesExt

Bytes(from, n) == [k \in 1 .. n |-> from + (k % 7)]
Blank(n) == [k \in 1 .. n |-> 0]

\* An entry of a directory, with the length of its name.
Long(stem, ext, length, ino, regular) == [name |-> <<stem, ext>>, length |-> length, ino |-> ino, regular |-> regular]
Entry(stem, ext, ino, regular) == Long(stem, ext, 5, ino, regular)

-----------------------------------------------------------------------------
\* ext4: blocks of four cells with two pointers, groups of four inodes.

Ext4File(size, extents, root, map) ==
  [dir |-> FALSE, inline |-> FALSE, size |-> size, extents |-> extents, root |-> root, map |-> map, entries |-> <<>>]

Ext4Dir(entries) == [Ext4File(0, FALSE, <<>>, <<>>) EXCEPT !.dir = TRUE, !.inline = TRUE, !.entries = entries]

Leaf(lblk, raw, start) == [lblk |-> lblk, raw |-> raw, start |-> start]

\* A directory of five entries, on blocks 28 and 29.
BlockEntries ==
  <<Long("gone", "jar", 8, 0, TRUE), Long("sub", "jar", 7, 2, FALSE), Long("notes", "txt", 9, 7, TRUE),
    Entry("b", "jar", 7, TRUE), Entry("a", "jar", 6, TRUE)>>

BlockDir == [Ext4File(5, TRUE, [depth |-> 0, entries |-> <<Leaf(0, 2, 28)>>], <<>>) EXCEPT !.dir = TRUE]

\* Blocks 0 and 1, a hole, two blocks never written, block 5, and part of block 6.
TreeBytes == Bytes(1, 8) \o Blank(12) \o Bytes(9, 4) \o Bytes(17, 2)
TreeRoot == [depth |-> 1, entries |-> <<30, 31>>]

\* Twelve direct blocks of which the third is a hole, two indirect ones, three below the double-indirect block.
MapBytes == Bytes(30, 8) \o Blank(4) \o Bytes(40, 54)
MapBlocks == <<41, 42, 0, 44, 45, 46, 47, 48, 49, 50, 51, 52>>
Map == MapBlocks \o <<60, 61, 0>>
Cut(bytes, l) == SubSeq(bytes \o Blank(4), 4 * l + 1, 4 * l + 4)

Ext4Blocks1 ==
  [b \in (20 .. 29) \cup (41 .. 57) \cup {30, 31, 60, 61, 62, 63} |->
     CASE b = 30 -> [depth |-> 0, entries |-> <<Leaf(0, 2, 20)>>]
       [] b = 31 -> [depth |-> 0, entries |-> <<Leaf(3, 32770, 22), Leaf(5, 2, 24)>>]
       [] b \in {20, 21} -> Cut(TreeBytes, b - 20)
       [] b \in {22, 23} -> Bytes(99, 4)
       [] b \in {24, 25} -> Cut(TreeBytes, b - 19)
       [] b = 28 -> SubSeq(BlockEntries, 1, 4)
       [] b = 29 -> SubSeq(BlockEntries, 5, 5)
       [] b = 60 -> <<53, 54>>
       [] b = 61 -> <<62, 63>>
       [] b = 62 -> <<55, 56>>
       [] b = 63 -> <<57, 0>>
       [] b \in 41 .. 57 -> Cut(MapBytes, b - 41)
       [] OTHER -> Bytes(98, 4)]

Ext4Image(javalib) ==
  [fs |-> "ext4", bs |-> 4, per |-> 2, perGroup |-> 4, blocks |-> Ext4Blocks1,
   tables |-> [g \in 0 .. 2 |-> [k \in 0 .. 3 |->
     CASE 4 * g + k = 1 -> Ext4Dir(<<Long("lost", "", 10, 3, FALSE), Long("javalib", "", 7, 5, FALSE)>>)
       [] 4 * g + k = 4 -> javalib
       [] 4 * g + k = 5 -> Ext4File(Len(TreeBytes), TRUE, TreeRoot, <<>>)
       [] 4 * g + k = 6 -> Ext4File(Len(MapBytes), FALSE, <<>>, Map)
       [] 4 * g + k = 7 -> [Ext4File(4, TRUE, <<>>, <<>>) EXCEPT !.inline = TRUE]
       [] 4 * g + k = 8 -> Ext4File(4, TRUE, [depth |-> 0, entries |-> <<Leaf(0, 1, 26)>>], <<>>)
       [] OTHER -> Ext4File(0, FALSE, <<>>, <<>>)]]]

-----------------------------------------------------------------------------
\* erofs: blocks of sixteen cells.  A cluster is what follows what, as LZ4
\* sequences of literals and a match.

Lz(literals, off, len) == [literals |-> literals, off |-> off, len |-> len]

LengthBytes(n) == IF n < 15 THEN <<>> ELSE [k \in 1 .. (n - 15) \div 255 |-> 255] \o <<(n - 15) % 255>>
Nibble(n) == IF n < 15 THEN n ELSE 15

LzBytes(s) ==
  <<16 * Nibble(Len(s.literals)) + (IF s.len = 0 THEN 0 ELSE Nibble(s.len - 4))>>
    \o LengthBytes(Len(s.literals)) \o s.literals
    \o (IF s.len = 0 THEN <<>> ELSE <<s.off % 256, s.off \div 256>> \o LengthBytes(s.len - 4))

Compressed(cluster) == FlattenSeq([k \in DOMAIN cluster |-> LzBytes(cluster[k])])

\* A match repeats the last off cells as often as it takes.
Expand(out, s) ==
  LET sofar == out \o s.literals
  IN  sofar \o [k \in 1 .. s.len |-> sofar[Len(sofar) - s.off + 1 + ((k - 1) % s.off)]]

Expanded(cluster) == FoldLeft(Expand, <<>>, cluster)

Squeezed(sequences) == [stored |-> FALSE, of |-> sequences]
Stored(cells) == [stored |-> TRUE, of |-> cells]
Run(byte, n) == Squeezed(<<Lz(<<byte>>, 1, n - 2), Lz(<<byte + 1>>, 0, 0)>>)
Repeat(byte, n) == Squeezed(<<Lz([k \in 1 .. 8 |-> byte + k], 8, n - 9), Lz(<<byte>>, 0, 0)>>)
Mixed(byte) == Squeezed(<<Lz(<<byte, byte + 1, byte + 2>>, 3, 20), Lz(<<7>>, 4, 9), Lz(<<5>>, 0, 0)>>)

\* What a cluster holds of the file.
PlainOf(c) == IF c.stored THEN c.of ELSE Expanded(c.of)

\* Long runs make many indexes; a stored cluster lies between compressed ones.
Clusters == <<Run(11, 40), Mixed(21), Repeat(31, 325), Mixed(41), Mixed(51), Run(61, 19)>>
MoreClusters == <<Mixed(71), Run(81, 50)>>
WithStored == <<Stored([k \in 1 .. 16 |-> k + 100]), Run(91, 60), Mixed(21)>>

FileBytes(clusters) == FlattenSeq([k \in DOMAIN clusters |-> PlainOf(clusters[k])])

StartOf(clusters, k) == Len(FileBytes(SubSeq(clusters, 1, k - 1)))

OnBlock(c) == IF c.stored THEN c.of ELSE Blank(16 - Len(Compressed(c.of))) \o Compressed(c.of)

\* What is written for logical cluster n: a head with its place in it, or not a head.
IndexEntry(clusters, lcs, n) ==
  LET here == {k \in DOMAIN clusters : StartOf(clusters, k) \div lcs = n}
  IN  IF here = {} THEN <<2, 1>>
      ELSE LET k == CHOOSE h \in here : TRUE
           IN  <<IF clusters[k].stored THEN 0 ELSE 1, StartOf(clusters, k) % lcs, k>>

Total(clusters, lcs) == (Len(FileBytes(clusters)) + lcs - 1) \div lcs

FullIndex(clusters, lcs, first) ==
  [n \in 1 .. Total(clusters, lcs) |->
     LET e == IndexEntry(clusters, lcs, n - 1) IN <<e[1], e[2], IF e[1] = 2 THEN 0 ELSE first + e[3] - 1>>]

\* The packs one after the other: of sixteen where one fits and is aligned, else of two.
Packs(clusters, lcs, first, base, twoByte) ==
  LET total == Total(clusters, lcs)
      Large(p) == twoByte /\ p.pos % 32 = 0 /\ total - p.lcn >= 16
      next(p) == IF Large(p) THEN [pos |-> p.pos + 32, lcn |-> p.lcn + 16] ELSE [pos |-> p.pos + 8, lcn |-> p.lcn + 2]
      from[p \in [pos : Nat, lcn : Nat]] == IF p.lcn >= total THEN {} ELSE {p} \cup from[next(p)]
      used == from[[pos |-> base, lcn |-> 0]]
      before(p) == Cardinality({k \in DOMAIN clusters : StartOf(clusters, k) \div lcs < p.lcn})
  IN  [at \in {p.pos : p \in used} |->
         LET p == CHOOSE q \in used : q.pos = at
         IN  [block |-> first + before(p) - 1,
              entries |-> [i \in 1 .. (IF Large(p) THEN 16 ELSE 2) |-> IndexEntry(clusters, lcs, p.lcn + i - 1)]]]

ErofsInode(layout, size, raw, off) ==
  [layout |-> layout, size |-> size, raw |-> raw, off |-> off, isize |-> 32, xattrs |-> 0, dir |-> FALSE,
   tail |-> <<>>, unsupported |-> FALSE, lcs |-> 16, twoByte |-> FALSE, index |-> <<>>]

ErofsDir(layout, entries, raw, off) ==
  [ErofsInode(layout, Len(entries), raw, off) EXCEPT !.dir = TRUE, !.tail = entries]

\* Attributes push the indexes to 24 past a boundary: two small ones come first.
Compact(clusters, first, twoByte) ==
  [ErofsInode("compact", Len(FileBytes(clusters)), 0, 1152) EXCEPT
     !.xattrs = 1, !.twoByte = twoByte, !.index = Packs(clusters, 16, first, 1208, twoByte)]

JavalibEntries == <<Entry("c", "jar", 43, TRUE), Entry("d", "jar", 44, TRUE), Entry("b", "jar", 45, TRUE)>>

ErofsImage(more) ==
  [fs |-> "erofs", bs |-> 16, root |-> 36, zeroPadding |-> TRUE,
   blocks |-> [b \in 2 .. 40 |->
     CASE b \in 2 .. 7 -> OnBlock(Clusters[b - 1])
       [] b \in 11 .. 13 -> OnBlock(WithStored[b - 10])
       [] b = 20 -> JavalibEntries
       [] b \in 21 .. 22 -> Bytes(b, 16)
       [] b \in 31 .. 36 -> OnBlock(Clusters[b - 30])
       [] b \in 37 .. 38 -> OnBlock(MoreClusters[b - 36])
       [] OTHER -> Bytes(98, 16)],
   inodes |-> [n \in {36, 40, 43, 44, 45, 46} |->
     CASE n = 36 -> ErofsDir("inline", <<Entry("bin", "", 36, FALSE), Entry("javalib", "", 40, FALSE)>>, 0, 1152)
       [] n = 40 -> ErofsDir("plain", JavalibEntries, 20, 1280)
       [] n = 43 -> [ErofsInode("inline", 37, 21, 1376) EXCEPT !.tail = Bytes(3, 5)]
       [] n = 44 -> [ErofsInode("full", Len(FileBytes(WithStored)), 0, 1408) EXCEPT !.index = FullIndex(WithStored, 16, 11)]
       [] OTHER -> IF more THEN Compact(Clusters \o MoreClusters, 31, TRUE) ELSE Compact(Clusters, 2, FALSE)]]

InlineBytes == Bytes(21, 16) \o Bytes(22, 16) \o Bytes(3, 5)
=================================================================================
