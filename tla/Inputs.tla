--------------------------------- MODULE Inputs ---------------------------------
(***************************************************************************)
(* From the paths of the command line to one merged dex                    *)
(* (src/dex/input.rs, archive.rs, apex/mod.rs): every dex in directories,  *)
(* archives within archives and APEX images is found, decoded by the       *)
(* native or the textual front end, and merged with the first copy of a    *)
(* class kept.                                                             *)
(*                                                                         *)
(* A file is an identifier; Files says what is there: a directory with the *)
(* jars of its Soong layout, its own entries, and those of both that       *)
(* cannot be listed, an archive with its members, a dex, the image of an   *)
(* APEX, or something else, and of an APEX the jars packed into it, by     *)
(* name, those of them that its directory shows without an attribute, and  *)
(* whether its image is of a kind only the tool can read.  A name is       *)
(* <<stem, extension>>.  The decoders are functions of a file, so what     *)
(* they make of every file is worked out once, in Init, and looked up.     *)
(***************************************************************************)
EXTENDS Integers, Sequences, FiniteSets, SequencesExt, TLC, Images

CONSTANTS Files,       \* what every file is
          Runs,        \* the command lines: given paths, scope, back-end, deapexer
          MaxDepth,    \* MAX_DEPTH
          Alphabet,    \* the stems of names, in order
          ArrayTypes

ASSUME MaxDepthAssumption == MaxDepth \in Nat \ {0}

\* The files, worked out once.
Disk == Files
File == DOMAIN Disk

IsSeq(s) == s \in Seq(ToSet(s))

\* What lies in a directory or an archive is there; the jars of an APEX are
\* files, known by their bytes.
ASSUME FilesAssumption ==
  /\ IsFiniteSet(File) /\ "garbage" \in File
  /\ \A id \in File :
       LET file == Disk[id]
       IN  /\ file.kind \in {"dir", "dex", "zip", "image", "other", "missing"}
           /\ file.soong \subseteq File /\ file.entries \subseteq File
           /\ file.members \in Seq({m \in File : Disk[m].kind # "missing"})
           /\ file.packed \in Seq({f \in File : Disk[f].kind \notin {"dir", "missing"} /\ Disk[f].name[2] = "jar"})
           /\ file.shown \in Seq(ToSet(file.packed))
           /\ \A f \in ToSet(file.packed) : \A g \in File : Disk[g].bytes = Disk[f].bytes => g = f
           /\ IsSeq(file.dex) /\ \A s \in ToSet(file.dex) : IsSeq(s.classes)

ASSUME RunsAssumption ==
  \A r \in Runs : r.given \in Seq(File) /\ r.text \in BOOLEAN /\ r.tool \in {"missing", "works", "forced"}

Source == INSTANCE DexSource
Native == INSTANCE NativeDex
Text == INSTANCE DexText

Nothing == [classes |-> <<>>, flagged |-> {}]

IsDex(id) == Disk[id].kind = "dex" /\ Disk[id].ok

\* Of each file the jars of its image, its model by either front end, and what the dex says.
Decoded ==
  [jars |-> [id \in File |-> JarsInImage(Disk[id].image)],
   native |-> [id \in File |-> IF IsDex(id) THEN Native!NativeModel(Source!FileOf(Disk[id].dex)) ELSE Nothing],
   text |-> [id \in File |-> IF IsDex(id) THEN Text!TextModel(Source!Listing(Disk[id].dex)) ELSE Nothing],
   said |-> [id \in File |-> [textual \in BOOLEAN |-> IF IsDex(id) THEN Source!Said(Disk[id].dex, textual) ELSE Nothing]]]

VARIABLES decoded,  \* what the decoders make of the files
          run,      \* the command line
          todo,     \* what is still to be looked into, the next first
          blobs,    \* the dexes found, in order
          read,     \* the jars read out of images by the native readers
          parsed,   \* of a blob that was decoded, what came out
          merged,   \* the result
          phase

vars == <<decoded, run, todo, blobs, read, parsed, merged, phase>>

-----------------------------------------------------------------------------
Ext(id) == Disk[id].name[2]
IsZipExt(id) == Ext(id) \in {"jar", "apk", "zip", "aar"}
IsApex(id) == Ext(id) \in {"apex", "capex"}
Interesting(id) == Ext(id) = "dex" \/ Disk[id].name[1] \in {"classes", "classes2"} \/ IsZipExt(id)

\* A directory's entries come in any order, without those that the listing fails
\* on, which are dropped; the Soong jars are narrowed by the scope.
Listed(id, scope) ==
  LET soong == {e \in Disk[id].soong \ Disk[id].lost : Ext(e) = "jar" /\ Disk[e].name[1] \in scope}
  IN  IF soong # {} THEN soong
      ELSE {e \in Disk[id].entries \ Disk[id].lost : Ext(e) \in {"jar", "apk", "zip", "dex", "apex", "capex"}}

Named(id, name) == {m \in ToSet(Disk[id].members) : Disk[m].name = name}

\* The image in an APEX, or in the APEX a compressed one holds, and so on.
Payload(id) ==
  LET within[more \in 0 .. 3] ==
        [f \in File |-> IF more = 0 \/ Disk[f].kind # "zip" THEN {}
                        ELSE IF Named(f, <<"original_apex", "">>) # {} THEN within[more - 1][The(Named(f, <<"original_apex", "">>))]
                        ELSE Named(f, <<"apex_payload", "img">>)]
  IN  within[3][id]

Rank(name) == SelectInSeq(Alphabet, LAMBDA stem : stem = name[1])
ByName(jars) == SortSeq(jars, LAMBDA a, b : Rank(a.name) < Rank(b.name))

JavalibJars(id) == UNION {{ByName(jars) : jars \in decoded.jars[i]} : i \in Payload(id)}

Packed(id) == Disk[id].packed

JarsOf(ids) == [k \in DOMAIN ids |-> [name |-> Disk[ids[k]].name, bytes |-> Disk[ids[k]].bytes]]

\* What the deapexer tool finds (external): the jars that were packed.
Deapexed(id) == JarsOf(Packed(id))

\* The file that has these bytes (external: zip and dex readers know it by them).
FileWith(bytes) == LET ids == {f \in File : Disk[f].bytes = bytes}
                   IN  IF ids = {} THEN "garbage" ELSE The(ids)

-----------------------------------------------------------------------------
Init ==
  /\ decoded = Decoded
  /\ run \in Runs
  /\ todo = [k \in DOMAIN run.given |-> [id |-> run.given[k], path |-> TRUE, scope |-> run.scope, depth |-> 0, from |-> k]]
  /\ blobs = <<>> /\ read = {} /\ parsed = <<>> /\ merged = Nothing
  /\ phase = IF run.given = <<>> THEN "failed" ELSE "collect"

Current == todo[1]

Fail == phase' = "failed" /\ UNCHANGED <<decoded, run, todo, blobs, read, parsed, merged>>

\* In place of the first item, these.
Replace(items) == todo' = items \o Tail(todo) /\ UNCHANGED <<decoded, run, parsed, merged, phase>>

Within(id, depth) == [Current EXCEPT !.id = id, !.path = FALSE, !.depth = depth]

Unreadable == Current.path /\ Disk[Current.id].kind = "missing" /\ Fail

VisitDirectory ==
  /\ Current.path /\ Disk[Current.id].kind = "dir"
  /\ \E listed \in {Listed(Current.id, Current.scope)} : \E order \in [1 .. Cardinality(listed) -> listed] :
       /\ ToSet(order) = listed
       /\ Replace([k \in DOMAIN order |-> [Current EXCEPT !.id = order[k], !.scope = ToSet(Alphabet)]])
  /\ UNCHANGED <<blobs, read>>

AnApex == Current.path /\ IsApex(Current.id) /\ Disk[Current.id].kind \notin {"dir", "missing"}

\* The native readers, unless the tool is asked for.
UnpackApex ==
  /\ AnApex /\ run.tool # "forced"
  /\ \E jars \in JavalibJars(Current.id) :
       /\ read' = read \cup {[apex |-> Current.id, jars |-> jars]}
       /\ Replace([k \in DOMAIN jars |-> Within(FileWith(jars[k].bytes), 1)])
  /\ UNCHANGED blobs

Deapex ==
  /\ AnApex /\ (run.tool = "forced" \/ JavalibJars(Current.id) = {})
  /\ IF run.tool = "missing" THEN Fail
     ELSE /\ Replace([k \in DOMAIN Deapexed(Current.id) |-> Within(FileWith(Deapexed(Current.id)[k].bytes), 1)])
          /\ UNCHANGED <<blobs, read>>

\* A member of an archive that could not hold a dex.
Skipped == ~ Current.path /\ (Disk[Current.id].kind = "dir" \/ ~ Interesting(Current.id))

AsBytes == Disk[Current.id].kind \notin {"dir", "missing"} /\ ~ (Current.path /\ IsApex(Current.id)) /\ ~ Skipped

\* Mutant of NextDepth: the depth is that of the archive.
NextDepthSame(item) == item.depth

NextDepth(item) == item.depth + 1

TakeDex ==
  /\ AsBytes /\ Current.depth <= MaxDepth /\ Disk[Current.id].kind = "dex"
  /\ blobs' = Append(blobs, [id |-> Current.id, from |-> Current.from])
  /\ Replace(<<>>) /\ UNCHANGED read

OpenArchive ==
  /\ AsBytes /\ Current.depth <= MaxDepth /\ Disk[Current.id].kind # "dex"
  /\ Disk[Current.id].kind = "zip" \/ IsZipExt(Current.id)
  /\ IF Disk[Current.id].kind # "zip" \/ ~ Disk[Current.id].ok THEN Fail
     ELSE /\ Replace([k \in DOMAIN Disk[Current.id].members |-> Within(Disk[Current.id].members[k], NextDepth(Current))])
          /\ UNCHANGED <<blobs, read>>

\* Skipped, too deep, or neither a dex nor an archive.
PassOver ==
  /\ Skipped \/ (AsBytes /\ (Current.depth > MaxDepth \/ (Disk[Current.id].kind \notin {"dex", "zip"} /\ ~ IsZipExt(Current.id))))
  /\ Replace(<<>>) /\ UNCHANGED <<blobs, read>>

Collected ==
  /\ phase = "collect" /\ todo = <<>>
  /\ phase' = IF blobs = <<>> THEN "failed" ELSE "parse"
  /\ UNCHANGED <<decoded, run, todo, blobs, read, parsed, merged>>

Model(id) == IF run.text THEN decoded.text[id] ELSE decoded.native[id]

\* Mutant of Parse: a blob that cannot be decoded is left out.
ParseOrSkip(k) ==
  /\ phase = "parse" /\ k \notin DOMAIN parsed
  /\ parsed' = [j \in DOMAIN parsed \cup {k} |-> IF j = k THEN Model(blobs[k].id) ELSE parsed[j]]
  /\ UNCHANGED <<decoded, run, todo, blobs, read, merged, phase>>

\* Blobs are decoded in parallel, and any that cannot be fails the run.
Parse(k) ==
  /\ phase = "parse" /\ k \notin DOMAIN parsed
  /\ IF ~ Disk[blobs[k].id].ok THEN Fail
     ELSE /\ parsed' = [j \in DOMAIN parsed \cup {k} |-> IF j = k THEN Model(blobs[k].id) ELSE parsed[j]]
          /\ UNCHANGED <<decoded, run, todo, blobs, read, merged, phase>>

\* Mutant of FirstCopies: a later copy takes the place of the first.
LastCopies(all) ==
  LET Replaced(n) == \E m \in n + 1 .. Len(all) : all[m].descriptor = all[n].descriptor
  IN  FlattenSeq([n \in DOMAIN all |-> IF Replaced(n) THEN <<>> ELSE <<all[n]>>])

\* One more class, unless one of its name was seen.
AddClass(seen, class) ==
  IF \E c \in ToSet(seen) : c.descriptor = class.descriptor THEN seen ELSE Append(seen, class)

FirstCopies(all) ==
  LET kept[n \in 0 .. Len(all)] == IF n = 0 THEN <<>> ELSE AddClass(kept[n - 1], all[n])
  IN  kept[Len(all)]

Merge ==
  /\ phase = "parse" /\ DOMAIN parsed = DOMAIN blobs
  /\ \E all \in {FlattenSeq([k \in DOMAIN blobs |-> parsed[k].classes])} :
       merged' = [classes |-> FirstCopies(all), flagged |-> UNION {parsed[k].flagged : k \in DOMAIN blobs}]
  /\ phase' = "done" /\ UNCHANGED <<decoded, run, todo, blobs, read, parsed>>

Collect ==
  /\ phase = "collect" /\ todo # <<>>
  /\ Unreadable \/ VisitDirectory \/ UnpackApex \/ Deapex \/ TakeDex \/ OpenArchive \/ PassOver

Next == Collect \/ Collected \/ (\E k \in DOMAIN blobs : Parse(k)) \/ Merge

Stopped == phase \in {"done", "failed"} /\ UNCHANGED vars

Spec == Init /\ [][Next \/ Stopped]_vars /\ WF_vars(Next)

-----------------------------------------------------------------------------
(***************************************************************************)
(* Properties.                                                             *)
(***************************************************************************)
\* The files on disk that a path leads to, unscoped, by what the listings of
\* directories give.  (A directory that leads back to itself is never done with.)
led[id \in File] == IF Disk[id].kind = "dir" THEN UNION {led[e] : e \in Listed(id, ToSet(Alphabet))} ELSE {id}

OnDisk(k) ==
  LET given == run.given[k]
  IN  IF Disk[given].kind = "dir" THEN UNION {led[e] : e \in Listed(given, run.scope)} ELSE {given}

Members(id) == {m \in ToSet(Disk[id].members) : Disk[m].kind # "dir" /\ Interesting(m)}

\* A file and what lies at most that many archives below it.
below[depth \in 0 .. MaxDepth] ==
  [id \in File |-> {id} \cup (IF depth = 0 \/ Disk[id].kind # "zip" THEN {} ELSE UNION {below[depth - 1][m] : m \in Members(id)})]

\* The jars of an APEX that a run gets to see: the tool sees them all.
Seen(id) == IF run.tool = "forced" \/ Disk[id].exotic THEN Packed(id) ELSE Disk[id].shown

\* The files at most MaxDepth archives below path k.
Reached(k) ==
  UNION {IF IsApex(id) THEN UNION {below[MaxDepth - 1][jar] : jar \in ToSet(Seen(id))} ELSE below[MaxDepth][id] : id \in OnDisk(k)}

Dexes(k) == {id \in Reached(k) : Disk[id].kind = "dex"}
AllDexes == UNION {Dexes(k) : k \in DOMAIN run.given}

Saying(id) == decoded.said[id][run.text]
Descriptors(id) == UNION {{c.type : c \in ToSet(s.classes)} : s \in ToSet(Disk[id].dex)}

\* A finished run has every class of every dex within reach, once, and the
\* copy of the path given first; and the final and volatile fields of all of
\* them.  (An archive in an archive in a directory, listed in any order,
\* must not be missed, and a later copy not win.)  Within reach is what the
\* listings of directories give, not deeper than MaxDepth archives, and of an
\* APEX read natively not the jars whose entries lie in an attribute.
EveryClassOnce ==
  phase = "done" =>
    /\ {c.descriptor : c \in ToSet(merged.classes)} = UNION {Descriptors(id) : id \in AllDexes}
    /\ \A a, b \in DOMAIN merged.classes : merged.classes[a].descriptor = merged.classes[b].descriptor => a = b
    /\ \A c \in ToSet(merged.classes) :
         LET k == CHOOSE j \in DOMAIN run.given :
                    /\ \E id \in Dexes(j) : c.descriptor \in Descriptors(id)
                    /\ \A h \in 1 .. j - 1 : \A id \in Dexes(h) : c.descriptor \notin Descriptors(id)
         IN  \E id \in Dexes(k) : c \in ToSet(Saying(id).classes)
    /\ merged.flagged = UNION {Saying(id).flagged : id \in AllDexes}

\* Something within reach of path k that cannot be read.
Unreadables(k) ==
  {id \in OnDisk(k) : Disk[id].kind = "missing"}
    \cup {id \in Reached(k) : IF Disk[id].kind \in {"dex", "zip"} THEN ~ Disk[id].ok ELSE IsZipExt(id)}
    \cup {id \in OnDisk(k) : IsApex(id) /\ Disk[id].exotic /\ run.tool = "missing"}

\* A run fails if and only if a path, an archive, a dex or an image within reach
\* cannot be read (an image, by the tool either), or there is no dex at all: a
\* fault found in any order, at any depth or while decoding in parallel stops
\* the run, and nothing else does.  What is passed over in silence is only what
\* is out of reach: an entry, or a whole directory, that cannot be listed
\* (archive.rs:105, 118), a member or entry whose name could not hold a dex, one
\* that has the name of a dex and is none, and one deeper than MaxDepth.
FailsForCause ==
  phase \in {"done", "failed"} =>
    (phase = "failed" <=> (AllDexes = {} \/ \E k \in DOMAIN run.given : Unreadables(k) # {}))

\* The jars the native readers take out of an image are the jars that were
\* packed, byte by byte, whatever the layout, holes and compression; all of
\* them, unless the directory is kept in an ext4 inode and longer than the 56
\* bytes there: then those that begin within it, and no error (ext4.rs:205).
FilesAreWhole ==
  \A r \in read : r.jars = JarsOf(Disk[r.apex].shown)

\* What the native front end makes of a dex file is what the dex says:
\* instructions, jump targets, handlers, lines, members and flags; a line
\* program or a handler list that runs off the file says nothing at all.
NativeIsTheDex ==
  ~ run.text => \A k \in DOMAIN parsed : parsed[k] = Saying(blobs[k].id)

\* What the textual front end makes of the listing is the same, less what the
\* parser cannot say: switch targets, array classes, methods without code.
TextIsTheDex ==
  run.text => \A k \in DOMAIN parsed : parsed[k] = Saying(blobs[k].id)

\* Every run comes to an end, even on an archive that holds itself.
Ends == <>(phase \in {"done", "failed"})
=================================================================================
