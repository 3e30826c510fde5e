----------------------------- MODULE PipelineProofs -----------------------------
(***************************************************************************)
(* Theorems about Pipeline: for any observations, archives and cache       *)
(* names, and any number of runs, crashes and failing writes, the answers  *)
(* of a build come from its own files and a good cached index stays; and,  *)
(* for any index and query, the lookup does what its documentation says.   *)
(***************************************************************************)
EXTENDS Pipeline, TLAPS

-----------------------------------------------------------------------------
(***************************************************************************)
(* The lookup.                                                             *)
(***************************************************************************)

\* Every lock of an answer is taken at a candidate.
LEMMA AnswersAreTaken ==
  ASSUME NEW sites, NEW q, NEW answer \in Answers(sites, q)
  PROVE  answer \subseteq LocksIn(sites)
<1> DEFINE some == Candidates(sites, q)
<1>1. LocksIn(some) \subseteq LocksIn(sites)
  BY DEF LocksIn, Candidates
<1>2. \A n : LocksAt(some, n) \subseteq LocksIn(some)
  BY DEF LocksAt, LocksIn
<1> HIDE DEF some
<1>3. answer \in LineAnswers(some, q)
  BY DEF Answers, some
<1>4. answer = {} \/ answer = LocksIn(some) \/ \E n : answer = LocksAt(some, n)
  BY <1>3 DEF LineAnswers
<1> QED
  BY <1>1, <1>2, <1>4

\* The lines of sites are words.
LEMMA LinesAreWords ==
  ASSUME NEW sites, \A a \in sites : IsSite(a), NEW q, NEW n \in Lines(Candidates(sites, q))
  PROVE  n \in Int
BY LookupAssumption DEF Lines, Candidates, IsSite

LEMMA WordOfWord ==
  ASSUME NEW n \in 0 .. WordLimit - 1
  PROVE  AsWord(n) = n
BY LookupAssumption, SMTT(30) DEF AsWord

\* For a line that a word can hold, exact match, window and sole lock are one rule:
\* the nearest lines within the window, or else the sole lock (README.md:95-99).
THEOREM LookupAsDocumented ==
  ASSUME NEW sites, \A a \in sites : IsSite(a), NEW q, IsQuery(q), FitsWord(q)
  PROVE  Answers(sites, q) = Right(sites, q)
<1> DEFINE some == Candidates(sites, q)
           near == {n \in Closest(some, q) : Distance(n, q) <= Fuzz}
<1>1. /\ q.line \in Int /\ AsWord(q.line) = q.line /\ Fuzz \in Nat
      /\ \A n \in Lines(some) : n \in Int
  BY WordOfWord, LinesAreWords, LookupAssumption DEF IsQuery, FitsWord
<1>2. \A n \in Int : Distance(n, q) \in Nat /\ (Distance(n, q) = 0 <=> n = q.line)
  BY <1>1 DEF Distance
<1>3. \A n : LocksAt(some, n) # {} <=> n \in Lines(some)
  BY DEF LocksAt, Lines
<1> HIDE DEF some
<1>4. CASE q.line \in Lines(some)
  <2>1. \A n \in Lines(some) : Distance(q.line, q) <= Distance(n, q)
    BY <1>1, <1>2
  <2>2. near = {q.line}
    <3>1. q.line \in near
      BY <1>1, <1>2, <1>4, <2>1 DEF Closest
    <3>2. \A n \in near : n = q.line
      <4>1. SUFFICES ASSUME NEW n \in near PROVE n = q.line
        OBVIOUS
      <4>2. n \in Int /\ Distance(n, q) <= Distance(q.line, q)
        BY <1>1, <1>4 DEF Closest
      <4> QED
        BY <1>1, <1>2, <4>2
    <3> QED
      BY <3>1, <3>2
  <2>3. Right(sites, q) = {LocksAt(some, q.line)}
    BY <2>2 DEF Right, some
  <2>4. Answers(sites, q) = {LocksAt(some, q.line)}
    BY <1>1, <1>3, <1>4 DEF Answers, LineAnswers, some
  <2> QED
    BY <2>3, <2>4
<1>5. CASE q.line \notin Lines(some)
  <2>1. near = IF Fuzz > 0 THEN Nearest(some, q) ELSE {}
    <3>1. CASE Fuzz > 0
      <4>1. \A n \in near : n \in Nearest(some, q)
        BY <1>1, <1>2 DEF Closest, Nearest, InWindow
      <4>2. \A n \in Nearest(some, q) : n \in near
        <5>1. SUFFICES ASSUME NEW n \in Nearest(some, q), NEW k \in Lines(some)
                       PROVE  n \in Lines(some) /\ Distance(n, q) <= Fuzz /\ Distance(n, q) <= Distance(k, q)
          BY DEF Closest, Nearest, InWindow
        <5>2. n \in Int /\ k \in Int /\ n \in Lines(some) /\ Distance(n, q) <= Fuzz
          BY <1>1 DEF Nearest, InWindow
        <5>3. CASE k \in InWindow(some, q)
          BY <5>2, <5>3 DEF Nearest
        <5>4. CASE ~ (Distance(k, q) <= Fuzz)
          BY <1>1, <1>2, <5>2, <5>4
        <5> QED
          BY <5>2, <5>3, <5>4 DEF InWindow
      <4> QED
        BY <3>1, <4>1, <4>2
    <3>2. CASE ~ (Fuzz > 0)
      <4>1. \A n \in near : FALSE
        BY <1>1, <1>2, <1>5, <3>2 DEF Closest
      <4> QED
        BY <3>2, <4>1
    <3> QED
      BY <3>1, <3>2
  <2>2. LocksAt(some, AsWord(q.line)) = {}
    BY <1>1, <1>3, <1>5
  <2>3. Answers(sites, q) = IF near # {} THEN {LocksAt(some, n) : n \in near}
                            ELSE IF IfUnique /\ Unanimous(some) THEN {LocksIn(some)}
                            ELSE {{}}
    BY <2>1, <2>2 DEF Answers, LineAnswers, some
  <2> QED
    BY <2>3 DEF Right, some
<1> QED
  BY <1>4, <1>5

-----------------------------------------------------------------------------
(***************************************************************************)
(* Types.                                                                  *)
(***************************************************************************)

\* The answers a group is given are sets of locks of the index at hand.
LEMMA ResolutionTypes ==
  ASSUME NEW g, NEW found \in Resolutions(g), NEW s
  PROVE  LookedUp(found, s) \subseteq LocksIn(AcquiredIn(index))
<1>1. CASE s \in SitesOf(g)
  <2>1. found[s] \in UNION {Answers(AcquiredIn(index), q) : q \in Parsed[s]}
    BY <1>1 DEF Resolutions
  <2>2. found[s] \subseteq LocksIn(AcquiredIn(index))
    BY <2>1, AnswersAreTaken
  <2> QED
    BY <1>1, <2>2 DEF LookedUp, Resolutions
<1>2. CASE s \notin SitesOf(g)
  BY <1>2 DEF LookedUp, Resolutions
<1> QED
  BY <1>1, <1>2

\* Every variable keeps its type.
THEOREM TypeCorrect == Spec => []TypeOK
<1> USE PipelineAssumption
<1>1. Init => TypeOK
  BY DEF Init, TypeOK, Unanswered, NotAvailable, Answer, NoGroup, EmptyDir, Missing, CacheEntry
<1>2. TypeOK /\ [Next]_vars => TypeOK'
  <2> SUFFICES ASSUME TypeOK, [Next]_vars PROVE TypeOK'
    OBVIOUS
  <2> USE DEF TypeOK
  <2>1. CASE UNCHANGED vars
    BY <2>1 DEF vars, progress, B
  <2>2. CASE Start
    BY <2>2 DEF Start, Unanswered, NotAvailable, Answer
  <2>3. CASE NextGroup
    BY <2>3 DEF NextGroup
  <2>4. CASE LastGroup
    BY <2>4 DEF LastGroup
  <2>5. CASE UseDirectory \/ Reuse
    BY <2>5 DEF UseDirectory, Reuse
  <2>6. CASE OpenArchive
    <3>1. group \in Groups /\ group' = group
      BY <2>6 DEF OpenArchive
    <3>2. targets' \subseteq (IF pc' = "unpack" THEN Archive[B'] ELSE {})
      BY <2>6, <3>1 DEF OpenArchive, Skip, B
    <3> QED
      BY <2>6, <3>2 DEF OpenArchive, Skip, Left
  <2>7. CASE Unpack
    <3>1. unpacked' \in [Build -> [File -> {"none", "part", "whole"}]]
      <4>1. B \in Build
        BY <2>7 DEF Unpack, StartFile, EndFile, FailFile, Groups, B
      <4>2. ASSUME NEW f \in File, NEW v \in {"none", "part", "whole"},
                   unpacked' = [unpacked EXCEPT ![B][f] = v]
            PROVE  unpacked' \in [Build -> [File -> {"none", "part", "whole"}]]
        BY <4>1, <4>2
      <4> QED
        BY <2>7, <4>2 DEF Unpack, StartFile, EndFile, FailFile
    <3>2. targets' = targets /\ group' = group /\ pc = "unpack" /\ failed' \subseteq failed \cup targets
      BY <2>7 DEF Unpack, StartFile, EndFile, FailFile, progress
    <3>3. failed' \subseteq File /\ targets' \subseteq Archive[B']
      <4>1. B \in Build /\ B' = B
        BY <3>2 DEF Groups, B
      <4> QED
        BY <3>2, <4>1
    <3>4. UNCHANGED <<pc, todo, group, index, rows, skipped, settings, cache, output>>
      BY <2>7 DEF Unpack, StartFile, EndFile, FailFile, progress
    <3> QED
      BY <3>1, <3>2, <3>3, <3>4
  <2>8. CASE JoinWorkers
    BY <2>8 DEF JoinWorkers, Skip, Left
  <2>9. CASE LoadCache
    <3>1. group \in Groups
      BY <2>9 DEF LoadCache
    <3>2. B \in Build /\ CacheOf(B) \in Build
      BY <3>1 DEF Groups, B, CacheOf
    <3>3. \A c \in CacheEntry : c.files \subseteq File
      BY DEF CacheEntry, NoCache, Unreadable, Cached
    <3> QED
      BY <2>9, <3>2, <3>3 DEF LoadCache, Skip, Left
  <2>10. CASE Analyze
    <3>1. B \in Build /\ Len(settings) \in 1 .. Len(settings) /\ Current \in Setting
      BY <2>10 DEF Analyze, Groups, B, Current
    <3>2. Inputs \subseteq File
      BY <3>1 DEF Inputs
    <3> QED
      BY <2>10, <3>2 DEF Analyze, Skip, Left
  <2>11. CASE StoreCache
    BY <2>11 DEF StoreCache, CacheEntry
  <2>12. CASE CacheStored
    <3>1. Cached(index) \in CacheEntry
      BY DEF CacheEntry
    <3>2. cache' \in [Build -> CacheEntry]
      BY <2>12, <3>1 DEF CacheStored
    <3> QED
      BY <2>12, <3>2 DEF CacheStored
  <2>13. CASE Resolve
    <3>1. PICK found \in Resolutions(group) : rows' = Answered(group, found)
      BY <2>13 DEF Resolve
    <3>2. \A s : LookedUp(found, s) \subseteq Lock
      <4>1. LocksIn(AcquiredIn(index)) \subseteq Lock
        BY DEF LocksIn, AcquiredIn
      <4> QED
        BY <3>1, <4>1, ResolutionTypes
    <3>3. Answered(group, found) \in [Row -> Answer]
      BY <3>2 DEF Answered, Answer
    <3> QED
      BY <2>13, <3>1, <3>3 DEF Resolve
  <2>14. CASE Save
    BY <2>14 DEF Save, Torn, Unanswered, NotAvailable, Answer
  <2>15. CASE Saved
    BY <2>15 DEF Saved, Table
  <2>16. CASE Crash
    BY <2>16 DEF Crash, Running, Unanswered, NotAvailable, Answer
  <2> QED
    BY <2>1, <2>2, <2>3, <2>4, <2>5, <2>6, <2>7, <2>8, <2>9, <2>10, <2>11, <2>12, <2>13, <2>14,
       <2>15, <2>16 DEF Next, Work
<1> QED
  BY <1>1, <1>2, PTL DEF Spec

-----------------------------------------------------------------------------
(***************************************************************************)
(* The cache.                                                              *)
(***************************************************************************)

\* A run that goes on to store an index found none that is good.
StoresOverBad ==
  pc \in {"store", "stored"} => cache[CacheOf(B)].state # "index"

\* A good cached index is never lost or replaced.
THEOREM CacheKept == Spec => CacheIsKept
<1> USE PipelineAssumption
<1>1. Init => StoresOverBad
  BY DEF Init, StoresOverBad
<1>2. TypeOK /\ StoresOverBad /\ [Next]_vars => StoresOverBad'
  <2> SUFFICES ASSUME TypeOK, StoresOverBad, [Next]_vars PROVE StoresOverBad'
    OBVIOUS
  <2> USE DEF StoresOverBad, B, CacheOf
  <2>1. CASE UNCHANGED vars
    BY <2>1 DEF vars, progress
  <2>2. CASE Analyze
    BY <2>2 DEF Analyze, Skip, Readable
  <2>3. CASE StoreCache
    <3>1. CacheOf(B) \in Build
      BY <2>3 DEF StoreCache, TypeOK, Groups
    <3> QED
      BY <2>3, <3>1 DEF StoreCache, TypeOK, Unreadable
  <2>4. CASE Start \/ NextGroup \/ LastGroup \/ UseDirectory \/ Reuse \/ OpenArchive \/ JoinWorkers
             \/ LoadCache \/ CacheStored \/ Resolve \/ Save \/ Saved \/ Crash
    BY <2>4 DEF Start, NextGroup, LastGroup, UseDirectory, Reuse, OpenArchive, JoinWorkers, LoadCache,
       CacheStored, Resolve, Save, Saved, Crash, Skip
  <2>5. CASE Unpack
    BY <2>5 DEF Unpack, StartFile, EndFile, FailFile, progress
  <2> QED
    BY <2>1, <2>2, <2>3, <2>4, <2>5 DEF Next, Work
<1>3. TypeOK /\ StoresOverBad /\ [Next]_vars
        => \A b \in Build : cache[b].state = "index" => cache'[b] = cache[b]
  <2> SUFFICES ASSUME TypeOK, StoresOverBad, [Next]_vars, NEW b \in Build,
                      cache[b].state = "index"
               PROVE  cache'[b] = cache[b]
    OBVIOUS
  <2>1. CASE StoreCache
    BY <2>1 DEF StoreCache, StoresOverBad, TypeOK
  <2>2. CASE CacheStored
    BY <2>2 DEF CacheStored, StoresOverBad, TypeOK
  <2>3. CASE UNCHANGED cache
    BY <2>3
  <2> QED
    BY <2>1, <2>2, <2>3 DEF Next, Work, vars, Start, NextGroup, LastGroup, UseDirectory, Reuse, OpenArchive,
       Unpack, StartFile, EndFile, FailFile, JoinWorkers, LoadCache, Analyze, Resolve, Save,
       Saved, Crash
<1> QED
  BY <1>1, <1>2, <1>3, TypeCorrect, PTL DEF Spec, CacheIsKept

-----------------------------------------------------------------------------
(***************************************************************************)
(* Where answers come from.                                                *)
(***************************************************************************)
OfTheBuild(answers) ==
  \A r \in Row :
    answers[r].blocked \cup answers[r].blocking \subseteq LocksIn(AcquiredIn(FilesOf(BuildOf[r])))

\* Files, caches, the index at hand and the answers all keep to their build.
Provenance ==
  /\ \A b \in Build : \A f \in File : unpacked[b][f] # "none" => f \in Archive[b]
  /\ \A b \in Build : cache[CacheOf(b)].files \subseteq FilesOf(b)
  /\ pc \in {"store", "stored", "resolve"} => index \subseteq FilesOf(B)
  /\ OfTheBuild(rows)
  /\ OfTheBuild(output.rows)

\* No answer comes from the files of another build.
THEOREM AnswersStayInTheBuild == Spec => []AnswersAreOfTheBuild
<1> USE PipelineAssumption
<1>1. Init => Provenance
  BY DEF Init, Provenance, OfTheBuild, Unanswered, NotAvailable, EmptyDir, Missing, NoCache,
     Unreadable, CacheOf
<1>2. TypeOK /\ (OneNameEach => Provenance) /\ [Next]_vars => (OneNameEach => Provenance)'
  <2> SUFFICES ASSUME OneNameEach, TypeOK, Provenance, [Next]_vars PROVE Provenance'
    BY DEF OneNameEach
  <2>1. CASE UNCHANGED vars
    BY <2>1 DEF vars, progress, Provenance, OfTheBuild, CacheOf, B
  <2>2. CASE Start
    BY <2>2 DEF Start, Provenance, OfTheBuild, Unanswered, NotAvailable, CacheOf
  <2>3. CASE NextGroup \/ LastGroup \/ UseDirectory \/ Reuse \/ OpenArchive \/ JoinWorkers \/ Crash
    BY <2>3 DEF NextGroup, LastGroup, UseDirectory, Reuse, OpenArchive, JoinWorkers, Crash, Skip, Provenance,
       OfTheBuild, CacheOf, Unanswered, NotAvailable
  <2>4. CASE Unpack
    <3>1. \A b \in Build : \A f \in File : unpacked'[b][f] # "none" => f \in Archive[b]
      <4> SUFFICES ASSUME NEW b \in Build, NEW f \in File, unpacked'[b][f] # "none"
                   PROVE  f \in Archive[b]
        OBVIOUS
      <4>1. CASE unpacked' = unpacked
        BY <4>1 DEF Provenance
      <4>2. ASSUME NEW g \in Archive[B], NEW v, unpacked' = [unpacked EXCEPT ![B][g] = v]
            PROVE  f \in Archive[b]
        BY <4>2 DEF Provenance, TypeOK
      <4> QED
        BY <2>4, <4>1, <4>2 DEF Unpack, StartFile, EndFile, FailFile, TypeOK
    <3>2. pc' \notin {"store", "stored", "resolve"} /\ UNCHANGED <<cache, rows, output>>
      BY <2>4 DEF Unpack, StartFile, EndFile, FailFile, progress
    <3> QED
      BY <3>1, <3>2 DEF Provenance, OfTheBuild, CacheOf
  <2>5. CASE LoadCache
    <3>1. B \in Build
      BY <2>5 DEF LoadCache, TypeOK, Groups, B
    <3> QED
      BY <2>5, <3>1 DEF LoadCache, Provenance, OfTheBuild, CacheOf, B
  <2>6. CASE Analyze
    <3>1. B \in Build
      BY <2>6 DEF Analyze, TypeOK, Groups, B
    <3>2. index' \subseteq FilesOf(B)
      <4>1. Current \in Setting
        BY <2>6 DEF Analyze, TypeOK, Current
      <4>2. Inputs \subseteq Given(B, Current)
        BY <3>1 DEF Provenance, Inputs, Given, Dest
      <4> QED
        BY <2>6, <4>1, <4>2 DEF Analyze, FilesOf
    <3>3. UNCHANGED <<group, unpacked, cache, rows, output>>
      BY <2>6 DEF Analyze
    <3> QED
      BY <3>2, <3>3 DEF Provenance, OfTheBuild, CacheOf, B
  <2>7. CASE StoreCache
    <3>1. \A b \in Build : cache'[CacheOf(b)].files \subseteq FilesOf(b)
      <4> SUFFICES ASSUME NEW b \in Build PROVE cache'[CacheOf(b)].files \subseteq FilesOf(b)
        OBVIOUS
      <4>1. CacheOf(b) \in Build /\ cache[CacheOf(b)].files \subseteq FilesOf(b)
        BY DEF CacheOf, Provenance
      <4>2. cache'[CacheOf(b)] \in {cache[CacheOf(b)], Unreadable}
        BY <2>7, <4>1 DEF StoreCache, TypeOK
      <4>3. Unreadable.files = {}
        BY DEF Unreadable
      <4> QED
        BY <4>1, <4>2, <4>3
    <3>2. pc' = "stored" /\ pc = "store" /\ UNCHANGED <<group, index, unpacked, rows, output>>
      BY <2>7 DEF StoreCache
    <3> QED
      BY <3>1, <3>2 DEF Provenance, OfTheBuild, CacheOf, B
  <2>8. CASE CacheStored
    <3>1. B \in Build /\ index \subseteq FilesOf(B)
      BY <2>8 DEF CacheStored, TypeOK, Groups, B, Provenance
    <3>2. \A b \in Build : cache'[CacheOf(b)].files \subseteq FilesOf(b)
      <4> SUFFICES ASSUME NEW b \in Build PROVE cache'[CacheOf(b)].files \subseteq FilesOf(b)
        OBVIOUS
      <4>1. CacheOf(b) \in Build /\ CacheOf(B) \in Build /\ cache[CacheOf(b)].files \subseteq FilesOf(b)
        BY <3>1 DEF CacheOf, Provenance
      <4>2. cache' = cache \/ cache' = [cache EXCEPT ![CacheOf(B)] = Cached(index)]
        BY <2>8 DEF CacheStored
      <4>3. CASE b = B
        <5>1. cache'[CacheOf(b)] \in {cache[CacheOf(b)], Cached(index)}
          BY <4>1, <4>2 DEF TypeOK
        <5>2. Cached(index).files \subseteq FilesOf(b)
          BY <3>1, <4>3 DEF Cached
        <5> QED
          BY <4>1, <5>1, <5>2
      <4>4. CASE b # B
        <5>1. CacheOf(b) # CacheOf(B)
          BY <3>1, <4>4 DEF OneNameEach, CacheOf
        <5>2. cache'[CacheOf(b)] = cache[CacheOf(b)]
          BY <4>1, <4>2, <5>1 DEF TypeOK
        <5> QED
          BY <4>1, <5>2
      <4> QED
        BY <4>3, <4>4
    <3>3. pc' = "resolve" /\ pc = "stored" /\ UNCHANGED <<group, index, unpacked, rows, output>>
      BY <2>8 DEF CacheStored
    <3> QED
      BY <3>2, <3>3 DEF Provenance, OfTheBuild, CacheOf, B
  <2>9. CASE Resolve
    <3>1. \A r \in RowsOf(group) : FilesOf(BuildOf[r]) = FilesOf(B)
      BY DEF RowsOf, B
    <3> DEFINE Own(b) == LocksIn(AcquiredIn(FilesOf(b)))
    <3>2. PICK found \in Resolutions(group) : rows' = Answered(group, found)
      BY <2>9 DEF Resolve
    <3>5. \A s : LookedUp(found, s) \subseteq Own(B)
      <4>1. index \subseteq FilesOf(B)
        BY <2>9 DEF Resolve, Provenance
      <4>2. LocksIn(AcquiredIn(index)) \subseteq Own(B)
        BY <4>1 DEF LocksIn, AcquiredIn
      <4> HIDE DEF Own
      <4> QED
        BY <3>2, <4>2, ResolutionTypes
    <3>3. ASSUME NEW r \in Row
          PROVE  rows'[r].blocked \cup rows'[r].blocking \subseteq Own(BuildOf[r])
      <4>1. rows'[r] = IF r \in RowsOf(group)
                         THEN [blocked |-> LookedUp(found, BlockedSite[r]),
                               blocking |-> LookedUp(found, BlockingSite[r])]
                         ELSE rows[r]
        BY <3>2 DEF Answered
      <4>2. CASE r \in RowsOf(group)
        BY <3>1, <3>5, <4>1, <4>2
      <4>3. CASE r \notin RowsOf(group)
        BY <4>1, <4>3 DEF Provenance, OfTheBuild
      <4> QED
        BY <4>2, <4>3
    <3>4. OfTheBuild(rows')
      BY <3>3 DEF OfTheBuild
    <3> QED
      BY <2>9, <3>4 DEF Resolve, Provenance, OfTheBuild, CacheOf
  <2>10. CASE Save
    BY <2>10 DEF Save, Torn, Unanswered, NotAvailable, Provenance, OfTheBuild, CacheOf
  <2>11. CASE Saved
    BY <2>11 DEF Saved, Table, Provenance, OfTheBuild, CacheOf
  <2> QED
    BY <2>1, <2>2, <2>3, <2>4, <2>5, <2>6, <2>7, <2>8, <2>9, <2>10, <2>11 DEF Next, Work
<1>3. (OneNameEach => Provenance) => AnswersAreOfTheBuild
  BY DEF Provenance, OfTheBuild, AnswersAreOfTheBuild
<1> QED
  BY <1>1, <1>2, <1>3, TypeCorrect, PTL DEF Spec
-----------------------------------------------------------------------------
(***************************************************************************)
(* What the answers are.  Every index at hand or in the cache holds what   *)
(* the options of some run give: the files of a directory, or all that     *)
(* was unpacked, which does not change any more once there is any.         *)
(***************************************************************************)
WholeIn(b) == {f \in File : unpacked[b][f] = "whole"}

ZipUsed == \E i \in DOMAIN settings : settings[i].zip

FromDirectory(b, files) ==
  \E i \in DOMAIN settings : ~ settings[i].zip /\ files = Directory[b][settings[i].scope]

FromArchive(b, files) ==
  /\ ZipUsed
  /\ files = WholeIn(b) /\ files # {}
  /\ ~ (pc = "unpack" /\ B = b)

FromOptions(b, files) == FromDirectory(b, files) \/ FromArchive(b, files)

GroupOf(r) == <<BuildOf[r], DeviceOf[r]>>

RowRight(r, answer, files) ==
  /\ RightFor(answer.blocked, files, BlockedSite[r])
  /\ RightFor(answer.blocking, files, BlockingSite[r])

\* A row is done if its group was given up, has no site to look up, or is answered.
RowDone(r) ==
  \/ GroupOf(r) \in skipped
  \/ ~ Resolvable(BlockedSite[r]) /\ ~ Resolvable(BlockingSite[r]) /\ rows[r] = NotAvailable
  \/ \E files \in SUBSET File : FromOptions(BuildOf[r], files) /\ RowRight(r, rows[r], files)

AtWork == pc \in {"artifacts", "unpack", "index", "store", "stored", "resolve"}

Pending(r) == GroupOf(r) \in todo \/ (AtWork /\ GroupOf(r) = group)

CacheSound ==
  \A b \in Build : cache[CacheOf(b)].state = "index" => FromOptions(b, cache[CacheOf(b)].files)

IndexSound == pc \in {"store", "stored", "resolve"} => FromOptions(B, index)

RowsSound ==
  pc \notin {"off", "down"} =>
    \A r \in Row : IF Pending(r) THEN rows[r] = NotAvailable ELSE RowDone(r)

TableSound ==
  /\ AtWork => group \notin todo
  /\ pc \in {"save", "saving"} /\ group = NoGroup => todo = {}
  /\ pc = "done" => todo = {} /\ output.rows = rows

UnpackedSound == \A b \in Build : \A f \in File : unpacked[b][f] # "none" => f \in Archive[b]

CompleteInv == CacheSound /\ IndexSound /\ RowsSound /\ TableSound /\ UnpackedSound

\* The actions that change neither the options nor the disk, nor begin to unpack.
Quiet == UNCHANGED <<settings, unpacked>> /\ pc' # "unpack"

\* What is from the options of some run stays so.
LEMMA OptionsKept ==
  ASSUME TypeOK, [Next]_vars, NEW b \in Build, NEW files, FromOptions(b, files)
  PROVE  FromOptions(b, files)'
<1>1. CASE Quiet
  BY <1>1 DEF Quiet, FromOptions, FromDirectory, FromArchive, ZipUsed, WholeIn
<1>2. CASE Start
  <2>1. PICK s \in Setting : settings' = Append(settings, s)
    BY <1>2 DEF Start
  <2>2. \A i \in DOMAIN settings : i \in DOMAIN settings' /\ settings'[i] = settings[i]
    BY <2>1 DEF TypeOK
  <2>3. unpacked' = unpacked /\ pc' # "unpack"
    BY <1>2 DEF Start
  <2> QED
    BY <2>2, <2>3 DEF FromOptions, FromDirectory, FromArchive, ZipUsed, WholeIn
<1>3. CASE OpenArchive
  <2>1. settings' = settings /\ unpacked' = unpacked /\ B' = B
    BY <1>3 DEF OpenArchive, B
  <2>2. b = B => WholeIn(b) = {}
    BY <1>3 DEF OpenArchive, NonEmpty, Dest, WholeIn
  <2> QED
    BY <2>1, <2>2 DEF FromOptions, FromDirectory, FromArchive, ZipUsed, WholeIn
<1>4. CASE Unpack
  <2>1. pc = "unpack" /\ pc' = pc /\ settings' = settings /\ group' = group
    BY <1>4 DEF Unpack, StartFile, EndFile, FailFile, progress
  <2>2. B' = B /\ B \in Build
    <3>1. group \in Groups
      BY <2>1 DEF TypeOK
    <3> QED
      BY <2>1, <3>1, PipelineAssumption DEF B, Groups
  <2>3. b # B => unpacked'[b] = unpacked[b]
    BY <1>4, <2>2 DEF Unpack, StartFile, EndFile, FailFile, TypeOK
  <2> QED
    BY <2>1, <2>2, <2>3 DEF FromOptions, FromDirectory, FromArchive, ZipUsed, WholeIn
<1>5. CASE UNCHANGED vars
  BY <1>5 DEF vars, progress, FromOptions, FromDirectory, FromArchive, ZipUsed, WholeIn, B
<1>6. ASSUME Next, ~ Start, ~ OpenArchive, ~ Unpack PROVE Quiet
  BY <1>6 DEF Next, Work, Quiet, NextGroup, LastGroup, UseDirectory, Reuse, JoinWorkers, LoadCache, Analyze,
     StoreCache, CacheStored, Resolve, Save, Saved, Crash, Skip
<1> QED
  BY <1>1, <1>2, <1>3, <1>4, <1>5, <1>6

LEMMA RowDoneKept ==
  ASSUME TypeOK, [Next]_vars, NEW r \in Row, RowDone(r), rows'[r] = rows[r], skipped \subseteq skipped'
  PROVE  RowDone(r)'
<1>1. BuildOf[r] \in Build
  BY PipelineAssumption
<1>2. CASE GroupOf(r) \in skipped
  BY <1>2 DEF RowDone, GroupOf
<1>3. CASE ~ Resolvable(BlockedSite[r]) /\ ~ Resolvable(BlockingSite[r]) /\ rows[r] = NotAvailable
  BY <1>3 DEF RowDone
<1>4. ASSUME NEW files \in SUBSET File, FromOptions(BuildOf[r], files), RowRight(r, rows[r], files)
      PROVE  RowDone(r)'
  <2>1. FromOptions(BuildOf[r], files)'
    BY <1>1, <1>4, OptionsKept
  <2>2. RowRight(r, rows'[r], files)
    BY <1>4
  <2> QED
    BY <2>1, <2>2 DEF RowDone
<1> QED
  BY <1>2, <1>3, <1>4 DEF RowDone

LEMMA CacheStep ==
  ASSUME TypeOK, CacheSound, IndexSound, OneNameEach, [Next]_vars
  PROVE  CacheSound'
<1>1. SUFFICES ASSUME NEW b \in Build, NEW entry,
                      cache'[CacheName[b]] = entry, entry.state = "index"
               PROVE  FromOptions(b, entry.files)'
  BY DEF CacheSound, CacheOf
<1>2. CacheName[b] \in Build
  BY PipelineAssumption
<1>3. CASE cache[CacheName[b]] = entry
  <2>1. FromOptions(b, entry.files)
    BY <1>1, <1>3 DEF CacheSound, CacheOf
  <2> QED
    BY <2>1, OptionsKept
<1>4. ASSUME CacheStored, cache[CacheName[b]] # entry
      PROVE  FromOptions(b, entry.files)'
  <2>1. pc = "stored" /\ group \in Groups /\ cache' = [cache EXCEPT ![CacheOf(B)] = Cached(index)]
    BY <1>1, <1>4 DEF CacheStored, TypeOK
  <2>2. B \in Build /\ CacheOf(B) \in Build
    BY <2>1, PipelineAssumption DEF Groups, B, CacheOf
  <2>3. b = B /\ entry = Cached(index)
    BY <1>1, <1>2, <1>4, <2>1, <2>2 DEF TypeOK, OneNameEach, CacheOf
  <2>4. entry.files = index
    BY <2>3 DEF Cached
  <2>5. FromOptions(b, entry.files)
    BY <2>1, <2>3, <2>4 DEF IndexSound
  <2> QED
    BY <2>5, OptionsKept
<1>5. CASE StoreCache
  <2>1. cache' \in {cache, [cache EXCEPT ![CacheOf(B)] = Unreadable]}
    BY <1>5 DEF StoreCache
  <2>2. entry = cache[CacheName[b]] \/ entry = Unreadable
    BY <1>1, <1>2, <2>1 DEF TypeOK
  <2> QED
    BY <1>1, <1>3, <2>2 DEF Unreadable
<1>6. ASSUME ~ StoreCache, ~ CacheStored PROVE cache' = cache
  BY <1>6 DEF Next, Work, vars, Start, NextGroup, LastGroup, UseDirectory, Reuse, OpenArchive, Unpack,
     StartFile, EndFile, FailFile, JoinWorkers, LoadCache, Analyze, Resolve, Save, Saved, Crash
<1> QED
  BY <1>1, <1>3, <1>4, <1>5, <1>6

LEMMA IndexStep ==
  ASSUME TypeOK, CacheSound, IndexSound, [Next]_vars
  PROVE  IndexSound'
<1>1. CASE pc' \notin {"store", "stored", "resolve"}
  BY <1>1 DEF IndexSound
<1>2. CASE pc \in {"store", "stored", "resolve"} /\ index' = index /\ group' = group
  <2>1. B' = B /\ B \in Build
    <3>1. group \in Groups
      BY <1>2 DEF TypeOK
    <3> QED
      BY <1>2, <3>1, PipelineAssumption DEF B, Groups
  <2>2. PICK b : b = B
    OBVIOUS
  <2>3. PICK some : some = index
    OBVIOUS
  <2>4. b \in Build /\ FromOptions(b, some)
    BY <1>2, <2>1, <2>2, <2>3 DEF IndexSound
  <2>5. FromOptions(b, some)'
    BY <2>4, OptionsKept
  <2> QED
    BY <1>2, <2>1, <2>2, <2>3, <2>5 DEF IndexSound
<1>3. CASE LoadCache /\ pc' = "resolve"
  <2>1. B' = B /\ B \in Build /\ index' = cache[CacheOf(B)].files /\ cache[CacheOf(B)].state = "index"
    <3>1. group \in Groups
      BY <1>3 DEF LoadCache, TypeOK
    <3> QED
      BY <1>3, <3>1, PipelineAssumption DEF LoadCache, B, Groups, Readable, Skip
  <2>2. PICK b : b = B
    OBVIOUS
  <2>3. PICK some : some = index'
    OBVIOUS
  <2>4. b \in Build /\ FromOptions(b, some)
    BY <2>1, <2>2, <2>3 DEF CacheSound
  <2>5. FromOptions(b, some)'
    BY <2>4, OptionsKept
  <2> QED
    BY <2>1, <2>2, <2>3, <2>5 DEF IndexSound
<1>4. CASE Analyze /\ pc' = "store"
  <2>1. /\ group \in Groups /\ group' = group /\ settings' = settings /\ unpacked' = unpacked
        /\ pc = "index" /\ index' = Inputs /\ index' # {}
    BY <1>4 DEF Analyze, TypeOK, Skip
  <2>2. B' = B /\ B \in Build
    BY <2>1, PipelineAssumption DEF B, Groups
  <2>3. Len(settings) \in DOMAIN settings /\ Current = settings[Len(settings)]
    BY <2>1 DEF TypeOK, Current
  <2>4. CASE Current.zip
    <3>1. index' = WholeIn(B) /\ WholeIn(B)' = WholeIn(B) /\ ZipUsed'
      BY <2>1, <2>2, <2>3, <2>4 DEF Inputs, Dest, WholeIn, ZipUsed
    <3> QED
      BY <1>4, <2>1, <2>2, <3>1 DEF IndexSound, FromOptions, FromArchive
  <2>5. CASE ~ Current.zip
    <3>1. index' = Directory[B][Current.scope]
      BY <2>1, <2>5 DEF Inputs
    <3> QED
      BY <2>1, <2>2, <2>3, <2>5, <3>1 DEF IndexSound, FromOptions, FromDirectory
  <2> QED
    BY <2>4, <2>5
<1>5. ASSUME pc' \in {"store", "stored", "resolve"}, ~ (LoadCache /\ pc' = "resolve"), ~ (Analyze /\ pc' = "store")
      PROVE  pc \in {"store", "stored", "resolve"} /\ index' = index /\ group' = group
  BY <1>5 DEF Next, Work, vars, progress, Start, NextGroup, LastGroup, UseDirectory, Reuse, OpenArchive, Unpack,
     StartFile, EndFile, FailFile, JoinWorkers, LoadCache, Analyze, StoreCache, CacheStored, Resolve, Save, Saved, Crash, Skip
<1> QED
  BY <1>1, <1>2, <1>3, <1>4, <1>5

\* What a group is told of a site is right for the index at hand.
LEMMA ResolvedRight ==
  ASSUME TypeOK, NEW g, NEW found \in Resolutions(g), NEW r \in RowsOf(g), NEW s \in {BlockedSite[r], BlockingSite[r]}
  PROVE  RightFor(LookedUp(found, s), index, s)
<1>1. r \in Row /\ s \in Site /\ DOMAIN found = SitesOf(g)
  BY PipelineAssumption DEF RowsOf, Resolutions
<1>2. CASE Resolvable(s)
  <2>1. s \in SitesOf(g)
    BY <1>1, <1>2 DEF SitesOf
  <2>2. found[s] \in UNION {Answers(AcquiredIn(index), q) : q \in Parsed[s]}
    BY <2>1 DEF Resolutions
  <2>3. PICK q \in Parsed[s] : found[s] \in Answers(AcquiredIn(index), q)
    BY <2>2
  <2>4. IsQuery(q)
    BY <1>1, PipelineAssumption
  <2>5. \A a \in AcquiredIn(index) : IsSite(a)
    BY PipelineAssumption DEF AcquiredIn, TypeOK
  <2>6. FitsWord(q) => found[s] \in Right(AcquiredIn(index), q)
    BY <2>3, <2>4, <2>5, LookupAsDocumented
  <2> QED
    BY <1>1, <1>2, <2>1, <2>6 DEF RightFor, LookedUp
<1>3. CASE ~ Resolvable(s)
  BY <1>1, <1>3 DEF RightFor, LookedUp, SitesOf
<1> QED
  BY <1>2, <1>3
\* The rows of a group that is neither given up nor answered are not done, all others are.
LEMMA RowsStep ==
  ASSUME TypeOK, IndexSound, RowsSound, TableSound, [Next]_vars
  PROVE  RowsSound'
<1> DEFINE Quieter == /\ todo' = todo /\ rows' = rows
                      /\ pc \notin {"off", "down"}
                      /\ IF AtWork THEN AtWork' /\ group' = group ELSE ~ AtWork'
<1>1. SUFFICES ASSUME NEW r \in Row, pc' \notin {"off", "down"}
               PROVE  IF Pending(r)' THEN rows'[r] = NotAvailable ELSE RowDone(r)'
  BY DEF RowsSound, NotAvailable
<1>2. CASE Quieter /\ skipped' = skipped
  <2>1. Pending(r)' <=> Pending(r)
    BY <1>2 DEF Pending, AtWork, GroupOf
  <2>2. rows'[r] = rows[r] /\ skipped \subseteq skipped'
    BY <1>2
  <2>3. RowDone(r) => RowDone(r)'
    BY <2>2, RowDoneKept
  <2> QED
    BY <1>2, <2>1, <2>2, <2>3 DEF RowsSound
<1>3. CASE pc = "off" \/ pc = "down"
  <2>1. Start
    BY <1>1, <1>3 DEF Next, Work, vars, progress, NextGroup, LastGroup, UseDirectory, Reuse, OpenArchive, Unpack,
       StartFile, EndFile, FailFile, JoinWorkers, LoadCache, Analyze, StoreCache, CacheStored, Resolve, Save,
       Saved, Crash, Running
  <2> QED
    BY <2>1 DEF Start, Pending, GroupOf, Groups, Unanswered
<1>4. CASE Start
  BY <1>4 DEF Start, Pending, GroupOf, Groups, Unanswered
<1>5. CASE NextGroup
  <2>1. PICK g \in todo : /\ todo' = todo \ {g}
                          /\ IF SitesOf(g) = {}
                               THEN group' = NoGroup /\ pc' = "next"
                               ELSE group' = g /\ pc' = "artifacts"
    BY <1>5 DEF NextGroup
  <2>2. pc = "next" /\ rows' = rows /\ skipped' = skipped
    BY <1>5 DEF NextGroup
  <2>3. CASE Pending(r)'
    BY <2>1, <2>2, <2>3 DEF Pending, AtWork, GroupOf, RowsSound
  <2>4. CASE ~ Pending(r)' /\ Pending(r)
    <3>1. GroupOf(r) = g /\ SitesOf(g) = {} /\ rows[r] = NotAvailable
      BY <2>1, <2>2, <2>4 DEF Pending, AtWork, GroupOf, RowsSound
    <3>2. r \in RowsOf(g)
      BY <3>1 DEF GroupOf, RowsOf
    <3>3. ~ Resolvable(BlockedSite[r]) /\ ~ Resolvable(BlockingSite[r])
      BY <3>1, <3>2 DEF SitesOf
    <3> QED
      BY <2>2, <2>4, <3>1, <3>3 DEF RowDone, NotAvailable, Resolvable
  <2>5. CASE ~ Pending(r)' /\ ~ Pending(r)
    <3>1. RowDone(r)
      BY <2>2, <2>5 DEF RowsSound
    <3> QED
      BY <2>2, <2>5, <3>1, RowDoneKept
  <2> QED
    BY <2>3, <2>4, <2>5
<1>6. CASE AtWork /\ Skip /\ rows' = rows /\ group' = group
  <2>1. pc' = "next" /\ todo' = todo /\ skipped' = skipped \cup {group}
    BY <1>6 DEF Skip, Left
  <2>2. CASE Pending(r)'
    BY <1>6, <2>1, <2>2 DEF Pending, AtWork, GroupOf, RowsSound
  <2>3. CASE ~ Pending(r)' /\ GroupOf(r) = group
    BY <2>1, <2>3 DEF RowDone, GroupOf
  <2>4. CASE ~ Pending(r)' /\ GroupOf(r) # group
    <3>1. RowDone(r)
      BY <1>6, <2>1, <2>4 DEF RowsSound, Pending, AtWork, GroupOf
    <3> QED
      BY <1>6, <2>1, <2>4, <3>1, RowDoneKept
  <2> QED
    BY <2>2, <2>3, <2>4
<1>7. CASE Resolve
  <2>1. PICK found \in Resolutions(group) : rows' = Answered(group, found)
    BY <1>7 DEF Resolve
  <2>2. pc = "resolve" /\ pc' = "save" /\ todo' = todo /\ group' = group /\ skipped' = skipped
    BY <1>7 DEF Resolve
  <2>3. CASE GroupOf(r) = group
    <3>1. r \in RowsOf(group) /\ BuildOf[r] = B /\ BuildOf[r] \in Build
      BY <2>3, PipelineAssumption DEF RowsOf, GroupOf, B
    <3>2. ~ Pending(r)'
      BY <2>2, <2>3 DEF Pending, AtWork, GroupOf, TableSound
    <3>3. PICK files : files = index
      OBVIOUS
    <3>4. FromOptions(BuildOf[r], files) /\ files \in SUBSET File
      BY <2>2, <3>1, <3>3 DEF IndexSound, TypeOK
    <3>5. FromOptions(BuildOf[r], files)'
      BY <3>1, <3>4, OptionsKept
    <3>6. rows'[r] = [blocked |-> LookedUp(found, BlockedSite[r]), blocking |-> LookedUp(found, BlockingSite[r])]
      BY <2>1, <3>1 DEF Answered
    <3>7. /\ RightFor(LookedUp(found, BlockedSite[r]), files, BlockedSite[r])
          /\ RightFor(LookedUp(found, BlockingSite[r]), files, BlockingSite[r])
      BY <2>1, <3>1, <3>3, ResolvedRight
    <3>8. RowRight(r, rows'[r], files)
      BY <3>6, <3>7 DEF RowRight
    <3> QED
      BY <3>2, <3>4, <3>5, <3>8 DEF RowDone
  <2>4. CASE GroupOf(r) # group
    <3>1. rows'[r] = rows[r]
      BY <2>1, <2>4 DEF Answered, RowsOf, GroupOf
    <3>2. Pending(r)' <=> Pending(r)
      BY <2>2, <2>4 DEF Pending, AtWork, GroupOf
    <3>3. RowDone(r) => RowDone(r)'
      BY <2>2, <3>1, RowDoneKept
    <3> QED
      BY <2>2, <3>1, <3>2, <3>3 DEF RowsSound
  <2> QED
    BY <2>3, <2>4
<1>8. ASSUME ~ Start, ~ NextGroup, ~ Resolve, ~ (AtWork /\ Skip /\ rows' = rows /\ group' = group)
      PROVE  (pc \in {"off", "down"}) \/ (Quieter /\ skipped' = skipped)
  BY <1>1, <1>8 DEF Next, Work, vars, progress, LastGroup, UseDirectory, Reuse, OpenArchive, Unpack,
     StartFile, EndFile, FailFile, JoinWorkers, LoadCache, Analyze, StoreCache, CacheStored, Save,
     Saved, Crash, AtWork
<1> QED
  BY <1>1, <1>2, <1>3, <1>4, <1>5, <1>6, <1>7, <1>8
LEMMA TableStep ==
  ASSUME TypeOK, TableSound, [Next]_vars
  PROVE  TableSound'
<1>1. AtWork' => group' \notin todo'
  <2>1. CASE NextGroup
    BY <2>1 DEF NextGroup, AtWork
  <2>2. ASSUME ~ NextGroup, AtWork' PROVE AtWork /\ group' = group /\ todo' = todo
    BY <2>2 DEF Next, Work, vars, progress, Start, LastGroup, UseDirectory, Reuse, OpenArchive, Unpack,
       StartFile, EndFile, FailFile, JoinWorkers, LoadCache, Analyze, StoreCache, CacheStored, Resolve, Save,
       Saved, Crash, Skip, AtWork
  <2> QED
    BY <2>1, <2>2 DEF TableSound
<1>2. pc' \in {"save", "saving"} /\ group' = NoGroup => todo' = {}
  <2>1. ~ Resolve \/ group' # NoGroup
    <3>1. \A x, y : <<x, y>> # <<>>
      OBVIOUS
    <3>2. NoGroup \notin Groups
      BY <3>1 DEF Groups, NoGroup
    <3> QED
      BY <3>2 DEF Resolve, TypeOK
  <2> QED
    BY <2>1 DEF TableSound, Next, Work, vars, progress, Start, NextGroup, LastGroup, UseDirectory, Reuse,
       OpenArchive, Unpack, StartFile, EndFile, FailFile, JoinWorkers, LoadCache, Analyze, StoreCache,
       CacheStored, Resolve, Save, Saved, Crash, Skip
<1>3. pc' = "done" => todo' = {} /\ output'.rows = rows'
  <2>1. CASE Saved
    BY <2>1 DEF Saved, TableSound, Table
  <2>2. CASE ~ Saved
    BY <2>2 DEF TableSound, Next, Work, vars, progress, Start, NextGroup, LastGroup, UseDirectory, Reuse,
       OpenArchive, Unpack, StartFile, EndFile, FailFile, JoinWorkers, LoadCache, Analyze, StoreCache,
       CacheStored, Resolve, Save, Crash, Skip
  <2> QED
    BY <2>1, <2>2
<1> QED
  BY <1>1, <1>2, <1>3 DEF TableSound

\* Only entries of its archive are ever unpacked for a build.
LEMMA UnpackedStep ==
  ASSUME TypeOK, UnpackedSound, [Next]_vars
  PROVE  UnpackedSound'
<1>1. SUFFICES ASSUME NEW b \in Build, NEW f \in File, unpacked'[b][f] # "none"
               PROVE  f \in Archive[b]
  BY DEF UnpackedSound
<1>2. CASE unpacked' = unpacked
  BY <1>1, <1>2 DEF UnpackedSound
<1>3. ASSUME NEW g \in Archive[B], NEW v, unpacked' = [unpacked EXCEPT ![B][g] = v]
      PROVE  f \in Archive[b]
  BY <1>1, <1>3 DEF UnpackedSound, TypeOK
<1>4. CASE Unpack
  BY <1>2, <1>3, <1>4 DEF Unpack, StartFile, EndFile, FailFile, TypeOK
<1>5. CASE ~ Unpack
  BY <1>2, <1>5 DEF Next, Work, vars, Start, NextGroup, LastGroup, UseDirectory, Reuse, OpenArchive,
     JoinWorkers, LoadCache, Analyze, StoreCache, CacheStored, Resolve, Save, Saved, Crash
<1> QED
  BY <1>4, <1>5

\* What a row that is done holds when its build is wholly unpacked.
LEMMA DoneIsComplete ==
  ASSUME TypeOK, UnpackedSound, NEW r \in Row, RowDone(r), Sound(BuildOf[r]),
         pc = "done", output.rows = rows
  PROVE  \/ \E i \in DOMAIN settings : Complete(r, Given(BuildOf[r], settings[i]))
         \/ <<BuildOf[r], DeviceOf[r]>> \in skipped
<1>1. CASE GroupOf(r) \in skipped
  BY <1>1 DEF GroupOf
<1>2. CASE ~ Resolvable(BlockedSite[r]) /\ ~ Resolvable(BlockingSite[r]) /\ rows[r] = NotAvailable
  <2>1. 1 \in DOMAIN settings
    BY DEF TypeOK
  <2> QED
    BY <1>2, <2>1 DEF Complete, RightFor, NotAvailable
<1>3. ASSUME NEW files \in SUBSET File, FromOptions(BuildOf[r], files), RowRight(r, rows[r], files)
      PROVE  \E i \in DOMAIN settings : Complete(r, Given(BuildOf[r], settings[i]))
  <2>1. BuildOf[r] \in Build
    BY PipelineAssumption
  <2>2. \E i \in DOMAIN settings : files = Given(BuildOf[r], settings[i])
    <3>1. CASE FromDirectory(BuildOf[r], files)
      BY <3>1 DEF FromDirectory, Given
    <3>2. CASE FromArchive(BuildOf[r], files)
      <4>1. PICK i \in DOMAIN settings : settings[i].zip
        BY <3>2 DEF FromArchive, ZipUsed
      <4>2. \A f \in Archive[BuildOf[r]] : f \in File /\ unpacked[BuildOf[r]][f] = "whole"
        BY <2>1, <4>1, PipelineAssumption DEF Sound, Whole
      <4>3. WholeIn(BuildOf[r]) = Archive[BuildOf[r]]
        BY <2>1, <4>2 DEF WholeIn, UnpackedSound
      <4> QED
        BY <3>2, <4>1, <4>3 DEF FromArchive, Given
    <3> QED
      BY <1>3, <3>1, <3>2 DEF FromOptions
  <2> QED
    BY <1>3, <2>2 DEF RowRight, Complete
<1> QED
  BY <1>1, <1>2, <1>3 DEF RowDone

\* When a run ends, every row that is not of a group given up has right answers from
\* all the files that the options of some run give.
THEOREM AnswersComplete == Spec => []AnswersAreComplete
<1>1. Init => CompleteInv
  BY PipelineAssumption DEF Init, CompleteInv, CacheSound, IndexSound, RowsSound, TableSound, UnpackedSound, AtWork,
     NoCache, Unreadable, CacheOf, EmptyDir
<1>2. TypeOK /\ (OneNameEach => CompleteInv) /\ [Next]_vars => (OneNameEach => CompleteInv)'
  <2> SUFFICES ASSUME TypeOK, OneNameEach, CompleteInv, [Next]_vars PROVE CompleteInv'
    BY DEF OneNameEach
  <2>1. CacheSound /\ IndexSound /\ RowsSound /\ TableSound /\ UnpackedSound
    BY DEF CompleteInv
  <2>2. CacheSound' /\ IndexSound' /\ RowsSound' /\ TableSound' /\ UnpackedSound'
    BY <2>1, CacheStep, IndexStep, RowsStep, TableStep, UnpackedStep
  <2> QED
    BY <2>2 DEF CompleteInv
<1>3. TypeOK /\ (OneNameEach => CompleteInv) => AnswersAreComplete
  <2> SUFFICES ASSUME TypeOK, OneNameEach, CompleteInv, pc = "done", NEW r \in Row, Sound(BuildOf[r])
               PROVE  \/ \E i \in DOMAIN settings : Complete(r, Given(BuildOf[r], settings[i]))
                      \/ <<BuildOf[r], DeviceOf[r]>> \in skipped
    BY DEF AnswersAreComplete
  <2>1. todo = {} /\ output.rows = rows /\ UnpackedSound
    BY DEF CompleteInv, TableSound
  <2>2. RowDone(r)
    BY <2>1 DEF CompleteInv, RowsSound, Pending, AtWork
  <2> QED
    BY <2>1, <2>2, DoneIsComplete
<1> QED
  BY <1>1, <1>2, <1>3, TypeCorrect, PTL DEF Spec
=============================================================================
