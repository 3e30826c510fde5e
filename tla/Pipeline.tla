-------------------------------- MODULE Pipeline --------------------------------
(***************************************************************************)
(* The trace pipeline: observations are grouped by build and device, the   *)
(* archive of each build is unpacked once or its directory taken, its      *)
(* index is built once, the sites of the group are looked up in it, and    *)
(* the table of answers is written again after each group                  *)
(* (src/pipeline.rs, src/artifact.rs, src/resolver.rs, src/csv_io.rs).     *)
(*                                                                         *)
(* What is on disk outlives a run: the unpacked files, the cached indexes  *)
(* and the output.  A run may die at any step, in the middle of a write    *)
(* included, and is then started again over what it left, perhaps with     *)
(* other options.                                                          *)
(***************************************************************************)
EXTENDS Lookup, Sequences

CONSTANTS
  Row,         \* the observations
  Build, Device,
  Site,        \* the sites as they are written in the observations
  Lock,
  File,        \* the jars and apks
  BuildOf, DeviceOf,            \* of each row
  BlockedSite, BlockingSite,    \* the two sites of each row
  Parsed,      \* of each site: its query, if it names a file and a line
  Archive,     \* the files each build's archive holds
  Acquired,    \* the acquisitions in each file
  CacheName,   \* the file name of each build's cached index
  Stale,       \* the names under which another version left its index
  Scope,       \* the values of --scope, none among them
  Directory,   \* the files each build's directory gives for each scope
  Setting,     \* the options runs are given: --zip or not, and a scope
  MaxRuns      \* bound on the number of runs

ASSUME PipelineAssumption ==
  /\ BuildOf \in [Row -> Build] /\ DeviceOf \in [Row -> Device]
  /\ BlockedSite \in [Row -> Site] /\ BlockingSite \in [Row -> Site]
  /\ \A s \in Site : Parsed[s] = {} \/ \E q \in Parsed[s] : Parsed[s] = {q} /\ IsQuery(q)
  /\ Archive \in [Build -> SUBSET File]
  /\ \A f \in File : \A a \in Acquired[f] : IsSite(a) /\ a.lock \in Lock
  /\ CacheName \in [Build -> Build]
  /\ Stale \subseteq Build
  /\ IsFiniteSet(Row)
  /\ Directory \in [Build -> [Scope -> SUBSET File]]
  /\ Setting \subseteq [zip : BOOLEAN, scope : Scope]
  /\ MaxRuns \in Nat

VARIABLES
  pc,        \* where the run is
  todo,      \* the groups still to be resolved
  group,     \* the group at hand: build and device
  targets,   \* the entries found in the archive at hand
  failed,    \* those that could not be extracted
  index,     \* the files the index at hand was built from
  rows,      \* the answers so far
  skipped,   \* the groups given up with an error
  settings,  \* the options of the runs started, the last being those of this run
  unpacked,  \* disk: build -> file -> none, part or whole
  cache,     \* disk: name -> the cached index
  output     \* disk: the answers as written

progress == <<pc, todo, group, targets, failed, index, rows, skipped, settings>>
vars == <<progress, unpacked, cache, output>>

-----------------------------------------------------------------------------
Groups == {<<BuildOf[r], DeviceOf[r]>> : r \in Row}
RowsOf(g) == {r \in Row : <<BuildOf[r], DeviceOf[r]>> = g}
NoGroup == <<>>

\* An answer is the set of locks found at the site; none is "N/A".
NotAvailable == [blocked |-> {}, blocking |-> {}]
Answer == [blocked : SUBSET Lock, blocking : SUBSET Lock]
Unanswered == [r \in Row |-> NotAvailable]
Missing == [state |-> "missing", rows |-> Unanswered]
Torn == [state |-> "torn", rows |-> Unanswered]
Table(answers) == [state |-> "table", rows |-> answers]

NoCache == [state |-> "none", files |-> {}]
Unreadable == [state |-> "unreadable", files |-> {}]   \* cut short, or of another version
Cached(files) == [state |-> "index", files |-> files]
CacheEntry == {NoCache, Unreadable} \cup {Cached(s) : s \in SUBSET File}

EmptyDir == [f \in File |-> "none"]

Init ==
  /\ pc = "off"
  /\ todo = {}
  /\ group = NoGroup
  /\ targets = {}
  /\ failed = {}
  /\ index = {}
  /\ rows = Unanswered
  /\ skipped = {}
  /\ settings = <<>>
  /\ unpacked = [b \in Build |-> EmptyDir]
  /\ cache = [b \in Build |-> IF b \in Stale THEN Unreadable ELSE NoCache]
  /\ output = Missing

-----------------------------------------------------------------------------
(***************************************************************************)
(* A run and its groups, the largest first.                                *)
(***************************************************************************)
Start ==
  /\ pc \in {"off", "done", "down"}
  /\ Len(settings) < MaxRuns
  /\ \E s \in Setting : settings' = Append(settings, s)
  /\ pc' = "next"
  /\ todo' = Groups
  /\ rows' = Unanswered
  /\ skipped' = {}
  /\ group' = NoGroup
  /\ targets' = {} /\ failed' = {} /\ index' = {}
  /\ UNCHANGED <<unpacked, cache, output>>

Resolvable(s) == Parsed[s] # {}

SitesOf(g) == {s \in UNION {{BlockedSite[r], BlockingSite[r]} : r \in RowsOf(g)} : Resolvable(s)}

Largest(g) == \A h \in todo : Cardinality(RowsOf(h)) <= Cardinality(RowsOf(g))

NextGroup ==
  /\ pc = "next"
  /\ \E g \in todo :
       /\ Largest(g)
       /\ todo' = todo \ {g}
       /\ IF SitesOf(g) = {}
            THEN group' = NoGroup /\ pc' = "next"
            ELSE group' = g /\ pc' = "artifacts"
  /\ targets' = {} /\ failed' = {} /\ index' = {}
  /\ UNCHANGED <<rows, skipped, settings, unpacked, cache, output>>

LastGroup ==
  /\ pc = "next"
  /\ todo = {}
  /\ pc' = "save"
  /\ group' = NoGroup
  /\ UNCHANGED <<todo, targets, failed, index, rows, skipped, settings, unpacked, cache, output>>

\* Mutant of Left: a group that failed is tried again.
LeftWithFailed == todo \cup {group}

Left == todo

\* An error is logged and the next group follows.
Skip ==
  /\ pc' = "next"
  /\ todo' = Left
  /\ skipped' = skipped \cup {group}

-----------------------------------------------------------------------------
(***************************************************************************)
(* DirArtifactProvider has the directory of the build already, or the root *)
(* of all; ZipArtifactProvider unpacks an archive.                         *)
(***************************************************************************)
B == group[1]
Current == settings[Len(settings)]
Dest == unpacked[B]
NonEmpty(dir) == \E f \in File : dir[f] # "none"
Whole(b) == \A f \in Archive[b] : unpacked[b][f] = "whole"

UseDirectory ==
  /\ pc = "artifacts"
  /\ ~ Current.zip
  /\ pc' = "index"
  /\ UNCHANGED <<todo, group, targets, failed, index, rows, skipped, settings, unpacked, cache, output>>

\* "already unpacked" (artifact.rs:62)
Reuse ==
  /\ pc = "artifacts"
  /\ Current.zip
  /\ NonEmpty(Dest)
  /\ pc' = "index"
  /\ UNCHANGED <<todo, group, targets, failed, index, rows, skipped, settings, unpacked, cache, output>>

\* The empty directory is made; the archive opens or does not.  An entry that
\* cannot be read while the entries are listed is passed over (`by_index(i).ok()?`).
OpenArchive ==
  /\ pc = "artifacts"
  /\ Current.zip
  /\ ~ NonEmpty(Dest)
  /\ \/ pc' = "unpack" /\ targets' \in SUBSET Archive[B] /\ UNCHANGED <<todo, skipped>>
     \/ Skip /\ targets' = {}
  /\ UNCHANGED <<group, failed, index, rows, settings, unpacked, cache, output>>

Writing(f) == Dest[f] = "part" /\ f \notin failed

\* The workers run in parallel: an entry is decoded and its file created,
StartFile(f) ==
  /\ pc = "unpack"
  /\ f \in targets \ failed /\ Dest[f] = "none"
  /\ unpacked' = [unpacked EXCEPT ![B][f] = "part"]
  /\ UNCHANGED <<progress, cache, output>>

\* and its bytes written, or not all of them.
EndFile(f) ==
  /\ pc = "unpack"
  /\ f \in targets /\ Writing(f)
  /\ unpacked' = [unpacked EXCEPT ![B][f] = "whole"]
  /\ UNCHANGED <<progress, cache, output>>

\* An entry that does not decode leaves no file, a write that fails leaves half of
\* one; those not started may never be.
FailFile(f) ==
  /\ pc = "unpack"
  /\ f \in targets \ failed /\ Dest[f] # "whole"
  /\ failed' = failed \cup {f}
  /\ UNCHANGED <<pc, todo, group, targets, index, rows, skipped, settings, unpacked, cache, output>>

\* All workers are joined before the provider returns.
JoinWorkers ==
  /\ pc = "unpack"
  /\ \A f \in File : ~ Writing(f)
  /\ \/ failed # {} /\ Skip
     \/ /\ failed = {} /\ \A f \in targets : Dest[f] = "whole"
        /\ pc' = "index" /\ UNCHANGED <<todo, skipped>>
  /\ targets' = {} /\ failed' = {}
  /\ UNCHANGED <<group, index, rows, settings, unpacked, cache, output>>

-----------------------------------------------------------------------------
(***************************************************************************)
(* Resolver::index_for.                                                    *)
(***************************************************************************)
\* Mutant of CacheOf: one cache for every build.
CacheOfAny(b) == CHOOSE k \in Build : TRUE

CacheOf(b) == CacheName[b]

\* Mutants of Readable: whatever is there is taken; nothing is.
ReadableAnyway(c) == c.state # "none"
ReadableNever(c) == FALSE

Readable(c) == c.state = "index"

\* The cached index is there and good; reading it may fail all the same, which is
\* the end of the group.
LoadCache ==
  /\ pc = "index"
  /\ Readable(cache[CacheOf(B)])
  /\ \/ /\ index' = cache[CacheOf(B)].files
        /\ pc' = "resolve"
        /\ UNCHANGED <<todo, skipped>>
     \/ Skip /\ index' = {}
  /\ UNCHANGED <<group, targets, failed, rows, settings, unpacked, cache, output>>

\* The scope chooses among the files of a directory.  The files of an archive were
\* unpacked flat, and are all taken.
Inputs == IF Current.zip THEN {f \in File : Dest[f] = "whole"} ELSE Directory[B][Current.scope]

\* Every file is parsed.  A torn one fails the analysis, as does having none, and a
\* bad cache that cannot even be read.
Analyze ==
  /\ pc = "index"
  /\ ~ Readable(cache[CacheOf(B)])
  /\ index' = Inputs
  /\ \/ /\ index' # {} /\ (Current.zip => \A f \in File : Dest[f] # "part")
        /\ pc' = "store" /\ UNCHANGED <<todo, skipped>>
     \/ Skip
  /\ UNCHANGED <<group, targets, failed, rows, settings, unpacked, cache, output>>

\* The cache file is truncated and then written; an error is ignored.
StoreCache ==
  /\ pc = "store"
  /\ pc' = "stored"
  /\ cache' \in {cache, [cache EXCEPT ![CacheOf(B)] = Unreadable]}
  /\ UNCHANGED <<todo, group, targets, failed, index, rows, skipped, settings, unpacked, output>>

CacheStored ==
  /\ pc = "stored"
  /\ pc' = "resolve"
  /\ cache' \in {cache, [cache EXCEPT ![CacheOf(B)] = Cached(index)]}
  /\ UNCHANGED <<todo, group, targets, failed, index, rows, skipped, settings, unpacked, output>>

-----------------------------------------------------------------------------
(***************************************************************************)
(* The answers of a group, and the table.                                  *)
(***************************************************************************)
AcquiredIn(files) == UNION {Acquired[f] : f \in files}

\* Every site of the group is looked up once.
Resolutions(g) ==
  LET possible == [s \in SitesOf(g) |-> UNION {Answers(AcquiredIn(index), q) : q \in Parsed[s]}]
  IN  {found \in [SitesOf(g) -> UNION {possible[s] : s \in SitesOf(g)}] :
         \A s \in SitesOf(g) : found[s] \in possible[s]}

LookedUp(found, s) == IF s \in DOMAIN found THEN found[s] ELSE {}

Answered(g, found) ==
  [r \in Row |->
     IF r \in RowsOf(g)
       THEN [blocked |-> LookedUp(found, BlockedSite[r]), blocking |-> LookedUp(found, BlockingSite[r])]
       ELSE rows[r]]

Resolve ==
  /\ pc = "resolve"
  /\ \E found \in Resolutions(group) : rows' = Answered(group, found)
  /\ pc' = "save"
  /\ UNCHANGED <<todo, group, targets, failed, index, skipped, settings, unpacked, cache, output>>

\* The output is truncated and then written.
Save ==
  /\ pc = "save"
  /\ output' = Torn
  /\ pc' = "saving"
  /\ UNCHANGED <<todo, group, targets, failed, index, rows, skipped, settings, unpacked, cache>>

Saved ==
  /\ pc = "saving"
  /\ output' = Table(rows)
  /\ pc' = IF group = NoGroup THEN "done" ELSE "next"
  /\ UNCHANGED <<todo, group, targets, failed, index, rows, skipped, settings, unpacked, cache>>

-----------------------------------------------------------------------------
Running == pc \notin {"off", "done", "down"}

\* The run is killed, or ends with the error of a write it does not survive.  What
\* it had in memory is gone.
Crash ==
  /\ Running
  /\ pc' = "down"
  /\ todo' = {} /\ group' = NoGroup
  /\ targets' = {} /\ failed' = {} /\ index' = {}
  /\ rows' = Unanswered /\ skipped' = {}
  /\ UNCHANGED <<settings, unpacked, cache, output>>

Unpack == \E f \in File : StartFile(f) \/ EndFile(f) \/ FailFile(f)

Work ==
  \/ NextGroup \/ LastGroup
  \/ UseDirectory \/ Reuse \/ OpenArchive \/ Unpack \/ JoinWorkers
  \/ LoadCache \/ Analyze \/ StoreCache \/ CacheStored
  \/ Resolve \/ Save \/ Saved

Next == Start \/ Work \/ Crash

Spec == Init /\ [][Next]_vars

FairSpec == Spec /\ WF_vars(Work)

-----------------------------------------------------------------------------
TypeOK ==
  /\ pc \in {"off", "next", "artifacts", "unpack", "index", "store", "stored", "resolve", "save",
             "saving", "done", "down"}
  /\ todo \subseteq Groups
  /\ group \in Groups \cup {NoGroup}
  /\ pc \in {"artifacts", "unpack", "index", "store", "stored", "resolve"} => group \in Groups
  /\ targets \subseteq (IF pc = "unpack" THEN Archive[B] ELSE {})
  /\ failed \subseteq File
  /\ index \subseteq File
  /\ rows \in [Row -> Answer]
  /\ skipped \subseteq Groups
  /\ settings \in Seq(Setting)
  /\ pc # "off" => settings # <<>>
  /\ unpacked \in [Build -> [File -> {"none", "part", "whole"}]]
  /\ cache \in [Build -> CacheEntry]
  /\ output \in [state : {"missing", "torn", "table"}, rows : [Row -> Answer]]

-----------------------------------------------------------------------------
(***************************************************************************)
(* Properties.                                                             *)
(***************************************************************************)
Written == output.state = "table"

OneNameEach == \A b, c \in Build : CacheName[b] = CacheName[c] => b = c

\* What the analysis of build b is given under setting s.
Given(b, s) == IF s.zip THEN Archive[b] ELSE Directory[b][s.scope]

FilesOf(b) == UNION {Given(b, s) : s \in Setting}

\* "All sites for one build resolve against the same artifacts" (pipeline.rs:23):
\* however runs end and start again, and whatever their options, an answer never
\* comes from the files of another build, as long as no two builds share a cache
\* name.
AnswersAreOfTheBuild ==
  OneNameEach /\ Written =>
    \A r \in Row :
      output.rows[r].blocked \cup output.rows[r].blocking
        \subseteq LocksIn(AcquiredIn(FilesOf(BuildOf[r])))

\* The answer at a site is what the documentation promises of these files.
RightFor(answer, files, s) ==
  IF Resolvable(s)
    THEN \E q \in Parsed[s] : FitsWord(q) => answer \in Right(AcquiredIn(files), q)
    ELSE answer = {}

Complete(r, files) ==
  /\ RightFor(output.rows[r].blocked, files, BlockedSite[r])
  /\ RightFor(output.rows[r].blocking, files, BlockingSite[r])

\* Every archive a run so far was to unpack for build b is unpacked.
Sound(b) == (\E i \in DOMAIN settings : settings[i].zip) => Whole(b)

\* "Exact line match; else the nearest monitor-enter within N lines; else the
\* file's sole lock" (README.md:95-99): when a run has ended, a row whose build is
\* wholly unpacked has such answers from all the files that the options give, unless
\* the log names its group, whatever earlier runs left.  The options are those of
\* this run or of an earlier one over the same cache: the cached index says
\* nothing of them, so only runs that all have the same may count on their own.
AnswersAreComplete ==
  pc = "done" /\ OneNameEach =>
    \A r \in Row : Sound(BuildOf[r]) =>
      \/ \E i \in DOMAIN settings : Complete(r, Given(BuildOf[r], settings[i]))
      \/ <<BuildOf[r], DeviceOf[r]>> \in skipped

\* A good cached index is never lost or replaced, by a crash or by another run
\* (resolver.rs:43-50).
CacheIsKept ==
  [][\A b \in Build : cache[b].state = "index" => cache'[b] = cache[b]]_vars

\* Every run ends: the table is written or the run has died.
EveryRunEnds == pc = "next" ~> pc \in {"done", "down"}

\* "already unpacked" (artifact.rs:62): a build whose directory is taken as it is was
\* unpacked to the last entry.
ReusedIsUnpacked == pc = "artifacts" /\ Current.zip /\ NonEmpty(Dest) => Whole(B)
=============================================================================
