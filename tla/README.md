# A verification of dexlock

dexlock reads compiled Android code (DEX) and answers questions about its locks: which lock a
contended source line takes, which locks may be held when a method is entered, in which orders locks
are taken, which fields are guarded inconsistently, and which remote calls are made under a lock.
It is a static analyser. Its answers are claims about every execution of another program, and what
could be wrong with them is seldom visible in a unit test: they come out of worklists whose order is
that of a hash map, they are cut off at depth and round limits, and they are true or false of
programs that run several threads. And before any of that it has to find its input: classes packed in
dex files, in archives, in archives in archives, and in filesystem images with compressed files.

The models follow that shape. Each analysis is a state machine that computes its result one worklist
step at a time, in any order the code leaves open. When it is done, a second actor **executes the
analysed program** - passes objects, throws exceptions, blocks on locks - and the properties relate
what the analysis said to what the execution does. The two decoders of dex files and the two readers of filesystem
images are functions, held against a compiler and an image builder that are modelled with them. The
trace pipeline, the one part of dexlock with state that outlives a run, is modelled with its files on
disk, its failures and its crashes.

Source paths below are relative to the repository root; the code is in `src/`.

## 1. Inventory

| Component | Sources | State | Operations | What makes it correct |
|---|---|---|---|---|
| Lock identity | `dex/model.rs` | none (values) | extend, ground, substitute, name | a path that outgrows the cap must become a name of its own, never a prefix another lock has |
| Injector | `dex/mod.rs` 276-445, `dex/extract.rs` | gather stack, reverse dependencies, partial solution, worklist | gather, evaluate, meet, resolve operands and fields | the solution is the least one, and never names another object than the one that arrives |
| Register pass | `dex/extract.rs`, `dex/juc.rs` | the lock each register holds, the last call's result | one step per instruction, getters first | a register that is redefined is not read as what it was; what is noted is what happens |
| Alias map, names | `dex/mod.rs` 130-268 | `field -> lock or conflict` | three noting passes over hash maps, chase of aliases | a field is taken only for what is noted of it, in any order; a field taken for a lock holds that lock |
| Held-lock dataflow | `dex/flow.rs` 110-475, `dex/juc.rs` | entry state per block, block queue | build blocks, pop a block, join along an edge, replay | what is reported held is held, on exception paths too; the loop ends |
| Helper effects | `dex/flow.rs` 434-515 | effects per method, 16 rounds | run the dataflow of all methods, intersect over returns, compare | what is applied at a call is what the helper does on every way out |
| Entry sets | `dex/flow.rs` 526-627 | locks per private method, 16 rounds | intersect over call sites, compare | a lock held on entry is held by every caller |
| Remote calls under a lock | `dex/binder.rs` | none | join entry sets and calls | a finding's locks are held |
| Lock-context index | `dex/ctx.rs` | distance per method and lock, worklist, order edges | visit a method, build edges, query `held_set`, `gate`, `witness`, `inversions`, `binder_sites` | everything a thread can hold near enough is listed; deadlocks are foretold |
| Target resolution, type flow | `dex/ctx.rs` 380-570, `dex/binder.rs` 80-144 | class hierarchy, targets per call, formals invoked on, classes that reach them | resolve a call, link overrides, propagate demands and classes, link callbacks | a target the code claims to know is not missed; the flow does not depend on its order |
| Race reporter | `dex/race.rs` | reached methods | reachability, group accesses, find a guard, report | a reported write is unlocked, the reported guard is held |
| Lookup | `dex/resolve.rs`, `site.rs` | buckets by file name | exact, fuzzy, unique | the answer is a lock of that line |
| Trace pipeline | `pipeline.rs`, `artifact.rs`, `resolver.rs`, `csv_io.rs` | answers; **on disk**: unpacked files, cached indexes, the table | group, unpack in parallel, index or load, answer, save | answers are of the right build and complete; a crash costs work, not correctness |
| Native decoder | `dex/native/` | positions while reading | class data, code items, payloads, handlers, line program | what comes out is what the dex says |
| Text decoder | `dex/dexdump.rs` | the class, method and section a line belongs to | one line after another | the same, from a listing that tells some things late |
| APEX containers | `dex/apex/` | none | block maps, extents, directories, clusters, lz4 | the bytes of a file are those packed |
| Input discovery | `dex/input.rs`, `dex/archive.rs` | what is still to be looked into, the blobs found | list a directory, open an archive or an APEX, decode in parallel, merge | no class missed or doubled, what cannot be read fails the run, archives in archives end |
| Front end | `main.rs`, `lockctx.rs`, `dump.rs`, `proto.rs`, `traces.rs`, `model.rs`, `lib.rs` | none | arguments, formatting | |

How they meet: input discovery reads directories, archives and images and has each dex in them
decoded; the merged result is a `Dex`. `extract` runs over each method and gives the injector
its call sites and the alias map its stores; the injector's result goes into the alias map's second
pass; the canonical names of the acquisition sites are the resolve index. `flow` gives every other
analysis the locks held at each instruction, seeded with the entry sets and with the effects of
called helpers. `ctx` builds the index from `flow`'s spans and calls; `race` joins the index, the
entry sets and its own reachability. `pipeline` calls a provider for files and the resolver for an
index, and writes answers.

Where it is hard: worklists over hash maps and rayon's parallel maps (order), joins of the dataflow
on exception edges, recursion (does a fixpoint end; is a cut-off one frame short), "may" sets used
where "must" sets are needed and the reverse, names that depend on the line they are asked at, parallel extraction into a directory whose mere
non-emptiness later counts as completeness, and files written in place. `PROJECT.json` lists each
hazard at its line with the properties that would catch it.

## 2. Modules

| Module | Models | Builds on |
|---|---|---|
| `Inputs` | from the paths given to one merged dex; every decoder and reader is called from here | `Images`, `NativeDex`, `DexText`, `DexSource` |
| `NativeDex` | the binary decoder | |
| `DexText` | the decoder of `dexdump` listings | |
| `DexSource` | outside dexlock: the layout a compiler gives a dex, the listing `dexdump` prints, and what both say | |
| `Images` | ext4, erofs and lz4, up to the jars of an image | |
| `Fixpoint` | abstract: what a worklist promises | |
| `LockPath` | lock identities, their names, bounded paths | |
| `Injector` | the interprocedural solver; then one object followed through calls | `LockPath` |
| `Extract` | the register pass over one method, getters | `LockPath` |
| `Naming` | the three alias passes and `canonicalize`; and abstractly the program's stores | `LockPath` |
| `Acquisitions` | `acquisitions` whole, from instructions to answers; then the program, instruction by instruction | `Naming`, `Extract`, `Injector` |
| `HeldFlow` | the effects of helpers, the dataflow of one method; then executions of it | |
| `MethodScan` | the walk of a method into spans and calls, under program-wide names | `HeldFlow` |
| `LockContext` | the distance worklist, order graph and queries; then threads | |
| `EntryHeld` | the rounds of `entry_held`, `binder_under_lock` | `LockContext` |
| `Race` | reachability and the race findings | `EntryHeld` |
| `Dispatch` | the targets of calls and the parameter type-flow; then a thread with objects | |
| `Lookup` | the locks at a file and line: operators, and the documented rule as reference | |
| `Pipeline` | runs over a disk that outlives them | `Lookup` |
| `LeastNumber` | least and greatest members, induction and iteration over an interval, stated of sets (proof only) | |
| `InputsProofs`, `InjectorProofs`, `HeldFlowProofs`, `DispatchProofs`, `PipelineProofs` | theorems | the modules they name |
| `NamingProofs` | theorems about the alias map and the answers | `Acquisitions`, with `Naming` and `Extract` |
| `RaceProofs` | theorems about the index and the race reporter | `Race`, with `LockContext` and `EntryHeld` |
| `ProgramBodies`, `DexCatalogue`, `ImageCatalogue`, `MC*` | small instances for TLC | |

Every analysed program is one element of a set `Programs` (or `Methods`), picked in `Init` and never
changed, so that one TLC run covers all of them and a theorem speaks about all programs. Each module
says in an `Is...` predicate what a program is.

### Inputs, the decoders and the images

`Inputs` keeps what is still to be looked into (`todo`) as the code's call stack does, the next first:
`VisitDirectory` lists a directory in any order (`Listed`: the Soong jars of the scope, else the plain
entries), `OpenArchive`, `TakeDex` and `PassOver` are `collect_bytes`, `UnpackApex` and `Deapex` the
two ways into an APEX, `Parse` one blob decoded by a worker, `Merge` `merge_dexes`. Files are
identifiers and `Disk` says what each of them is; the decoders and the image readers are functions of a file, so what they
make of each is worked out in `Init` (`decoded`) and looked up by the actions. Of an APEX `Disk` also has the
jars that were packed into it, in the order of their names, and whether its image is of a kind only the tool reads
(`exotic`): the first is what the tool finds and what the readers are held against. A thing that can fail
is a set that is empty or has one member.

Two things get lost in the code without an error, and so they do here. A listing drops entries it fails on, and a directory that
cannot be listed at all is an empty one (archive.rs:105, 118): `lost` says which. Of a directory kept in an ext4 inode only
the 56 bytes of the inode are read (ext4.rs:205): `shown` has the jars whose entries lie there.

A run is right in terms of what lies within `Reached` of a path: what the listings of directories lead to (`led`), and what
lies at most `MaxDepth` archives further in (`below`; a jar of an APEX counts as one archive in). A
directory that leads back to itself is never done with, in the code as in the model; `led` is a function of
directories on which it has a value in any case, and the theorems hold of what it then is.

`NativeDex` has the binary decoder's operators (`Uleb` and `Sleb`, the class data with its difference-coded
indices, the items of code, the two switch payloads, handlers with their signed sizes, the line
program) over sequences of bytes and code units. A line program or a handler list that runs off the file
becomes an empty table (native/mod.rs:368, 374); two dexes of the catalogue end in one (`Torn`). `DexText` is the line-driven parser with what it
keeps between lines; a line is what its first word makes of it. Both are held against `DexSource`,
which is not dexlock: it lays a small dex out as the format says, prints the listing, and says (`Said`)
what classes, methods, instructions, jump targets, handlers and lines there are - once in full, once
less what the text parser cannot say. `Images` reads blocks, inodes and directories of ext4 (block
maps, extents that nest, holes, unwritten extents) and erofs (plain, tail-packed, legacy and compact
compressed layouts, lz4 with overlapping matches); `ImageCatalogue` builds images of known files.

### Fixpoint

`Fixpoint` says what a worklist is for: cells start at the value nothing is known by, one at a time a
cell gets the value its equation asks for, and the solution is given out only when every cell has it.
Nothing is said of how the worklist knows. `Injector` and `LockContext` instantiate it (`Iterates`);
`Converge` in each is the step that a forgotten reader would break.

### LockPath and Injector

`Gather` is the first loop of `Injector::solve` (mod.rs:376-396), `StartSolve` the initial solution,
`Relax` one iteration of the second loop (399-407), `Finish` its end. The two stacks are filled from
hash maps, so they are sets here and any member is next. `Eval`, `Transfer`, `Meet`, `FieldRes`,
`ResolveFields` and `ResolveParamLock` are the functions of those names. `Recorded` is the condition
under which `extract` keeps a call (extract.rs:108-124).

After `Finish`, `cur` is one object on its way through the program: `EnterChain` executes a call
whose argument the caller names itself, `FollowChain` one that passes on the formal, `EnterUncalled`
enters a method no call reaches. `RecordedCallsAreSound` says the solution never names another
object than the one in `cur`. Lock roots are pairs, field names and classes are strings or model
values; the textual lock name is the sequence of its dotted parts.

### Extract, Naming and Acquisitions

`Step` is one arm of the match in `extract` (extract.rs:51-166), `Extracted` the fold over the
instructions: `regs` has the registers a lock is known of, `ret` is `last_ret`, and sites, stores, calls
and returns are what goes into the `Summary`. `Views`, `Acquires` and `Releases` are what `classify`
(juc.rs) makes of the library's methods. `Getters` is the first of the two passes, `Summaries` the second.

`Naming` has one action per note of each alias pass (`NoteAlias`, `NoteSingleton`), `NextPass` between the passes;
`seen` is the map, `<<>>` a conflict. The injector's answer is an input: a store of a formal carries
the object callers pass, if it is one. `Execute` performs stores of the program in any order, and is all
that `Naming` says of a running program.

`Acquisitions` puts them together. `Gathered` and `Named` make of the summaries what `Injector` and
`Naming` are given, `Solutions` has the least solution, which `Injector` shows its worklist to find (here by
evaluating all formals at once, round after round), and `AnswerFor` is the name of a site: the object all callers pass, else the formal's class, else the
canonical name. Summaries and solution are functions of the program and are worked out in `Init`; then the alias
passes run, in any order, and then the machine. It has objects with their classes and where they were made, a heap,
statics and frames; `Assign` to `Return` are the instructions, `Call` and `View` calls of the program
and of the library, `Take` an acquisition. A program is a map from keys to methods;
`IsCode` says what the compiler and the verifier of the runtime guarantee of one, and `Owner`, `Typed` and the guard of
`Call` that an object has the fields of its class and no others and is passed where its class is expected.

Two properties compare. `AnswersAreTrue`: the object locked at a site goes by the name the site was
given, where `GoesBy` reads a name along the fields the objects were ever stored in. `StoresAreNoted`: the machine,
seen from the alias map, performs stores that `Naming` was told of, with objects it allows for - so
`Acquisitions` implements `Naming`, and what is proved of `Naming` holds of programs made of
instructions. Both hold under preconditions, each of which TLC needs (without any one of them it finds a
program that breaks the property):

- `straight`: every register read so far held what the last instruction above, as the pass saw it, put there. The pass
  is linear, so a path that skips that instruction reads something else, and so does one after an opcode
  the decoders do not know.
- `NoHiddenCaller`, the precondition of `Injector`: either every call of a method passes something
  nameable or none does, so that no call is missing among those that are met.
- `WholeStores`: no field or view of a formal or of a new object is stored; the extraction keeps only
  which formal it was, or the class.
- `OwnAllocations`: a new object is renamed to a field of `this` only where it is stored in `this` itself.
- `ViewsResolved`: a view of a formal is locked only if callers agree on the formal.
- `GettersAgree`: a getter returns in the second pass what it was found to return in the first. With the getters
  known, a store through another getter may turn out to be one to `this`, which renames what was stored.
- `AliasesHold` (for the answers): every store to an aliased field is noted, and none is of a view. See section 5.

### HeldFlow and MethodScan

`m` is what the dataflow is run over: first one helper after another, then the method `top`, all through the same actions, as
`effect_of` calls `run` (flow.rs:480). `Pick` starts the run over the next helper of a round, `Solved` reads its
effect off the replayed states of the returns (`NetEffect`), `Round` begins another round from the effects of the last one, and
`Agreed` ends the rounds when two agree or `MaxRounds` are over (flow.rs:501-515). The helpers of a round are found from
`eff` and put into `next`, so their order does not matter and one is taken (`Turn`). A helper has a body like any method:
branches, loops, exception tables, tryLocks, calls of further helpers.

`Apply` uses the effect at each call, and the execution runs the helper itself: `Runs` has what each helper may come to,
returning (`returns`) or throwing out (`throws`), found by going through its body an instruction at a time (`Onward`, at most
`MaxSteps`), exceptions to its handlers included. What it did is a count for each lock (`net`) and how often the lock had to be held
before (`needs`). It is found in `Init` and kept in `runs`.

When does the effect have to be right? Where no way through the helper matters: `Steady` gives, for each of its instructions, what was done
before it, and `IsSteady` says that this agrees on every edge, handler edges included. `Settled` adds that it returns, that what it
calls is settled one level less deep, and that what it calls in a try range leaves the locks alone if it throws; `Regular` are
those settled within `MaxRounds`. `EffectsAreExact` says that their effects are what their executions do. It is not enough that
every way out releases: `Swallowed` in `MCHeldFlow` does, and its effect is empty (section 5).

Blocks are named by their first instruction, as in `build_blocks`. `PopBlock` takes the queue's head
and computes the states its edges carry; `TakeEdge` joins one edge into its target and queues the
target if it changed; the edges of one block are taken in any order. `HeldAt` is the replay.
`Start`, `Complete` and `Unwind` execute the method: an instruction completes (a `TryAcquire` may
fail) or throws to a handler covering it, or out. The register pass is reduced to whether it knew
the operand.

Multiplicity is modelled as the code has it: an entry for each lock held, with its depth and the line it
was taken on, and `Meet` by name. A release takes out the innermost entry of the name and may leave a gap in the
depths, which only the order of the entries depends on. That is why the
soundness property `DisciplinedHeldIsHeld` has a precondition, `Disciplined`, naming the five
patterns for which the code does report a lock that is no longer held: a failing tryLock; an unlock
through an unknown register; a lock taken again while held; a release in a block of a try range before an instruction
that throws, or in a callee that releases and then throws (`DropsThenThrows`); and a call of a helper that is not
regular (`CallsIrregular`). `MonitorsAreExact` has no such precondition: on what javac
and d8 emit for `synchronized`, the report is exact in both directions. `Monitors` gives for such a method the
blocks around each of its instructions, and `IsNested` says what makes it one: each way out of a block has its
exit, a jump goes to code with the same blocks around it, and so does an exception, because a compiler covers the exits of a
block by the block's own handler, that handler's exit included. Code that leaves an inner block's exit to the outer handler
(`Leaky`) reaches a handler with one lock or with both; it is checked as an ordinary method.

`MethodScan` is the closure of the parallel walk in `ctx::build`: `Scan` replays one instruction, in the
order of the code, and notes a span (`Taken`), the end of one (`Freed`), or a call with what is held
there (`CallMade`). A lock's name is asked for at the line at hand and then remembered (`Named`); the
name an acquisition has in the rest of the program comes from the extraction (`Canonical`). The scan
ends before executions start, and `CallsHoldTheirLocks` and `SpansCoverHolding` compare them: at a call
an execution reaches, exactly the locks held are recorded, each under the name of its acquisition, and
on every line on which a lock is held a span covers it. Both speak of compiled `synchronized` blocks
whose lines tell the acquisitions apart (`Told`).

### LockContext

`Visit` is one iteration of the worklist (ctx.rs:607-634), `Acc` its `acc`, `Requeued` the push of
the callees. The spans and calls, which `MethodScan` produces, are an input. `Order`, `Inversions`,
`Gates`, `HeldSet`, `WitnessCalls` and `BinderSites` are the queries. Then threads run: a frame is a
method and the locks it took itself; `Invoke` happens at a recorded call, with exactly the locks the
record says, `Acquire` at a recorded span, and blocks while another thread has the lock.

`Cycles` is `Index::cycles`. The two depth-first searches of the code compute strongly connected
components; here a component is what lies within every closed set of edges both ways, a definition
without recursion that theorems can be proved about. `DeadlockIsForetold` follows any ring of
waiting threads (`IsRing`): its locks must be in one cycle, and those of a ring of two must be a pair
of `Inversions`.

### Dispatch

`Link` is the loop over the recorded calls (ctx.rs:436-507): the precise target of a receiver of
known class, else the static target, plus the overrides of a signature with at most `ChaCap`
declarations, and the formals invoked on. `Demand` and `Flow` are one change made by the two
propagation loops (519-529, 541-558), in any order, with `DemandDone` and `FlowDone` when nothing
changes; `FlowDone` also links the callbacks (560-570). Remote entries are computed from the
hierarchy and the calls (`IsBinder`). The first declaring ancestor in hash order is an input,
restricted by `FirstIsAncestor` to what the hash set can yield.

A frame of the thread is a method, the classes of the objects it was given, and which of those were
*seen*: named at the call that passed them first and handed on through calls that were linked before
the type-flow. `Invoke` dispatches on the object. `Foretold` collects the cases in which the code
claims to know the target, and `RunsAreLinked` says that they are linked. What makes it a theorem
about chains of any length is that a pass is followed from `linked`, not from `targets`; `FlowIsExact`
compares the two demand-driven loops with a propagation that follows everything.

### EntryHeld and Race

`Round` is one round of `entry_held` that changed something, `Settle` its end, by agreement or by
`MAX_ROUNDS`. `Spread` pops one method of `concurrent_methods`' queue. The phases run one after the
other, as `races` calls them (index, reachability, entry sets), and executions follow. The findings
are computed from the state: `OwnRaw` and `ForwardedRaws` are the two ways an access is recorded, at
its own line or at each call of a compiler-generated accessor. An access on a line counts as often as it
occurs there (`Times`), one in an accessor as often as the accessor is called (race.rs:213-221). `RaceSpec` implements
`LockContext`'s `Spec` (theorem `RaceRunsTheIndex`), so what is proved of the index is available
here.

### Pipeline

`pc` walks through `pipeline::run`: `NextGroup` (largest first, ties in any order), then, with
`--zip`, `Reuse` or `OpenArchive`, and else `UseDirectory`, which gives what the scope selects; the workers of the parallel extraction (`StartFile`, `EndFile`, `FailFile`, joined by
`JoinWorkers`) of the entries found while listing (`targets`: one that cannot be read then is dropped, artifact.rs:89), `LoadCache` or `Analyze`, `StoreCache` and `CacheStored`, `Resolve`, `Save` and
`Saved`. Files are written in two steps, so that a `Crash` or a failing write (`FailFile`) between them leaves half a file; a crash
is also what a failing write of the table amounts to. `Start` runs the program again over the same
disk, with any of the options in `Setting`. An index is the set of files it was built from; `AcquiredIn` gives the acquisitions in them.
`Resolutions` asks `Lookup` for each distinct site of the group that parses.

`Lookup` has the three steps of `Lookup::resolve` (resolve.rs:138-176) in `LineAnswers`, with the
truncation of the line to a word in the first (`AsWord`) and not in the second, and with a set of
answers where the code takes the site that comes first in the index. `Right` states the documented
rule in one piece, without the three steps; `AnswersAreComplete` holds the table to it, for the files
of a whole archive, or for those of the directory if the runs before took the same.

## 3. Runs

State counts are distinct states; every run takes less than three minutes with two workers.

| Run | States | What it shows |
|---|---|---|
| `inputs` | 1,422 | 55 command lines over dexes that share classes or end in torn tables, archives that nest up to and beyond the depth, hold themselves, are torn or lie about what they are, two directories under three scopes and two that cannot be listed, in part or at all, seven APEXes with and without the tool, one with a directory longer than its inode, both decoders |
| `injector` | 4,668 | all programs of at most three of ten call sites over three methods, recursion and self-calls included, path cap 1 |
| `held_flow` | 116,240 | all methods of four steps out of ten (two locks, helpers, branches, a try range); every helper of three steps with and without a handler, pairs, four deep, two that call each other, some that release, wait or clean up around a try range; seven compiled `synchronized` shapes, each under three layouts of source lines; lost registers, an uneven join |
| `acquisitions` | 526,082 | 12,674 programs: at most three of fifteen setters, each called or not, with self-locking classes; every method of three out of fifteen steps, and of two with each of six getters and one caller or two; formals handed on, viewed, read through getters and stored; objects and views stored in fields of fields |
| `lock_context` | 225,855 | 112 call graphs of up to five methods over three locks with recursion and a chain as deep as the bound, three threads, `max_depth` 3 |
| `race` | 9,448 | 300 programs of four methods with an accessor, recursion, one or two entries, one round of entry sets |
| `dispatch` | 554,484 | two to four of eleven calls (on fresh objects, fields and formals, recursion, a remote transaction) over four hierarchies and five ways to declare the method; one thread of three frames |
| `pipeline` | 473,402 | two runs, two builds, two devices, archives or directories under a scope, any crash, entry dropped, failing file or failing cache; sites on a line, between two lines, far from all, and unreadable |
| `injector_unrecorded`, `held_flow_trylock`, `lock_context_gate`, `pipeline_reuse` | | counterexamples, see section 5 |

Deadlock is checked in `inputs`, where nothing may stop before the run is done or failed. Elsewhere it
is not: an analysis that is done and a program that has stopped are legitimate ends,
and the executions really do deadlock in `LockContext`, which is the point of them.

### Properties

- **Order does not matter.** `Iterates` (Injector, LockContext), `BelowEverySolution` (Injector),
  `DistIsShortest` (LockContext), `FlowIsExact`
  (Dispatch): whatever order the hash maps and queues give, the result is the one the equations
  determine. `AliasMatchesNotes` (Naming): the order does not matter where a field has one candidate or notes that differ;
  of two self-locking classes alone in one field the hash map picks one.
- **It ends.** `Terminates` (Injector, LockContext), `Converges`, `EveryRunEnds`, `Ends`.
- **What is said is so.** `RecordedCallsAreSound`, `AliasedFieldIsTarget`,
  `AnswersAreTrue`, `StoresAreNoted`, `EffectsAreExact`, `DisciplinedHeldIsHeld`, `MonitorsAreExact`,
  `CallsHoldTheirLocks`, `EntryHeldIsHeld`, `GuardIsHeld`, `UnlockedOnEveryPath`, `AnswersAreOfTheBuild`.
- **What happens was said.** `EveryStepIsReplayed`, `SpansCoverHolding`, `MayHeldCoversStack`,
  `BinderSitesCoverStack`, `DeadlockIsForetold`, `RunsAreLinked`, `WitnessExists`,
  `ConcurrentCoversRoots`, `AnswersAreComplete`, `AliasCollapses`.
- **What is read is what was written.** `NativeIsTheDex`, `TextIsTheDex`, `FilesAreWhole`.
- **What must not be lost.** `EveryClassOnce`, `FailsForCause`, `CacheIsKept`; `OwnGateIsBenign` states
  the part of the gate's promise that does hold.

Type invariants are theorems (`TypeCorrect` in the proof modules, `RaceTypeCorrect`) rather than parts
of a run; `HeldFlow`, `MethodScan` and `Inputs` have none, since their properties would not hold of
values of another shape.

For each property `PROJECT.json` names a mutant of one definition, a plausible slip in the code it
models (a cut-off one frame early, the union for the intersection, "may" for "must", a worklist that
forgets a reader, a torn cache taken for good), under which TLC finds the property violated.

### Bounds

- `MaxAp = 1` in `Injector` makes the path cap bite after one hop, so recursion through a growing
  path meets it within a few steps; the code's 10 differs only in when.
- `MaxHops = 3` calls for the object followed: one more than the longest simple chain of two callees.
- `MaxCanonHops = 6` and `MaxAp = 10` in `Acquisitions` are the code's own. `Programs` of `Naming` is empty
  there, because the programs come from the code; that they are programs in `Naming`'s sense is part of
  `StoresAreNoted`.
- `MaxRounds = 8` in `Acquisitions` is more than any of its programs needs to be solved; a program that needed more
  would have no solution and so no behaviour.
- `MaxDepth = 3` in `Inputs`, against the code's 8: archives lie at the depth, one above and one below.
  The catalogue's dexes, images and compressed files are small, but each field of a format that has
  two encodings occurs in both: short and long numbers, packed and sparse switches, typed and catch-all
  handlers, packs of two and of sixteen entries, matches that overlap.
- `MaxRounds = 3` and `MaxCalls = 4` in `HeldFlow`: helpers nest four deep, one more than the rounds
  reach, and an execution unfolds them completely; the two that call each other never agree. `MaxSteps = 9`: a helper
  runs to its end, or twice around the loop of `Awaits`.
- `MaxHeld = 2`: a lock may be held twice, which is what distinguishes multiplicity from presence.
- `MaxDepth = 3` (2 in `Race`), `OrderDepth = 1`, `BinderDepth = 1`, with stacks of three frames (four in
  `Race`): the cut-offs are crossed by some chain of calls, and call graphs have cycles, along which distances would
  count on without the cut-off. Three threads, so that a ring need not be a pair.
- `ChaCap = 2` and `MaxStack = 3` in `Dispatch`: some signatures are at the cap and some above it, and
  an object is handed on once before it is invoked on.
- `Fuzz = 2` and `WordLimit = 8` in `Pipeline`: sites at the edge of the window and beyond it, and a
  query (line 9) that no word holds.
- `MaxRounds = 1` in `Race`: the rounds of the entry sets are cut short in some programs and agree in
  others.
- `MaxRuns = 2` in `Pipeline`: one run to leave something on the disk and one to find it.

The theorems of section 4 do not depend on any of these bounds.

### Fairness

`Terminates`, `Converges`, `EveryRunEnds` and `Ends` assume weak fairness of the analysis's own steps
(`WF(Solver)`, `WF(Analysis)`, `WF(Work)`, `WF(Next)` in `Inputs`, whose `Next` has no other). Each is a loop of one thread that does nothing else until it is done, and
each step is always possible while the loop's guard holds, so a step that stays enabled is taken.
In `Pipeline` the extraction and in `Inputs` the decoding run on several rayon workers, but the run
waits for all of them. No fairness is assumed of the
analysed program, of crashes or of restarts.

## 4. Proofs

TLAPS proves the following for all values of the constants: any number of methods, locks, threads
and calls, any depth, any cap, any archives.

**Inputs.** `InputsInv` says where a run stands. What was found plus what is in reach of the items still to be
looked into is what is in reach of each path (`NoneLost`), and the same of what cannot be read
(`NoneHidden`): an item that is left must stand for exactly what it is replaced by, which is a lemma for each way of
replacing one (`DirectoryReplaced`, `ArchiveReplaced`, `ApexReplaced`, `NothingThere`), and the depth in an item is where
it stands in `below`. `InOrder` says that blobs and items come in the order of the paths. When nothing is left
the blobs of a path are its dexes and nothing unreadable was passed over. From it: `RunsFailForCause`, and
`RunsHaveEveryClass`, which adds that the classes of the blobs laid end to end have each class of each dex, in the
order of the paths (`Flattened`), and that of a sequence of classes `FirstCopies` keeps just the first of
each name (`FirstsKept`). `below` is unfolded with `IterationExists`. `led` recurs through directories, which no
number bounds; that there is such a function at all is shown by taking the least one (`LedIs`, Knaster and Tarski).
The theorems ask that the decoders are exact on the files at hand: that the native readers take the jars of `shown`
out of every image but the exotic ones (`ImagesExact`), and that either front end makes of a
readable dex what it says (`FrontEndsExact`). TLC finds both to hold of the files of the run, where the decoders work byte by
byte; they say nothing of lists, archives, order or failures, which is what the theorems are about.

**Injector.** `InjectorInvariant` is the inductive invariant. Its heart is two facts. A formal off
the worklist agrees with its call sites, which needs that `rev` holds every dependency of a gathered
formal (so the readers pushed are all there are). And the partial solution is below every solution
of the equations and never falls; the least-solution part (`BelowEverySolution`) follows from the
monotonicity of `Eval` and `Meet`. From it: `TypeCorrect`, `WorklistCorrect`, `Monotone`,
`LeastFixpoint`, `WorklistIterates` (the refinement of `Fixpoint`), `Soundness` (the object followed is always below the solution at the formal it has
reached, by induction along the chain) and `FieldAliasesSound`.

**Naming.** `NamingInvariant` says what the alias map holds half way: with `Made` the notes made so far
and `Found` the classes found alone in a field, a field is in the map if it has either, has the one lock
noted, nothing after a conflict, and a class only where no lock was noted. Each pass adds to one of the
two sets, and a conflict is never undone, so the order inside a pass does not matter. At the end both
sets are those of the program, and so the map has only what is noted, nothing where notes differ, and the one candidate where
there is one and all stores note it: `MapFollowsNotes`. `NotedFieldsSound` adds that the object put in a field
whose every store is noted is one of its notes, so the only one. `TypeCorrect`: no alias leads to a lock
that means something inside one method only. `AliasesCollapse`: chasing a lock for `n` hops and then
further is chasing it for the sum (`Chased` is a recursive function of the hops), so a chase that ends at
all ends within the number of aliased fields, and from there on more hops change nothing; the chase of
the field and the chase of its target, one hop apart, therefore stop at the same lock.

**Acquisitions** (in `NamingProofs`). `AnswersTrue` and `StoresNoted` hold of every program (`IsCode`), every order of the
alias passes and every execution of it, of any length, with any number of objects, fields and calls under way. The notion they turn on is
`Means`: value `v` is one that lock `l` stands for in a frame given certain arguments, which is when it lies at the
end of a way from a root of `l` along its fields, each hop through something that was ever put there. `Means` grows
as objects are made and fields are written, and what is said in it is never taken back; that is why the
invariant survives an assignment to a field. `GoesByMeans` shows that `GoesBy`, a recursive function of the fields,
says the same. The invariant `AcqInv` has these parts:

- `Fixed`: what is settled in `Init`. Its substance is `SolutionFits`: a solution gives every formal of
  every callee what the call passes, or nothing that is claimed, wherever `NoHiddenCaller` holds.
- `TodoOK` and `MapOK`: the invariant of the alias map, above.
- `Steady`: frames, heap and objects are well formed: a field was only ever written in an object of the
  field's class, and the frames below the innermost stand behind the calls they are in.
- `Truth`, where the precondition `straight` comes in. `Believed`: a register last written by instruction `d` holds
  what the state of the pass after `d` says (`At`). Because the pass changes a register only at the
  instructions of `Rewrites` (`SeenLastIs`), a register that was written where the pass saw it change
  last holds what the pass takes it for when it is read (`HereMeans`). `BoundRight`: the arguments of a method under way are what
  the solution says of its formals. `RetBelieved`: so is the result of a call about to be moved.
- `PutRight`: whatever was ever put in a field of an object is what some store of `Named` says it is.
- `TakenRight`: the lock taken last is what the pass knew of its register.

Every instruction keeps them (`AssignKeeps` to `ReturnKeeps`). A call is the interesting one in one direction: what is passed is what the
caller's register means (`PassedIs`), which in terms of the whole program is what the solution was reckoned from
(`EvalIs`). A return is in the other: what a getter returns in terms of its own formals is bound in the frame of its
caller (`SubstMeans`), for which the frame's registers must not have changed since the call (`Fresh`). From the
invariant, `StoredFits` gives `StoresNoted`. For `AnswersTrue`, a value put in an aliased field goes by the target
(`NamedPut`, from `PutRight` and what `NotedTarget` says of the map), so following an alias stays among
the names the value goes by (`FollowKeeps`), and so does the whole chase.

TLC does not evaluate `AcqInv`: it quantifies over ways and arguments. What it checks on the run are the
two properties and that each precondition is needed.

**HeldFlow and MethodScan.** Three invariants, each resting on the one before.

- `FlowInv` (theorem `FlowHolds`): every state is one of the method; an edge of a block reached is still
  to be taken, or its block is queued, or the state at its end is below what the edge brings (`Flowing`).
  When the loop ends only the last is left, on normal and on exception edges, whatever order they were
  taken in. `TakeEdge` is the step that matters: a join lowers the entry state of a block, and all of that
  block's edges must then be waiting again. `EveryStepReplayed` follows edges along an execution.
- `EffectsInv`: a helper that is settled within the rounds over has, as its effect, what it does (`KnownTo`). Two inductions meet
  here. On the side of the dataflow (`HelperInv`): while it runs over a steady helper that calls only what is
  known, the state on entry to every block reached, and on every edge still to be taken, is exactly what was done there
  (`Fit`), so that joins change nothing (`MeetFits`) and the states at the returns agree (`ReturnIsReached`: since the helper does return,
  the dataflow reaches a return). On the side of the execution: whatever way a steady helper is gone through, what it has
  done at an instruction is what `Steady` says (`SteadyEnds`, by `ReachInduction`), with what it needs being what it
  released for its caller (`Bits`), so that runs compose (`ThenIsAfter`); for nested helpers by the depth
  of nesting (`SettledReturns`), and more depth adds nothing (`DeepGrows`), so the theorem does not depend on `MaxCalls`. If two rounds
  agree before `MaxRounds`, nothing is known of how many there were and the induction is over the depth
  instead (`AgreedIsKnown`). From it: `EffectsExact`.
- `DisciplinedHeldIsHeld` is then inductive itself (theorem `Sound`). An instruction that completes takes out of both
  sides what it releases, which needs that no lock is held twice (`Once`), and at a call the exact effect together with
  the run's legality (`CompleteAgrees`); the end of a block uses `Flowing`; an exception needs that what is held on entry to the
  block is still held (`HeldWhenThrown`). Each of the five patterns of `Disciplined` is used once.
- `MonitorInv` (theorem `Monitored`): in compiled `synchronized` blocks the state on entry to a basic block, and
  on every edge to one, has exactly the locks of the blocks around it, each once, and so has the execution.
  `Meet` then never loses a lock, because both sides have the same ones (`MeetKeepsLocked`), and a release always finds
  its lock. It needs no discipline: the patterns are excluded by `IsNested`.
- `ScanInv` (theorem `CallsNamed`): the walk has given every lock it took its right name before it asks for it at a
  call, and has recorded each call it passed with the names of exactly the locks around it. What is around a lock's later use was
  entered further up, on a line of its own (`Told`). The proof showed that `Told` must also ask that this earlier
  acquisition is in a block the replay reaches: the walk does not see dead code, and a lock first met in live
  code below it is named from whatever is taken on that line.
- `SpanInv` (theorem `SpansCover`): the walk has opened a span for every monitor-enter it passed, and each has got
  an exit no earlier than that of any monitor-exit it passed since, whichever of the exits of the block comes first
  (`SpanStep`). A span is a range of lines, so this says something of the lines in between only if the block
  lies there: `LaidOut` asks that every instruction under a lock is on a line from that of its acquisition to that of some
  exit laid out further down. Compilers lay the handler of a block out last, on the line of its closing brace, and
  TLC finds every told method of the run to satisfy it.

`ScanImplements` is the refinement: the walk of `MethodScan` changes nothing of `HeldFlow`, so these hold
under `ScanSpec`, which the run checks. Recursive functions over the instructions of a block, the steps of an execution and
the depth of helpers are handled by showing once that each is an iteration (`BeforeSteps`, `ReachSteps`, `RunsSteps`, `SettledSteps`,
from `IterationExists`) and by `IntervalInduction`, which speaks of a set and not of a predicate.

**LockContext** (in `RaceProofs`). `SolverCorrect`: a method off the worklist has exactly the distances its callers
offer. `WorklistIterates` derives the refinement of `Fixpoint` from it: when the worklist is empty every
method has what its callers offer, which is what `GiveOut` asks for. `DistancesShorten` needs that `Acc` is monotone; the minimum over a set of offers is handled
with `LeastNumber`, because the library's induction theorems take an operator as a parameter and a
set of naturals does not. `Witnessed` reads the witness off the attained minimum.
`LockContextInvariant` adds the stacks: every frame but the innermost stands at a call to the next
with exactly the locks that call records, and the distance of a lower frame's locks at a higher
frame's method is at most the number of frames between them - that is preserved by `Invoke` because a
settled distance is at most what each incoming call offers. `DistancesAreShortest`: a settled distance is attained by a chain (each
step back along the attained minimum is one shorter) and no chain of calls is shorter, by induction over the
length of the chain (`WithinSteps`, `CallBrings`). From it: `MayHeldSound`,
`BinderSitesSound`, and `DeadlocksForetold`: each waiting thread has the lock that the one before it
waits for in a near frame, which makes it a member of `Froms`, hence an edge (the nearest site of
each pair exists by `LeastNumber`); and a closed set that contains one lock of the ring contains them
all, shown by the least position at which it would not (`ClosedRow`, `RingIsCycle`). `LocksAreExclusive` says
that no two threads hold one lock, and `OwnGatesSerialize` derives that two threads at sites with a gate that
both methods take themselves do not wait for each other. It is conditional, on `LinesTell`: a span that
covers the line of an acquisition is of a lock held there. Spans are line ranges, so a program with two
blocks on one line may not satisfy it, and of such a program the theorem says nothing; every program of
the run satisfies it.

**Dispatch.** `DispatchInvariant`: what a phase has finished stays finished (after `Demand` no pass
has a demanded target and an undemanded source, after `Flow` none has a class at its source that is
missing at its target), and the class of an object a frame was seen to be given has reached that
formal, if the formal is demanded. `RunsLinked` has one case for each of `Foretold`'s four; the case
of a receiver handed on is where the invariant is needed. `TypeFlowExact` compares the loops' result
with `Carried`, which applies the passes as many times as there are. That is enough: were a round still to add
a class, every round before it would have added one for a pass of its own, one more than there are
(`CarriedIsClosed`). In one direction `Carried` is then closed under the passes and contains whatever the loop adds;
in the other a class that is carried to a demanded formal came over demanded passes only, so the loop has it.

**Race.** `RaceRunsTheIndex` is the refinement: every step of `RaceSpec` is a step of `Spec` or
leaves its variables alone. `RaceInvariant` adds that every lock in an entry set is held by an outer
frame, and that a stack which began in a root stays in the reached methods. The entry sets only
change before executions start, so the interesting step is `Invoke`: a lock in the entry set of the
callee is in the held set of this call or in the entry set of its caller. For that the invariant
keeps `EntrySupported`: a method with a non-empty entry set is inferable, and every lock in the set
is held at every one of its incoming calls. One round yields exactly what is held at every incoming
call of the sets before it; since `EntrySupported` says that those sets are within what the round
yields, the rounds start from nothing and only grow, so a lock held at a call before a round is held
there after it (`RoundSupported`). A set cut off after any round is therefore still sound.
From it: `EntryHeldSound`, `ConcurrentSound`, `GuardsSound`, `BinderUnderLockSound`, and, with the
distances, `UnlockedSound`.

**Pipeline.** `CacheKept` needs one auxiliary fact, that a run on its way to store an index found no
good one. `AnswersStayInTheBuild` follows the files from archive to directory to index to cache to
row; `AnswersAreTaken` shows that a lookup answers with locks of the index it is given.
`LookupAsDocumented` is about `Lookup` alone: if the line of the query fits a word, the three steps
give the documented rule, for any acquisitions and any window.
`AnswersComplete` uses it for every row of a run. `CompleteInv` says that a cached index, an index at hand and
the files unpacked are what the options of some run, this one or an earlier one, give for the build; that
`settings` only grows keeps this across crashes (`OptionsKept`). Every row that is no longer pending is given up
and logged, has no resolvable line, or is resolved in such an index, and a row is written from the
table at the end of the run only, when nothing is pending.

Assumptions: those named in the modules (`...Assumption`), which say what a program, a call, a file or a row
is, and for `EntryHeld` that a private method is no entry and that a call of one has no other target.
`Inputs` assumes that there are finitely many files, that what a directory or an archive lists is a file, that the jars packed
into an APEX are files, called jars and told apart by their bytes, and that `MAX_DEPTH` is positive (a jar of an APEX starts one deep).
TLC evaluates all of them on every run.

Only model-checked: liveness (fairness and ENABLED are beyond the prover); `FilesAreWhole`, `NativeIsTheDex` and
`TextIsTheDex`, that the readers and decoders are exact (they fold over bytes, code units and lines, and what a fold computes for
every input is an induction over data).

## 5. What the code does otherwise than it says

Each of these has a run whose counterexample shows it.

1. **A call that passes nothing nameable is not met** (extract.rs:118; run `injector_unrecorded`).
   Only calls with a nameable operand are recorded, so a fresh object passed at another call does not
   contradict the lock that is. mod.rs:281 calls the analysis sound; it is where every caller is
   recorded (`RecordedCallsAreSound`).
2. **tryLock is held on both outcomes** (flow.rs:274; run `held_flow_trylock`), README.md:381 and
   flow.rs:27 say on success only.
3. **A gate that may be held serializes nothing** (ctx.rs:871; run `lock_context_gate`): `gate`
   intersects locks that *may* be held at the two sites; two threads that come without it deadlock.
4. **A partly unpacked archive counts as unpacked** (artifact.rs:61; run `pipeline_reuse`): one
   failing entry, and the next group of the same build is indexed, and cached, from the rest.

Seen while modelling, without a run of their own:

- *Names.* An untracked store leaves no conflict (extract.rs:65): the field stays an alias although
  another object is assigned elsewhere, and mod.rs:175 says it is left distinct; `AnswersAreTrue`
  speaks of fields whose every store is noted. Neither does a new object stored where a lock is noted (`f = lock` here, `f = new U` there), since
  pass (c) looks at fields without a note only (mod.rs:208); and a class counts as allocated once if it is stored in one field
  (mod.rs:79-83 says so; mod.rs:199-207 counts fields, not allocations). Two self-locking classes stored in one field only, the same one: the
  hash map picks (mod.rs:205-211), so the answer depends on the run. `name_of` remembers the first name it finds for a lock in
  a method (ctx.rs:238): where a block is laid out before the acquisition it runs under, or two
  acquisitions share a line, that may be another acquisition's.
- *Registers.* dexdump.rs:371-373 says an opcode without a model never defines a register with a lock in
  practice; it does not forget what the register held either, so after an array load or a caught
  exception the register is still taken for the lock it was (extract.rs:159-165). The pass takes the last
  definition above for the value, also where a branch skips it: a getter whose branches load two locks
  into one register has one return and counts as trivial (extract.rs:169-175 asks for one value), and an object is
  renamed to the field it is stored in although the store may be skipped (extract.rs:81-91). It is renamed to a
  field of `this` also when the base is only named from `this`: after `this.f = new T`, `t.g = u` for a new
  `u` names it as the `g` of `this` (the test is on the root `This`, extract.rs:85), which no other use of `t.g` is named.
  The pass for the getters and the second one may disagree on what a getter returns (mod.rs:133-147; `GettersAgree`).
- *Views.* A field that holds a stored view (`this.r = rw.readLock()`, later `r.lock()`) is named `rw`, without
  the mode: `canonicalize` gives the target of an alias the mode of the name that led to it (mod.rs:263), which is plain.
  README.md:381-383 says that a view is its parent lock in that mode.
- *Formals.* Of a stored formal only its index is kept (extract.rs:66), so what a getter of it
  returned, or its read view, is recorded as the formal itself; the read view of a new object is recorded as
  the object (extract.rs:76-79). A formal named by its class loses its
  mode (mod.rs:115-123), so its read lock has the name of the class's monitor. `self_sync` also counts
  sites that lock a field of `this` (mod.rs:194-198), since a field keeps the root `This`.
- *Helpers.* The effects of helpers that call each other may alternate from round to round and are taken
  as they stand after `MAX_ROUNDS` (flow.rs:501). A helper that releases on some returns only has no
  effect, so its caller is taken to hold on. So has one that releases on every way, but before an instruction that throws to a handler
  of its own: in `l.unlock(); foo();` inside `try { .. } catch (E) {}` the handler is entered with what the block was entered with
  (flow.rs:444-447), the states of the two ways meet, and the release is lost (`Swallowed` in `MCHeldFlow`).
- *Spans.* The end of a span is exclusive (ctx.rs:274), so a call on the line of the release is not
  covered by the span; its own record has what it holds.
- *Passed over in silence.* Directories and entries that cannot be listed (archive.rs:105, 118) and archive entries that
  cannot be read while listing (artifact.rs:89); members whose name could not hold a dex, those named like a
  dex that are none, and what lies deeper than `MAX_DEPTH`; line programs and handler lists that cannot be decoded
  (native/mod.rs:368, 374); and the entries of an ext4 inline directory beyond the 56 bytes in the inode, which ext4 keeps in an attribute
  (ext4.rs:205).
- *Front ends.* README.md:481-483 and dex/mod.rs:50 say that the two front ends give the same model.
  The text one leaves out methods without code, has no targets for switches and no array classes, and
  has a line for the payloads that the native one skips. An `invoke-polymorphic` is a virtual call in the text one
  (dexdump.rs:370) and nothing in the native one; no dex of the catalogue has one. Of a class in two artifacts the second copy is
  dropped, but its volatile and final fields are kept (input.rs:55-83).
- *Scope.* `--scope` narrows the Soong jars of a directory and nothing else: a directory without that
  layout, one in which no Soong jar is in scope, and an unpacked archive are taken whole
  (archive.rs:114-125; README.md:233 and 284 speak of the artifacts to analyse). A cached index is used
  whatever scope and provider it was built with (resolver.rs:42-50).

And further: `meet` keeps this side's multiplicity
(flow.rs:155); handlers see the state on entry to a block, not that before the throwing instruction
(flow.rs:444-447), so a release before it is not seen in the handler; `canonicalize` stops after six hops while README.md:74-76 says the map is chased
transitively (mod.rs:257; `AliasCollapses` is stated up to that bound); a line number is truncated to
32 bits before the lookup (resolve.rs:143); the cached index is keyed by the build id alone, with
characters replaced (resolver.rs:42, 98-103); an access under a lock without a
program-wide name counts as unlocked (race.rs:176-183); a span whose lock may be held on entry by
any path yields no edges at all (ctx.rs:659); the static target is the first declaring ancestor in
hash order, so an abstract declaration may win over the inherited implementation (ctx.rs:424);
override linking looks only at or below the named class, so an implementation inherited from a base
class outside the interface is missed (ctx.rs:462-471); the type of `this` and of a field is taken
for the class of the object (ctx.rs:438-441); passes are read before the callbacks are linked, so an
object handed on through a callback is not followed (ctx.rs:510-518); binder_interfaces gives up
after 64 levels (binder.rs:122); resolve.rs:105 says a file may be a path suffix, but the code asks
that the queried file end with the site's path, so a shorter suffix matches nothing (resolve.rs:132);
and the "sole lock" of a file ignores acquisitions without a line (resolve.rs:134, README.md:98).

## 6. Abstractions

- The spans and calls of a method, with the locks held there, are inputs of `LockContext` and its
  extensions; they come from `MethodScan`, one method at a time. Methods release only locks they took
  themselves: helpers that lock or unlock for their caller are `HeldFlow`'s call effects.
- Several edges of one block, members of a worklist and groups of equal size are taken in any order,
  a superset of what one build of the code does.
- `LockContext` and its extensions take call targets and remote entries as inputs; `Dispatch` computes
  them. Thread roots, accessors, exempt fields and the accesses of a field are inputs: recognising
  them is matching of names and types.
- A file of a query is its base name and the paths it ends with; the `--method` anchor is left out.
- Where the code keeps the first of several equally good results (an edge's site, a gate, a guard),
  the model keeps them all, so a property holds whichever is kept.
- Names are values, not text: two locks are the same when their names are.

- Files are identifiers; a dex is what its tables and items are, a listing is its lines with their
  words told apart, an image is its blocks. A reader that meets something malformed fails as a whole, except for line
  programs and handler lists, which become empty.

Not modelled: argument parsing, reports, JSON, CSV and proto formatting; the codec of the index; the
ranking of findings; the zip format and the `dexdump` and `deapexer` processes (external);
`MockArtifactProvider`, which is for tests; the block-wise register pass of `flow`, whose results are
inputs of `HeldFlow`; the superblocks and bounds checks of the image readers; the
recognition of thread entries, accessors and AIDL interfaces in `race`.

## 7. Plan

Done: the modules above, in that order.

Next, to extend the model:

1. `ThreadRoots`: which methods are entries of threads (race.rs:252-298), on `Dispatch`'s hierarchy.
2. The register pass of `flow`, block by block, on `Extract`'s steps.
3. The `--method` anchor of `Lookup`.

Where a question fits an existing run (thread roots into `race`), it is asked there.

Next, to prove more: `Ends`'
safety part, that the depth of what is still to be looked into is bounded; that `Naming`'s `Resolved` is
what `Injector` computes.
