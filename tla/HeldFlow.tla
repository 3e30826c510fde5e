------------------------------ MODULE HeldFlow ------------------------------
(***************************************************************************)
(* Which locks does a method hold at each of its instructions?             *)
(* (src/dex/flow.rs, `run`: basic blocks, the forward dataflow of the held *)
(* stack over normal and exception edges, and the replay of each block.)   *)
(*                                                                         *)
(* A method is its instructions and its exception table, and the helpers   *)
(* it calls: bodies of their own, whose net effects are solved first, by   *)
(* the same dataflow (`effects`, `effect_of`).  The operand of a lock      *)
(* instruction is already resolved: `named` says whether the register pass *)
(* knew it.  When the dataflow has converged a second actor executes the   *)
(* method, helpers, exceptions and failing tryLocks included, and the      *)
(* analysis is sound if what it reports held is held.                      *)
(***************************************************************************)
EXTENDS Integers, Sequences, FiniteSets, FiniteSetsExt, SequencesExt, Functions, TLC

CONSTANTS
  Lock,         \* the locks of the program that have a name
  Methods,      \* the methods analysed: see IsMethod
  Monitors,     \* for those compiled from `synchronized` blocks alone: see IsNested
  Steady(_, _), \* what the helpers of a method do where no way matters: see IsSteady
  MaxRounds,    \* MAX_ROUNDS
  MaxHeld,      \* bound on the recursion depth of one lock in an execution
  MaxCalls,     \* bound on the helpers under way at once in an execution
  MaxSteps      \* bound on the instructions a helper executes

LockOps == {"Enter", "Exit", "Acquire", "TryAcquire", "Release"}
Jumps   == {"Goto", "Branch", "Switch"}
Plain   == {"Call", "Other", "Return", "Throw"}

(***************************************************************************)
(* One record shape for all instructions.  lock and named belong to lock   *)
(* operations, targets to jumps, callee to calls.                          *)
(***************************************************************************)
IsInsn(i) ==
  /\ i = [op |-> i.op, lock |-> i.lock, named |-> i.named, targets |-> i.targets, callee |-> i.callee]
  /\ i.op \in LockOps \cup Jumps \cup Plain
  /\ i.op \in LockOps => i.lock \in Lock /\ i.named \in BOOLEAN
  /\ i.op \in Jumps => i.targets \subseteq Nat \ {0}

\* catches holds <<start, end, handler>> for the range start .. end - 1; lines
\* has the source line of every instruction, NoLine if none is known.
NoLine == 0

IsBody(b, names) ==
  /\ b.insns = [i \in 1 .. Len(b.insns) |-> b.insns[i]]
  /\ Len(b.insns) \in Nat \ {0}
  /\ \A i \in 1 .. Len(b.insns) : IsInsn(b.insns[i]) /\ (b.insns[i].op = "Call" => b.insns[i].callee \in names)
  /\ b.lines \in [1 .. Len(b.insns) -> Nat]
  /\ b.catches \subseteq (Nat \ {0}) \X (Nat \ {0}) \X (Nat \ {0})

IsMethod(t) ==
  /\ t = [insns |-> t.insns, lines |-> t.lines, catches |-> t.catches, entry |-> t.entry, helpers |-> t.helpers]
  /\ IsBody(t, DOMAIN t.helpers)
  /\ t.entry \in Seq(Lock)
  /\ \A h \in DOMAIN t.helpers : IsBody(t.helpers[h], DOMAIN t.helpers)

\* Helper h of t as a method of its own, which is entered with nothing held.
HelperOf(t, h) ==
  LET b == t.helpers[h]
  IN  [insns |-> b.insns, lines |-> b.lines, catches |-> b.catches, entry |-> <<>>, helpers |-> t.helpers]

\* What the dataflow is run over.
Bodies == Methods \cup UNION {{HelperOf(t, h) : h \in DOMAIN t.helpers} : t \in Methods}

ASSUME MethodsAssumption == \A m \in Methods : IsMethod(m)

\* The locks of the blocks around what follows an instruction.
Within(insn, locks) ==
  CASE insn.op = "Enter" -> locks \cup {insn.lock}
    [] insn.op = "Exit"  -> locks \ {insn.lock}
    [] OTHER             -> locks

(***************************************************************************)
(* Method b is compiled from `synchronized` blocks that nest and lock      *)
(* nothing twice, and around[i] are the locks of those around instruction  *)
(* i.  Each way out of a block is a monitor-exit, and an exception goes to *)
(* a handler with the same blocks around it: a compiler covers the exits   *)
(* by the block's own handler, that handler's exit too.  What is called    *)
(* has no lock instructions.                                               *)
(***************************************************************************)
Lockless(h) == \A i \in 1 .. Len(h.insns) : h.insns[i].op \in (Jumps \cup Plain) \ {"Call"}

IsNested(b, around) ==
  /\ around \in [1 .. Len(b.insns) -> SUBSET Lock]
  /\ around[1] = {b.entry[k] : k \in 1 .. Len(b.entry)} /\ IsInjective(b.entry)
  /\ \A i \in 1 .. Len(b.insns) :
       LET insn == b.insns[i]
       IN  /\ insn.op \in {"Enter", "Exit"} \cup Jumps \cup Plain
           /\ insn.op = "Enter" => insn.named /\ insn.lock \notin around[i]
           /\ insn.op = "Exit" => insn.named /\ insn.lock \in around[i]
           /\ insn.op = "Call" => Lockless(b.helpers[insn.callee])
           /\ insn.op \notin {"Goto", "Return", "Throw"} /\ i < Len(b.insns) => around[i + 1] = Within(insn, around[i])
           /\ insn.op \in Jumps => \A j \in insn.targets \cap 1 .. Len(b.insns) : around[j] = around[i]
           /\ \A c \in b.catches : c[1] <= i /\ i < c[2] /\ c[3] \in 1 .. Len(b.insns) => around[c[3]] = around[i]

ASSUME MonitorsAssumption == \A b \in DOMAIN Monitors : b \in Methods /\ IsNested(b, Monitors[b])

(***************************************************************************)
(* Where instruction i of a body leads: the next ones, 0 for a return, and *)
(* the handlers that cover it.                                             *)
(***************************************************************************)
NextOf(b, i) ==
  LET insn == b.insns[i]
  IN  CASE insn.op \in {"Branch", "Switch"} -> (insn.targets \cup {i + 1}) \cap 1 .. Len(b.insns)
        [] insn.op = "Goto"                 -> insn.targets \cap 1 .. Len(b.insns)
        [] insn.op = "Return"               -> {0}
        [] insn.op = "Throw"                -> {}
        [] OTHER                            -> {i + 1} \cap 1 .. Len(b.insns)

HandlersOf(b, i) == {c[3] : c \in {k \in b.catches : k[1] <= i /\ i < k[2]}} \cap 1 .. Len(b.insns)

(***************************************************************************)
(* What was done so far: the locks taken and still held, and the locks     *)
(* released that the caller held.                                          *)
(***************************************************************************)
IsDone(d) == d = [held |-> d.held, freed |-> d.freed] /\ d.held \subseteq Lock /\ d.freed \subseteq Lock

Nothing == [held |-> {}, freed |-> {}]

\* Then the locks `frees` are released, and the locks `takes` are taken.
After(d, takes, frees) == [held |-> (d.held \ frees) \cup takes, freed |-> d.freed \cup (frees \ d.held)]

\* No lock is taken twice, and none is released twice.
Fits(d, takes, frees) == takes \cap (d.held \ frees) = {} /\ frees \cap (d.freed \ d.held) = {}

(***************************************************************************)
(* Body b is steady: whichever way an instruction i is reached, s.at[i]    *)
(* was done, and s.back where it returns.  A handler finds what was done   *)
(* at every instruction of its range.  back has what each helper it calls  *)
(* does.                                                                   *)
(***************************************************************************)
Takes(insn, back) ==
  CASE insn.op \in {"Enter", "Acquire"} -> {insn.lock}
    [] insn.op = "Call"                -> back[insn.callee].held
    [] OTHER                           -> {}

Frees(insn, back) ==
  CASE insn.op \in {"Exit", "Release"} -> {insn.lock}
    [] insn.op = "Call"               -> back[insn.callee].freed
    [] OTHER                          -> {}

IsSteady(b, s, back) ==
  /\ s.at[1] = Nothing
  /\ \A i \in 1 .. Len(b.insns) :
       LET insn == b.insns[i]
           takes == Takes(insn, back)
           frees == Frees(insn, back)
       IN  /\ insn.op # "TryAcquire"
           /\ insn.op \in LockOps => insn.named
           /\ insn.op = "Exit" => insn.lock \in s.at[i].held
           /\ Fits(s.at[i], takes, frees)
           /\ \A j \in NextOf(b, i) \ {0} : s.at[j] = After(s.at[i], takes, frees)
           /\ insn.op = "Return" => s.at[i] = s.back
           /\ \A j \in HandlersOf(b, i) : s.at[j] = s.at[i]

ASSUME SteadyAssumption ==
  \A t \in Methods : \A h \in DOMAIN t.helpers :
    LET s == Steady(t, h)
    IN  IsDone(s.back) /\ \A i \in 1 .. Len(t.helpers[h].insns) : IsDone(s.at[i])

\* Executions nest helpers at least as deep as the rounds see.
ASSUME BoundsAssumption == {MaxRounds, MaxHeld, MaxCalls, MaxSteps} \subseteq Nat \ {0} /\ MaxRounds <= MaxCalls

VARIABLES
  top,      \* the method to be walked; never changes
  runs,     \* what each of its helpers may come to; never changes
  m,        \* what the dataflow is run over: the method, or one of its helpers
  phase,    \* "effects", "helper", "solve", "done"
  eff,      \* the effect of every helper, as far as it is known
  next,     \* the effects found in this round
  todo,     \* the helpers left in this round
  round,    \* the rounds over
  inn,      \* the entry state of each block reached
  work,     \* the blocks queued
  edges,    \* the edges of the block popped last still to be taken
  pc,       \* the instruction to execute next, 0 when not running
  has       \* how often the execution holds each lock

vars == <<top, runs, m, phase, eff, next, todo, round, inn, work, edges, pc, has>>

-----------------------------------------------------------------------------
(***************************************************************************)
(* The held stack: an entry for each lock, at a depth of its own, with the *)
(* line it was taken on, NoLine if it was held on entry; a release may     *)
(* leave a gap.  unmatched are the named releases that matched nothing.    *)
(***************************************************************************)
Opaque(i) == <<"opaque", i>>

\* A lock without a name is none of those that have one.
ASSUME OpaqueAssumption == \A body \in Bodies : \A i \in 1 .. Len(body.insns) : Opaque(i) \notin Lock

Held(st) == {e.lock : e \in st.locks}

Top(st) == Max({0} \cup {e.depth : e \in st.locks})

\* The locks of a sequence are taken on this line, the last on top.
Push(st, ls, line) ==
  [st EXCEPT !.locks = @ \cup {[depth |-> Top(st) + k, lock |-> ls[k], enter |-> line] : k \in 1 .. Len(ls)}]

Topmost(st) == CHOOSE e \in st.locks : \A o \in st.locks : o.depth <= e.depth

Innermost(st, l) == Topmost([st EXCEPT !.locks = {e \in @ : e.lock = l}])

\* The innermost of each of these locks is dropped.
Pop(st, ls) == [st EXCEPT !.locks = @ \ {Innermost(st, l) : l \in ls \cap Held(st)}]

PopTop(st) == [st EXCEPT !.locks = {e \in @ : e # Topmost(st)}]

Release(st, ls) == [Pop(st, ls) EXCEPT !.unmatched = @ \cup (ls \ Held(st))]

\* Mutant of Meet: the join is union.
MeetUnion(st, other) == IF Held(st) \subseteq Held(other) THEN other ELSE st

\* Intersection by name, keeping the depths of st.
Meet(st, other) ==
  [locks |-> {e \in st.locks : e.lock \in Held(other)}, unmatched |-> st.unmatched \cap other.unmatched]

-----------------------------------------------------------------------------
(***************************************************************************)
(* Basic blocks.  A block is named by its first instruction.               *)
(***************************************************************************)
Size == Len(m.insns)

Op(i) == m.insns[i].op

Leaders ==
  {1}
    \cup (UNION {m.insns[i].targets : i \in {j \in 1 .. Size : Op(j) \in Jumps}})
    \cup {i + 1 : i \in {j \in 1 .. Size : Op(j) \in Jumps \cup {"Return", "Throw"}}}
    \cup (UNION {{c[1], c[2], c[3]} : c \in m.catches})

Blocks == Leaders \cap 1 .. Size

\* The end of block b: the next leader.
End(b) == Min({l \in Leaders \cup {Size + 1} : l > b})

BlockOf(i) == Max({b \in Blocks : b <= i})

Fall(b) == {End(b)} \cap Blocks

\* Mutant of Succ: a branch is always taken.
SuccTaken(b) == m.insns[End(b) - 1].targets \cap Blocks

Succ(b) ==
  LET last == m.insns[End(b) - 1]
  IN  CASE last.op = "Goto"                 -> last.targets \cap Blocks
        [] last.op \in {"Branch", "Switch"} -> (last.targets \cap Blocks) \cup Fall(b)
        [] last.op \in {"Return", "Throw"}  -> {}
        [] OTHER                            -> Fall(b)

Exc(b) == {c[3] : c \in {k \in m.catches : b < k[2] /\ End(b) > k[1]}} \cap Blocks

-----------------------------------------------------------------------------
(***************************************************************************)
(* The transfer of one instruction and of the first instructions of a      *)
(* block.                                                                  *)
(***************************************************************************)
Operand(i) == IF m.insns[i].named THEN m.insns[i].lock ELSE Opaque(i)

\* A callee with effect e has returned to this line; its locks come in a fixed order.
Returned(st, e, line) == Push(Release(st, e.releases), SetToSeq(e.acquires), line)

Apply(st, i) ==
  LET insn == m.insns[i]
  IN  CASE insn.op \in {"Enter", "Acquire", "TryAcquire"} -> Push(st, <<Operand(i)>>, m.lines[i])
        [] insn.op = "Exit"    -> IF insn.named THEN Pop(st, {insn.lock}) ELSE PopTop(st)
        [] insn.op = "Release" -> IF insn.named THEN Release(st, {insn.lock}) ELSE st
        [] insn.op = "Call"    -> Returned(st, eff[insn.callee], m.lines[i])
        [] OTHER               -> st

\* The state before instruction i of block b, from entry state st.
Before(b, st, i) ==
  LET at[k \in b .. Size + 1] == IF k = b THEN st ELSE Apply(at[k - 1], k - 1)
  IN  at[i]

Out(b, st) == Before(b, st, End(b))

\* What the replay reports held at instruction i, when its block is reached.
HeldAt(i) == Held(Before(BlockOf(i), inn[BlockOf(i)], i))

-----------------------------------------------------------------------------
(***************************************************************************)
(* Executions, one instruction at a time.  d.net[l] is how often lock l    *)
(* was taken less how often it was released, d.needs[l] how often it must  *)
(* be held for no release to fail.                                         *)
(***************************************************************************)
Gains(l) == [net |-> [o \in Lock |-> IF o = l THEN 1 ELSE 0], needs |-> [o \in Lock |-> 0]]

Loses(l) == [net |-> [o \in Lock |-> IF o = l THEN -1 ELSE 0], needs |-> [o \in Lock |-> IF o = l THEN 1 ELSE 0]]

Keeps == [net |-> [o \in Lock |-> 0], needs |-> [o \in Lock |-> 0]]

\* First d, then e.
Then(d, e) ==
  [net   |-> [l \in Lock |-> d.net[l] + e.net[l]],
   needs |-> [l \in Lock |-> Max({d.needs[l], e.needs[l] - d.net[l]})]]

\* What an instruction may do when it completes, and when it throws.
Completing(insn, known) ==
  CASE insn.op \in {"Enter", "Acquire"} -> {Gains(insn.lock)}
    [] insn.op = "TryAcquire"          -> {Gains(insn.lock), Keeps}
    [] insn.op \in {"Exit", "Release"} -> {Loses(insn.lock)}
    [] insn.op = "Call"                -> known[insn.callee].returns
    [] OTHER                           -> {Keeps}

Throwing(insn, known) ==
  CASE insn.op = "Call"             -> {Keeps} \cup known[insn.callee].throws
    [] insn.op \in {"Other", "Throw"} -> {Keeps}
    [] OTHER                        -> {}

\* Where a body that an exception leaves goes on.
Gone == -1

\* The places one instruction on from x, with what was done on the way.
Onward(b, known, x) ==
  LET insn == b.insns[x.at]
  IN  {[at |-> j, did |-> Then(x.did, d)] : j \in NextOf(b, x.at), d \in Completing(insn, known)}
        \cup {[at |-> j, did |-> Then(x.did, d)] : j \in HandlersOf(b, x.at) \cup {Gone}, d \in Throwing(insn, known)}

\* Where body b may get to in k instructions.
Reach(b, known) ==
  LET upto[k \in 0 .. MaxSteps] ==
        IF k = 0 THEN {[at |-> 1, did |-> Keeps]}
        ELSE LET before == upto[k - 1]
             IN  before \cup UNION {Onward(b, known, x) : x \in {y \in before : y.at > 0}}
  IN  upto[MaxSteps]

Ends(places) ==
  [returns |-> {x.did : x \in {y \in places : y.at = 0}}, throws |-> {x.did : x \in {y \in places : y.at = Gone}}]

\* What the helpers of t may come to, those nesting at most n deep.
Runs(t) ==
  LET deep[n \in 0 .. MaxCalls] ==
        [h \in DOMAIN t.helpers |->
           IF n = 0 THEN [returns |-> {}, throws |-> {}]
           ELSE LET known == deep[n - 1] IN Ends(Reach(t.helpers[h], known))]
  IN  deep[MaxCalls]

-----------------------------------------------------------------------------
(***************************************************************************)
(* The net effects of the helpers: from none, round after round, until two *)
(* rounds agree or MaxRounds are over.  Those of one round are found from  *)
(* the ones before it, so their order does not matter.                     *)
(***************************************************************************)
NoEffect == [acquires |-> {}, releases |-> {}]

\* On entry with these locks held.
Entered(ls) == [locks |-> {[depth |-> d, lock |-> ls[d], enter |-> NoLine] : d \in 1 .. Len(ls)}, unmatched |-> {}]

Bare == Entered(<<>>)

\* The dataflow is to be run over t.
Enter(t) ==
  /\ m' = t
  /\ inn' = [b \in {1} |-> Entered(t.entry)]
  /\ work' = <<1>>
  /\ edges' = {}

Init ==
  /\ top \in Methods /\ runs = Runs(top)
  /\ phase = "effects" /\ round = 0
  /\ todo = DOMAIN top.helpers
  /\ eff = [h \in DOMAIN top.helpers |-> NoEffect] /\ next = eff
  /\ m = top
  /\ inn = [b \in {1} |-> Entered(top.entry)] /\ work = <<1>> /\ edges = {}
  /\ pc = 0
  /\ has = [l \in Lock |-> 0]

\* The helper whose turn it is.
Turn == CHOOSE h \in todo : TRUE

Pick ==
  /\ phase = "effects" /\ round < MaxRounds /\ todo # {}
  /\ phase' = "helper"
  /\ Enter(HelperOf(top, Turn))
  /\ UNCHANGED <<top, runs, eff, next, todo, round, pc, has>>

\* Mutant of Returns: an exception that is thrown counts as a return.
ReturnsAndThrows == {b \in DOMAIN inn : Op(End(b) - 1) \in {"Return", "Throw"}}

\* The blocks reached that end in a return.
Returns == {b \in DOMAIN inn : Op(End(b) - 1) = "Return"}

OnEvery(sets) == {l \in UNION sets : \A s \in sets : l \in s}

\* The locks with a name still held on every return, and those released for the caller on every return.
NetEffect ==
  LET outs == {Out(b, inn[b]) : b \in Returns}
  IN  [acquires |-> OnEvery({Held(st) : st \in outs}) \cap Lock, releases |-> OnEvery({st.unmatched : st \in outs})]

Solved ==
  /\ phase = "helper" /\ edges = {} /\ work = <<>>
  /\ phase' = "effects"
  /\ next' = [next EXCEPT ![Turn] = NetEffect]
  /\ todo' = todo \ {Turn}
  /\ UNCHANGED <<top, runs, m, eff, round, inn, work, edges, pc, has>>

Round ==
  /\ phase = "effects" /\ round < MaxRounds /\ todo = {} /\ next # eff
  /\ eff' = next /\ round' = round + 1 /\ todo' = DOMAIN top.helpers
  /\ UNCHANGED <<top, runs, m, phase, next, inn, work, edges, pc, has>>

Agreed ==
  /\ phase = "effects"
  /\ round = MaxRounds \/ (todo = {} /\ next = eff)
  /\ phase' = "solve"
  /\ Enter(top)
  /\ UNCHANGED <<top, runs, eff, next, todo, round, pc, has>>

\* Mutant of EdgesFrom: nothing is known to be held in a handler.
EdgesFromBare(b) ==
  {<<s, Out(b, inn[b])>> : s \in Succ(b)}
    \cup {<<h, Bare>> : h \in Exc(b)}

\* Normal successors see the block's out state; handlers see its entry state.
EdgesFrom(b) ==
  {<<s, Out(b, inn[b])>> : s \in Succ(b)} \cup {<<h, inn[b]>> : h \in Exc(b)}

Solving == phase \in {"helper", "solve"}

PopBlock ==
  /\ Solving
  /\ edges = {}
  /\ work # <<>>
  /\ work' = Tail(work)
  /\ edges' = EdgesFrom(Head(work))
  /\ UNCHANGED <<top, runs, m, phase, eff, next, todo, round, inn, pc, has>>

Queued(b) == \E k \in 1 .. Len(work) : work[k] = b

Joined(s, st) == IF s \in DOMAIN inn THEN Meet(inn[s], st) ELSE st

\* Mutant of Changed: a block is queued whenever an edge leads to it.
ChangedAlways(s, st) == TRUE

Changed(s, st) == s \notin DOMAIN inn \/ st # inn[s]

TakeEdge(e) ==
  LET s == e[1]
      st == Joined(s, e[2])
  IN  /\ Solving
      /\ e \in edges
      /\ edges' = edges \ {e}
      /\ inn' = [b \in DOMAIN inn \cup {s} |-> IF b = s THEN st ELSE inn[b]]
      /\ work' = IF Changed(s, st) /\ ~ Queued(s) THEN Append(work, s) ELSE work
      /\ UNCHANGED <<top, runs, m, phase, eff, next, todo, round, pc, has>>

Converge ==
  /\ phase = "solve"
  /\ edges = {}
  /\ work = <<>>
  /\ phase' = "done"
  /\ UNCHANGED <<top, runs, m, eff, next, todo, round, inn, work, edges, pc, has>>

Solver == Pick \/ Solved \/ Round \/ Agreed \/ PopBlock \/ (\E e \in edges : TakeEdge(e)) \/ Converge

-----------------------------------------------------------------------------
(***************************************************************************)
(* One execution of the method after another.                              *)
(***************************************************************************)
CountOf(seq, l) == Cardinality({k \in 1 .. Len(seq) : seq[k] = l})

Start ==
  /\ phase = "done"
  /\ pc = 0
  /\ pc' = 1
  /\ has' = [l \in Lock |-> CountOf(m.entry, l)]
  /\ UNCHANGED <<top, runs, m, phase, eff, next, todo, round, inn, work, edges>>

\* d is done to the locks held.
Do(d) ==
  /\ has' = [l \in Lock |-> has[l] + d.net[l]]
  /\ \A l \in Lock : has[l] >= d.needs[l] /\ has'[l] \in 0 .. MaxHeld

NextPc(i) == NextOf(m, i)

Complete ==
  /\ pc # 0
  /\ pc' \in NextPc(pc)
  /\ \E d \in Completing(m.insns[pc], runs) : Do(d)
  /\ UNCHANGED <<top, runs, m, phase, eff, next, todo, round, inn, work, edges>>

\* An exception goes to a handler that covers the instruction, or out.
Unwind ==
  /\ pc # 0
  /\ pc' \in HandlersOf(m, pc) \cup {0}
  /\ \E d \in Throwing(m.insns[pc], runs) : Do(d)
  /\ UNCHANGED <<top, runs, m, phase, eff, next, todo, round, inn, work, edges>>

Execution == Start \/ Complete \/ Unwind

Next == Solver \/ Execution

Spec == Init /\ [][Next]_vars

-----------------------------------------------------------------------------
(***************************************************************************)
(* Properties.                                                             *)
(***************************************************************************)

\* Entry states only shrink (`meet`, line 155), so the loop ends.
Converges == <>(phase = "done")

\* The replay (lines 463-473) visits every instruction an execution reaches.
EveryStepIsReplayed == pc # 0 => BlockOf(pc) \in DOMAIN inn

\* What the replay reports held is held.
HeldIsHeld == pc # 0 => \A l \in HeldAt(pc) \cap Lock : has[l] > 0

(***************************************************************************)
(* The reasons for which it may not be: a tryLock that fails, an unlock    *)
(* of an unknown register, a lock taken again while held, a release in a   *)
(* block of a try range before or in an instruction that throws, and a     *)
(* helper in which the way matters.                                        *)
(***************************************************************************)
MayFail == \E i \in 1 .. Size : Op(i) = "TryAcquire"

Untracked == \E i \in 1 .. Size : Op(i) \in {"Exit", "Release"} /\ ~ m.insns[i].named

Reentrant ==
  \E b \in DOMAIN inn : \E i \in b .. End(b) :
    LET st == Before(b, inn[b], i)
    IN  \E d, e \in st.locks : d # e /\ d.lock = e.lock

Drops(i) == Op(i) \in {"Exit", "Release"} \/ (Op(i) = "Call" /\ eff[m.insns[i].callee].releases # {})

CanThrow(i) == Op(i) \in {"Call", "Other", "Throw"}

DropsThenThrows ==
  \E b \in Blocks : Exc(b) # {} /\
    \/ \E i, j \in b .. End(b) - 1 : i < j /\ Drops(i) /\ CanThrow(j)
    \/ \E j \in b .. End(b) - 1 : \E d \in Throwing(m.insns[j], runs) : \E l \in Lock : d.net[l] < 0

\* The helpers in which no way matters, that return, and with those they
\* call nest at most n deep.  What is called in a try range leaves the locks
\* alone if it throws.
Settled[n \in 0 .. MaxRounds] ==
  IF n = 0 THEN {}
  ELSE {h \in DOMAIN top.helpers :
          LET b == top.helpers[h]
          IN  /\ runs[h].returns # {}
              /\ \A i \in 1 .. Len(b.insns) :
                   /\ b.insns[i].op = "Call" => b.insns[i].callee \in Settled[n - 1]
                   /\ HandlersOf(b, i) # {} => Throwing(b.insns[i], runs) \subseteq {Keeps}
              /\ IsSteady(b, Steady(top, h), [g \in DOMAIN top.helpers |-> Steady(top, g).back])}

Regular(h) == h \in Settled[MaxRounds]

\* What is applied at the calls of a helper (lines 36-39: nested helpers
\* compose) is what it does to the locks of its caller, however deep the
\* helpers nest within the rounds, and whichever way they return, by an
\* exception caught or not.  If ways differ in what was done where they
\* meet, or before an exception in a block of a try range, it is not: see
\* the helper Swallowed of MCHeldFlow.
EffectsAreExact ==
  phase = "solve" => \A h \in DOMAIN top.helpers : Regular(h) =>
    \A l \in Lock : \A d \in runs[h].returns :
      /\ d.net[l] = Cardinality({l} \cap eff[h].acquires) - Cardinality({l} \cap eff[h].releases)
      /\ d.needs[l] = Cardinality({l} \cap eff[h].releases)

CallsIrregular == \E i \in 1 .. Size : Op(i) = "Call" /\ ~ Regular(m.insns[i].callee)

Disciplined == ~ (MayFail \/ Untracked \/ Reentrant \/ DropsThenThrows \/ CallsIrregular)

DisciplinedHeldIsHeld == Disciplined => HeldIsHeld

\* A tryLock is held on its success path only (README.md:381, lines 27-28).
OnlyMayFail == MayFail /\ ~ (Untracked \/ Reentrant \/ DropsThenThrows \/ CallsIrregular)

TryLockHeldOnSuccess == OnlyMayFail => HeldIsHeld

\* On nested `synchronized` blocks nothing is lost either (lines 26-28: the
\* monitor set is path-independent): what is held is reported held.
MonitorsAreExact ==
  m \in DOMAIN Monitors /\ pc # 0 => \A l \in Lock : l \in HeldAt(pc) <=> has[l] > 0
=============================================================================
