----------------------------- MODULE DispatchProofs -----------------------------
(***************************************************************************)
(* Proofs about Dispatch: type correctness, and that the calls of an       *)
(* execution go where they were linked, for every program and every order  *)
(* of the passes.                                                          *)
(***************************************************************************)
EXTENDS Dispatch, LeastNumber

-----------------------------------------------------------------------------
(***************************************************************************)
(* Types of what is read off a program.                                    *)
(***************************************************************************)
LEMMA CallTypes ==
  ASSUME IsProgram(prog), NEW k \in prog.calls
  PROVE  /\ k.caller \in Method /\ k.class \in Class /\ k.sig \in Sig /\ k.virtual \in BOOLEAN
         /\ \A p \in Position : IsArgument(k.args[p])
BY DEF IsProgram, IsCall

LEMMA LinksAreDeclared ==
  ASSUME IsProgram(prog), NEW k \in prog.calls
  PROVE  LinksOf(k) \subseteq prog.declared
<1>1. \A c, s : ResolveFrom(c, s) \subseteq prog.declared
  BY DEF ResolveFrom, DeclaredIn
<1>2. Precise(k) \subseteq prog.declared
  BY <1>1 DEF Precise
<1>3. Resolved(k) \subseteq prog.declared
  BY <1>1, <1>2 DEF Resolved
<1> QED
  BY <1>3 DEF LinksOf, Overrides

LEMMA CallbacksAreDeclared ==
  ASSUME NEW k
  PROVE  Callbacks(k) \subseteq prog.declared
<1>1. \A c, s : ResolveFrom(c, s) \subseteq prog.declared
  BY DEF ResolveFrom, DeclaredIn
<1>2. \A j : UNION {ResolveFrom(c, k.sig) : c \in ClassesAt(<<k.caller, j>>)} \subseteq prog.declared
  BY <1>1
<1> QED
  BY <1>2 DEF Callbacks

\* The passes, one by one.
LEMMA PassOf ==
  ASSUME NEW k \in prog.calls, NEW p \in Position, NEW i \in k.args[p].formals, NEW t \in linked[k]
  PROVE  [from |-> <<k.caller, i>>, to |-> <<t, p>>] \in Passes
<1>1. [from |-> <<k.caller, i>>, to |-> <<t, p>>] \in PassesAt(k, p)
  BY DEF PassesAt
<1> QED
  BY <1>1 DEF Passes

LEMMA PassTypes ==
  ASSUME TypeOK, NEW x \in Passes
  PROVE  x.from \in Method \X Position /\ x.to \in Method \X Position
<1>1. PICK k \in prog.calls : \E p \in Position : x \in PassesAt(k, p)
  BY DEF Passes
<1>2. PICK p \in Position : x \in PassesAt(k, p)
  BY <1>1
<1>3. PICK i \in k.args[p].formals : \E t \in linked[k] : x = [from |-> <<k.caller, i>>, to |-> <<t, p>>]
  BY <1>2 DEF PassesAt
<1>4. PICK t \in linked[k] : x = [from |-> <<k.caller, i>>, to |-> <<t, p>>]
  BY <1>3
<1>5. i \in Position /\ k.caller \in Method
  BY CallTypes DEF TypeOK, IsArgument
<1>6. t \in Method
  BY DEF TypeOK, IsProgram
<1> QED
  BY <1>4, <1>5, <1>6

\* The classes named at a call reach the formals of its targets.
LEMMA PassedOf ==
  ASSUME NEW k \in prog.calls, NEW p \in Position, NEW t \in linked[k], <<t, p>> \in demand,
         NEW c \in k.args[p].types
  PROVE  <<<<t, p>>, c>> \in Passed
<1>1. <<<<t, p>>, c>> \in PassedAt(k, p)
  BY DEF PassedAt
<1> QED
  BY <1>1 DEF Passed

LEMMA PassedTypes ==
  ASSUME TypeOK
  PROVE  Passed \subseteq (Method \X Position) \X Class
<1>1. SUFFICES ASSUME NEW k \in prog.calls, NEW p \in Position, NEW y \in PassedAt(k, p)
               PROVE  y \in (Method \X Position) \X Class
  BY DEF Passed
<1>2. k.args[p].types \subseteq Class
  BY CallTypes DEF TypeOK, IsArgument
<1>3. PICK t \in {m \in linked[k] : <<m, p>> \in demand} : \E c \in k.args[p].types : y = <<<<t, p>>, c>>
  BY DEF PassedAt
<1> QED
  BY <1>2, <1>3 DEF TypeOK

-----------------------------------------------------------------------------
(***************************************************************************)
(* Type correctness.                                                       *)
(***************************************************************************)
\* Entering or calling pushes a frame, returning pops one.
LEMMA FrameTypes ==
  ASSUME TypeOK, NEW k \in prog.calls, NEW c, NEW m \in Dispatched(c, k.sig),
         NEW given \in [Position -> Class], NEW f
  PROVE  Frame(m, given, SeenBy(f, k, m, given)) \in Frames
<1>1. m \in Method
  BY CallTypes DEF Dispatched, Method, TypeOK
<1> QED
  BY <1>1 DEF Frame, Frames, SeenBy

LEMMA StackTypes ==
  ASSUME TypeOK, Execution
  PROVE  stack' \in Seq(Frames)
<1>1. CASE Enter
  <2>1. PICK m \in prog.entries : \E given \in [Position -> Concrete] : stack' = <<Frame(m, given, {})>>
    BY <1>1 DEF Enter
  <2>2. PICK given \in [Position -> Concrete] : stack' = <<Frame(m, given, {})>>
    BY <2>1
  <2>3. m \in Method /\ given \in [Position -> Class]
    BY DEF TypeOK, IsProgram, Concrete
  <2> QED
    BY <2>2, <2>3 DEF Frames, Frame
<1>2. CASE \E k \in prog.calls : Invoke(k)
  <2>1. PICK k \in prog.calls : Invoke(k)
    BY <1>2
  <2>2. PICK c \in DispatchedOn(Top, k) : \E m \in Dispatched(c, k.sig) : \E given \in [Position -> Class] :
               stack' = Append(stack, Frame(m, given, SeenBy(Top, k, m, given)))
    BY <2>1 DEF Invoke
  <2>3. PICK m \in Dispatched(c, k.sig) : \E given \in [Position -> Class] :
               stack' = Append(stack, Frame(m, given, SeenBy(Top, k, m, given)))
    BY <2>2
  <2>4. PICK given \in [Position -> Class] :
               stack' = Append(stack, Frame(m, given, SeenBy(Top, k, m, given)))
    BY <2>3
  <2>5. Frame(m, given, SeenBy(Top, k, m, given)) \in Frames
    BY FrameTypes
  <2> QED
    BY <2>4, <2>5 DEF TypeOK
<1>3. CASE Return
  <2>1. stack \in Seq(Frames) /\ stack # <<>> /\ stack' = SubSeq(stack, 1, Len(stack) - 1)
    BY <1>3 DEF Return, TypeOK
  <2> QED
    BY <2>1
<1> QED
  BY <1>1, <1>2, <1>3 DEF Execution

LEMMA InvokedTypes ==
  ASSUME IsProgram(prog)
  PROVE  Invoked \subseteq Method \X Position
<1>1. SUFFICES ASSUME NEW k \in prog.calls
               PROVE  {<<k.caller, j>> : j \in OnFormal(k)} \subseteq Method \X Position
  BY DEF Invoked
<1>2. IsArgument(Receiver(k)) /\ k.caller \in Method
  BY CallTypes, PositionAssumption DEF Receiver
<1> QED
  BY <1>2 DEF OnFormal, IsArgument

LEMMA InitTypes == Init => TypeOK
BY ProgramsAssumption DEF Init, TypeOK

LEMMA StepTypes ==
  ASSUME TypeOK, [Next]_vars
  PROVE  TypeOK'
<1>1. CASE UNCHANGED vars
  BY <1>1 DEF vars, TypeOK, Frames
<1>2. CASE Link
  <2>1. prog' = prog /\ reach' = reach /\ stack' = stack /\ phase' = "demand"
        /\ demand' = Invoked /\ targets' = [k \in prog.calls |-> LinksOf(k)] /\ linked' = targets'
    BY <1>2 DEF Link
  <2>2. targets' \in [prog.calls -> SUBSET prog.declared] /\ demand' \subseteq Method \X Position
    BY <2>1, LinksAreDeclared, InvokedTypes DEF TypeOK
  <2> QED
    BY <2>1, <2>2 DEF TypeOK
<1>3. CASE Demand
  <2>1. PICK x \in MoreDemand : demand' = demand \cup {x.from}
    BY <1>3 DEF Demand
  <2>2. x.from \in Method \X Position
    BY PassTypes DEF MoreDemand
  <2> QED
    BY <1>3, <2>1, <2>2 DEF Demand, TypeOK
<1>4. CASE DemandDone
  BY <1>4, PassedTypes DEF DemandDone, TypeOK
<1>5. CASE Flow
  <2>1. PICK x \in MoreFlow : reach' = reach \cup {<<x.to, c>> : c \in ClassesAt(x.from)}
    BY <1>5 DEF Flow
  <2>2. x.to \in Method \X Position
    BY PassTypes DEF MoreFlow
  <2>3. {<<x.to, c>> : c \in ClassesAt(x.from)} \subseteq (Method \X Position) \X Class
    <3>1. \A c \in ClassesAt(x.from) : <<x.to, c>> \in (Method \X Position) \X Class
      BY <2>2 DEF ClassesAt
    <3> QED
      BY <3>1
  <2> QED
    BY <1>5, <2>1, <2>3 DEF Flow, TypeOK
<1>6. CASE FlowDone
  BY <1>6, CallbacksAreDeclared DEF FlowDone, TypeOK
<1>7. CASE Execution
  <2>1. UNCHANGED <<prog, phase, targets, linked, demand, reach>>
    BY <1>7 DEF Execution, Enter, Invoke, Return
  <2> QED
    BY <1>7, <2>1, StackTypes DEF TypeOK
<1> QED
  BY <1>1, <1>2, <1>3, <1>4, <1>5, <1>6, <1>7 DEF Next, Solver

\* Every variable keeps its type.
THEOREM TypeCorrect == Spec => []TypeOK
<1>1. TypeOK /\ [Next]_vars => TypeOK'
  BY StepTypes
<1> QED
  BY InitTypes, <1>1, PTL DEF Spec

-----------------------------------------------------------------------------
(***************************************************************************)
(* The invariant.  What each phase has finished stays finished, and the    *)
(* class of an object a frame has seen is among those that reach it.       *)
(***************************************************************************)
LinksDone == linked = [k \in prog.calls |-> LinksOf(k)]

DemandFinished == Invoked \subseteq demand /\ MoreDemand = {}

FlowFinished == Passed \subseteq reach /\ MoreFlow = {}

TargetsDone == targets = [k \in prog.calls |-> linked[k] \cup Callbacks(k)]

SeenIsReached(f) ==
  \A p \in f.seen : <<f.method, p>> \in demand => <<<<f.method, p>>, f.given[p]>> \in reach

DispatchInv ==
  /\ TypeOK
  /\ FirstIsAncestor
  /\ phase # "link" => LinksDone
  /\ phase = "demand" => Invoked \subseteq demand
  /\ phase = "flow" => DemandFinished /\ Passed \subseteq reach /\ targets = linked
  /\ phase \in {"link", "demand"} => targets = linked
  /\ phase = "done" => DemandFinished /\ FlowFinished /\ TargetsDone
  /\ phase # "done" => stack = <<>>
  /\ \A i \in 1 .. Len(stack) : SeenIsReached(stack[i])

\* A call hands on what reached its own frame, and adds the classes it names.
LEMMA CallSeesReached ==
  ASSUME TypeOK, DemandFinished, FlowFinished,
         NEW f \in Frames, SeenIsReached(f), NEW k \in prog.calls, k.caller = f.method,
         NEW m, NEW given \in [Position -> Class],
         \A p \in Position : given[p] \in ClassesGiven(f, k, p)
  PROVE  SeenIsReached(Frame(m, given, SeenBy(f, k, m, given)))
<1>1. SUFFICES ASSUME NEW p \in SeenBy(f, k, m, given), <<m, p>> \in demand
               PROVE  <<<<m, p>>, given[p]>> \in reach
  BY DEF SeenIsReached, Frame
<1>2. p \in Position /\ m \in linked[k]
      /\ (given[p] \in k.args[p].types \/ k.args[p].formals \cap f.seen # {})
  BY DEF SeenBy
<1>3. CASE given[p] \in k.args[p].types
  BY <1>1, <1>2, <1>3, PassedOf DEF FlowFinished
<1>4. CASE k.args[p].formals \cap f.seen # {}
  <2>1. PICK j \in k.args[p].formals : j \in f.seen
    BY <1>4
  <2>2. \A x, y \in k.args[p].formals : x = y
    BY <1>2, CallTypes DEF TypeOK, IsArgument
  <2>3. given[p] = f.given[j]
    BY <1>2, <2>1, <2>2 DEF ClassesGiven
  <2> DEFINE x == [from |-> <<k.caller, j>>, to |-> <<m, p>>]
  <2>4. x \in Passes
    BY <1>2, PassOf
  <2>5. x.from \in demand
    BY <1>1, <2>4 DEF DemandFinished, MoreDemand
  <2>6. <<x.from, given[p]>> \in reach
    BY <2>1, <2>3, <2>5 DEF SeenIsReached
  <2>7. given[p] \in ClassesAt(x.from)
    BY <1>2, <2>6 DEF ClassesAt
  <2>8. ClassesAt(x.from) \subseteq ClassesAt(x.to)
    BY <1>1, <2>4 DEF FlowFinished, MoreFlow
  <2> QED
    BY <2>7, <2>8 DEF ClassesAt
<1> QED
  BY <1>2, <1>3, <1>4

LEMMA StackSees ==
  ASSUME DispatchInv, Execution
  PROVE  \A i \in 1 .. Len(stack') : SeenIsReached(stack'[i])
<1>1. stack \in Seq(Frames) /\ phase = "done"
  BY DEF DispatchInv, TypeOK, Execution, Enter, Invoke, Return
<1>2. CASE Enter
  <2>1. PICK m \in prog.entries : \E given \in [Position -> Concrete] : stack' = <<Frame(m, given, {})>>
    BY <1>2 DEF Enter
  <2>2. PICK given \in [Position -> Concrete] : stack' = <<Frame(m, given, {})>>
    BY <2>1
  <2>3. SeenIsReached(Frame(m, given, {}))
    BY DEF SeenIsReached, Frame
  <2> QED
    BY <2>2, <2>3
<1>3. CASE \E k \in prog.calls : Invoke(k)
  <2>1. PICK k \in prog.calls : Invoke(k)
    BY <1>3
  <2>2. Top \in Frames /\ SeenIsReached(Top) /\ k.caller = Top.method
    BY <1>1, <2>1 DEF Invoke, Top, DispatchInv
  <2>3. PICK c \in DispatchedOn(Top, k) : \E m \in Dispatched(c, k.sig) : \E given \in [Position -> Class] :
               /\ \A p \in Position : given[p] \in ClassesGiven(Top, k, p)
               /\ stack' = Append(stack, Frame(m, given, SeenBy(Top, k, m, given)))
    BY <2>1 DEF Invoke
  <2>4. PICK m \in Dispatched(c, k.sig) : \E given \in [Position -> Class] :
               /\ \A p \in Position : given[p] \in ClassesGiven(Top, k, p)
               /\ stack' = Append(stack, Frame(m, given, SeenBy(Top, k, m, given)))
    BY <2>3
  <2>5. PICK given \in [Position -> Class] :
               /\ \A p \in Position : given[p] \in ClassesGiven(Top, k, p)
               /\ stack' = Append(stack, Frame(m, given, SeenBy(Top, k, m, given)))
    BY <2>4
  <2>6. SeenIsReached(Frame(m, given, SeenBy(Top, k, m, given)))
    BY <1>1, <2>2, <2>5, CallSeesReached DEF DispatchInv
  <2>7. Frame(m, given, SeenBy(Top, k, m, given)) \in Frames
    BY FrameTypes DEF DispatchInv
  <2> QED
    BY <1>1, <2>5, <2>6, <2>7 DEF DispatchInv
<1>4. CASE Return
  BY <1>1, <1>4 DEF Return, DispatchInv
<1> QED
  BY <1>2, <1>3, <1>4 DEF Execution

LEMMA InvInit == Init => DispatchInv
BY InitTypes DEF Init, DispatchInv

\* What depends on the program only does not change.
LEMMA ProgramKept ==
  ASSUME prog' = prog
  PROVE  /\ \A k : LinksOf(k)' = LinksOf(k)
         /\ \A k : OnFormal(k)' = OnFormal(k)
         /\ Invoked' = Invoked
         /\ FirstIsAncestor' = FirstIsAncestor
<1>1. \A c : Ancestors(c)' = Ancestors(c)
  BY DEF Ancestors
<1>2. \A c, s : DeclaredIn(c, s)' = DeclaredIn(c, s)
  BY DEF DeclaredIn
<1>3. \A c, s : ResolveFrom(c, s)' = ResolveFrom(c, s)
  BY <1>2 DEF ResolveFrom
<1>4. \A k : Precise(k)' = Precise(k)
  BY <1>3 DEF Precise, Receiver
<1>5. \A k : Resolved(k)' = Resolved(k)
  BY <1>3, <1>4 DEF Resolved
<1>6. \A k : Remote(k)' = Remote(k)
  <2>1. \A m : IsBinder(m)' = IsBinder(m)
    BY <1>1 DEF IsBinder, Transacting, IsTransact, AtOrBelow
  <2> QED
    BY <1>5, <2>1 DEF Remote
<1>7. \A k : Overrides(k)' = Overrides(k)
  BY <1>1, <1>4, <1>6 DEF Overrides, Receiver, Narrow, AtOrBelow
<1>8. \A k : LinksOf(k)' = LinksOf(k)
  BY <1>5, <1>7 DEF LinksOf
<1>9. \A k : OnFormal(k)' = OnFormal(k)
  BY <1>6 DEF OnFormal, Receiver
<1>10. Invoked' = Invoked
  BY <1>9 DEF Invoked
<1>11. FirstIsAncestor' = FirstIsAncestor
  BY <1>1, <1>2 DEF FirstIsAncestor
<1> QED
  BY <1>8, <1>9, <1>10, <1>11

LEMMA PassesKept ==
  ASSUME prog' = prog, linked' = linked
  PROVE  Passes' = Passes
<1>1. \A k, p : PassesAt(k, p)' = PassesAt(k, p)
  BY DEF PassesAt
<1> QED
  BY <1>1 DEF Passes

LEMMA PassedKept ==
  ASSUME prog' = prog, linked' = linked, demand' = demand
  PROVE  Passed' = Passed
<1>1. \A k, p : PassedAt(k, p)' = PassedAt(k, p)
  BY DEF PassedAt
<1> QED
  BY <1>1 DEF Passed

LEMMA CallbacksKept ==
  ASSUME prog' = prog, reach' = reach
  PROVE  \A k : Callbacks(k)' = Callbacks(k)
<1>1. \A c, s : ResolveFrom(c, s)' = ResolveFrom(c, s)
  BY DEF ResolveFrom, DeclaredIn
<1>2. \A f : ClassesAt(f)' = ClassesAt(f)
  BY DEF ClassesAt
<1> QED
  BY <1>1, <1>2, ProgramKept DEF Callbacks

LEMMA InvStep ==
  ASSUME DispatchInv, [Next]_vars
  PROVE  DispatchInv'
<1>1. TypeOK'
  BY StepTypes DEF DispatchInv
<1>2. prog' = prog
  BY DEF Next, Solver, Execution, Link, Demand, DemandDone, Flow, FlowDone, Enter, Invoke, Return, vars
<1>3. FirstIsAncestor'
  BY <1>2, ProgramKept DEF DispatchInv
<1>4. ASSUME linked' = linked, LinksDone PROVE LinksDone'
  BY <1>2, <1>4, ProgramKept DEF LinksDone
<1>5. CASE Link
  <2>1. phase = "link" /\ phase' = "demand" /\ stack' = stack
        /\ linked' = [k \in prog.calls |-> LinksOf(k)] /\ targets' = linked' /\ demand' = Invoked
    BY <1>5 DEF Link
  <2>2. LinksDone' /\ Invoked' = Invoked
    BY <1>2, <2>1, ProgramKept DEF LinksDone
  <2> QED
    BY <1>1, <1>3, <2>1, <2>2 DEF DispatchInv
<1>6. CASE Demand
  <2>1. phase = "demand" /\ phase' = phase /\ linked' = linked /\ targets' = targets /\ stack' = stack
        /\ demand \subseteq demand'
    BY <1>6 DEF Demand
  <2>2. LinksDone' /\ Invoked' = Invoked
    BY <1>2, <1>4, <2>1, ProgramKept DEF DispatchInv
  <2> QED
    BY <1>1, <1>3, <2>1, <2>2 DEF DispatchInv
<1>7. CASE DemandDone
  <2>1. phase = "demand" /\ phase' = "flow" /\ linked' = linked /\ targets' = targets /\ stack' = stack
        /\ demand' = demand /\ MoreDemand = {} /\ reach' = Passed
    BY <1>7 DEF DemandDone
  <2>2. LinksDone' /\ Invoked' = Invoked
    BY <1>2, <1>4, <2>1, ProgramKept DEF DispatchInv
  <2>3. DemandFinished'
    BY <1>2, <2>1, <2>2, PassesKept DEF DispatchInv, DemandFinished, MoreDemand
  <2>4. (Passed \subseteq reach)'
    BY <1>2, <2>1, PassedKept
  <2> QED
    BY <1>1, <1>3, <2>1, <2>2, <2>3, <2>4 DEF DispatchInv
<1>8. CASE Flow
  <2>1. phase = "flow" /\ phase' = phase /\ linked' = linked /\ targets' = targets /\ stack' = stack
        /\ demand' = demand /\ reach \subseteq reach'
    BY <1>8 DEF Flow
  <2>2. LinksDone' /\ Invoked' = Invoked
    BY <1>2, <1>4, <2>1, ProgramKept DEF DispatchInv
  <2>3. DemandFinished'
    BY <1>2, <2>1, <2>2, PassesKept DEF DispatchInv, DemandFinished, MoreDemand
  <2>4. (Passed \subseteq reach)'
    BY <1>2, <2>1, PassedKept DEF DispatchInv
  <2> QED
    BY <1>1, <1>3, <2>1, <2>2, <2>3, <2>4 DEF DispatchInv
<1>9. ASSUME linked' = linked, demand' = demand, DemandFinished PROVE DemandFinished'
  BY <1>2, <1>9, PassesKept, ProgramKept DEF DemandFinished, MoreDemand
<1>10. ASSUME linked' = linked, demand' = demand, reach' = reach, FlowFinished PROVE FlowFinished'
  BY <1>2, <1>10, PassesKept, PassedKept DEF FlowFinished, MoreFlow, ClassesAt
<1>11. CASE FlowDone
  <2>1. phase = "flow" /\ phase' = "done" /\ linked' = linked /\ stack' = stack
        /\ demand' = demand /\ reach' = reach /\ MoreFlow = {}
        /\ targets' = [k \in prog.calls |-> targets[k] \cup Callbacks(k)]
    BY <1>11 DEF FlowDone
  <2>2. LinksDone' /\ DemandFinished' /\ FlowFinished'
    BY <1>4, <1>9, <1>10, <2>1 DEF DispatchInv, FlowFinished
  <2>3. targets = linked
    BY <2>1 DEF DispatchInv
  <2>4. TargetsDone'
    BY <1>2, <2>1, <2>3, CallbacksKept DEF TargetsDone
  <2> QED
    BY <1>1, <1>3, <2>1, <2>2, <2>4 DEF DispatchInv
<1>12. ASSUME phase = "done", UNCHANGED <<phase, targets, linked, demand, reach>>
       PROVE  LinksDone' /\ DemandFinished' /\ FlowFinished' /\ TargetsDone'
  <2>1. LinksDone' /\ DemandFinished' /\ FlowFinished'
    BY <1>4, <1>9, <1>10, <1>12 DEF DispatchInv
  <2>2. TargetsDone'
    BY <1>2, <1>12, CallbacksKept DEF DispatchInv, TargetsDone
  <2> QED
    BY <2>1, <2>2
<1>13. CASE Execution
  <2>1. phase = "done" /\ UNCHANGED <<phase, targets, linked, demand, reach>>
    BY <1>13 DEF Execution, Enter, Invoke, Return
  <2>2. \A i \in 1 .. Len(stack') : SeenIsReached(stack[i])'
    BY <1>13, <2>1, StackSees DEF SeenIsReached
  <2> QED
    BY <1>1, <1>3, <1>12, <2>1, <2>2 DEF DispatchInv
<1>14. CASE UNCHANGED vars
  <2>1. UNCHANGED <<phase, targets, linked, demand, reach, stack>>
    BY <1>14 DEF vars
  <2>2. Invoked' = Invoked /\ Passed' = Passed
    BY <1>2, <2>1, ProgramKept, PassedKept
  <2>3. \A i \in 1 .. Len(stack') : SeenIsReached(stack[i])'
    BY <2>1 DEF DispatchInv, SeenIsReached
  <2>4. phase = "done" => TargetsDone'
    BY <1>12, <2>1
  <2> QED
    BY <1>1, <1>3, <1>4, <1>9, <1>10, <2>1, <2>2, <2>3, <2>4 DEF DispatchInv
<1> QED
  BY <1>5, <1>6, <1>7, <1>8, <1>11, <1>13, <1>14 DEF Next, Solver

\* What the code resolves and what it links hold in every reachable state.
THEOREM DispatchInvariant == Spec => []DispatchInv
<1>1. DispatchInv /\ [Next]_vars => DispatchInv'
  BY InvStep
<1> QED
  BY InvInit, <1>1, PTL DEF Spec

-----------------------------------------------------------------------------
(***************************************************************************)
(* Where the calls of a thread go.                                         *)
(***************************************************************************)
\* With one implementation to choose, the code chooses the one that runs.
LEMMA CertainDispatch ==
  ASSUME FirstIsAncestor, NEW c \in Class, NEW s \in Sig, Certain(c, s), NEW m \in Dispatched(c, s)
  PROVE  m \in ResolveFrom(c, s)
<1> DEFINE found == {a \in Class : AtOrBelow(c, a) /\ <<a, s>> \in prog.declared \ prog.abstract}
<1> DEFINE lowest == {a \in found : ~ \E b \in found \ {a} : a \in Ancestors(b)}
<1>0. m \in lowest \X {s}
  BY Zenon DEF Dispatched
<1>1. PICK a \in found : m = <<a, s>> /\ ~ \E b \in found \ {a} : a \in Ancestors(b)
  <2> HIDE DEF found
  <2> QED
    BY <1>0
<1>2. CASE <<c, s>> \in prog.declared
  <2>1. <<c, s>> \notin prog.abstract
    BY <1>2 DEF Certain
  <2>2. c \in found
    BY <1>2, <2>1 DEF AtOrBelow
  <2>3. a = c
    BY <1>1, <2>2 DEF AtOrBelow
  <2> QED
    BY <1>1, <1>2, <2>3 DEF ResolveFrom
<1>3. CASE <<c, s>> \notin prog.declared
  <2>1. m \in DeclaredIn(Ancestors(c), s)
    BY <1>1, <1>3 DEF AtOrBelow, DeclaredIn
  <2>2. \A n \in DeclaredIn(Ancestors(c), s) : n = m
    BY <1>3, <2>1 DEF Certain
  <2>3. prog.first[<<c, s>>] = {a}
    BY <1>1, <2>1, <2>2 DEF FirstIsAncestor
  <2> QED
    BY <1>1, <1>3, <2>3 DEF ResolveFrom, DeclaredIn
<1> QED
  BY <1>2, <1>3

\* A receiver created on the spot has the class the bytecode names.
LEMMA FreshReceiver ==
  ASSUME IsProgram(prog), NEW f, NEW k \in prog.calls, k.virtual, Receiver(k).fresh,
         NEW c \in DispatchedOn(f, k)
  PROVE  ResolveFrom(c, k.sig) \subseteq LinksOf(k)
<1>1. IsArgument(Receiver(k)) /\ Receiver(k) = k.args[0]
  BY CallTypes, PositionAssumption DEF Receiver
<1>2. Receiver(k).formals = {}
  BY <1>1 DEF IsArgument
<1>3. c \in Receiver(k).types
  BY <1>1, <1>2 DEF DispatchedOn, ClassesGiven
<1>4. \A x \in Receiver(k).types : x = c
  BY <1>1, <1>3 DEF IsArgument
<1>5. CASE c = k.class
  <2>1. Precise(k) = {}
    BY <1>4, <1>5 DEF Precise
  <2> QED
    BY <1>5, <2>1 DEF LinksOf, Resolved
<1>6. CASE c # k.class
  <2>1. Receiver(k).types \ {k.class} = {c}
    BY <1>3, <1>4, <1>6
  <2>2. Precise(k) = ResolveFrom(c, k.sig)
    BY <2>1 DEF Precise
  <2>3. ResolveFrom(c, k.sig) \subseteq Resolved(k)
    BY <2>2 DEF Resolved
  <2> QED
    BY <2>3 DEF LinksOf
<1> QED
  BY <1>5, <1>6

\* A receiver that was seen when it was passed in is among the classes that reach it.
LEMMA SeenReceiver ==
  ASSUME IsProgram(prog), DemandFinished, NEW f \in Frames, SeenIsReached(f),
         NEW k \in prog.calls, k.caller = f.method, k.virtual, ~ Remote(k),
         Receiver(k).formals \cap f.seen # {}, NEW c \in DispatchedOn(f, k)
  PROVE  ResolveFrom(c, k.sig) \subseteq Callbacks(k)
<1>1. IsArgument(Receiver(k)) /\ Receiver(k) = k.args[0]
  BY CallTypes, PositionAssumption DEF Receiver
<1>2. PICK j \in OnFormal(k) : j \in f.seen
  BY DEF OnFormal
<1>3. j \in Receiver(k).formals /\ \A i \in Receiver(k).formals : i = j
  BY <1>1, <1>2 DEF OnFormal, IsArgument
<1>4. c = f.given[j] /\ c \in Class
  BY <1>1, <1>3 DEF DispatchedOn, ClassesGiven, Instances, Concrete
<1>5. <<k.caller, j>> \in Invoked
  BY <1>2 DEF Invoked
<1>6. <<<<k.caller, j>>, c>> \in reach
  BY <1>2, <1>4, <1>5 DEF DemandFinished, SeenIsReached
<1>7. c \in ClassesAt(<<k.caller, j>>)
  BY <1>4, <1>6 DEF ClassesAt
<1>8. ResolveFrom(c, k.sig) \subseteq UNION {ResolveFrom(d, k.sig) : d \in ClassesAt(<<k.caller, j>>)}
  BY <1>7
<1> QED
  BY <1>2, <1>8 DEF Callbacks

LEMMA InvLinks == DispatchInv => RunsAreLinked
<1>1. SUFFICES ASSUME DispatchInv, stack # <<>>, NEW k \in prog.calls, k.caller = Top.method,
                      NEW c \in DispatchedOn(Top, k), NEW m \in Dispatched(c, k.sig),
                      Foretold(Top, k, c, m)
               PROVE  m \in targets[k]
  BY DEF RunsAreLinked
<1>2. phase = "done" /\ LinksDone /\ DemandFinished /\ TargetsDone /\ FirstIsAncestor
  BY <1>1 DEF DispatchInv
<1>3. IsProgram(prog) /\ stack \in Seq(Frames)
  BY <1>1 DEF DispatchInv, TypeOK
<1>4. Top \in Frames /\ SeenIsReached(Top)
  BY <1>1, <1>3 DEF Top, DispatchInv
<1>5. targets[k] = LinksOf(k) \cup Callbacks(k)
  BY <1>2 DEF LinksDone, TargetsDone
<1>6. k.class \in Class /\ k.sig \in Sig
  BY <1>3, CallTypes
<1>7. c \in Class
  BY <1>6 DEF DispatchedOn, Instances, Concrete
<1>8. CASE ~ k.virtual /\ Certain(c, k.sig)
  <2>1. c = k.class
    BY <1>8 DEF DispatchedOn
  <2>2. m \in ResolveFrom(c, k.sig)
    BY <1>2, <1>6, <1>7, <1>8, CertainDispatch
  <2>3. m \in Resolved(k)
    BY <1>8, <2>1, <2>2 DEF Resolved, Precise
  <2> QED
    BY <1>5, <2>3 DEF LinksOf
<1>9. CASE k.virtual /\ Receiver(k).fresh /\ Certain(c, k.sig)
  <2>1. m \in ResolveFrom(c, k.sig)
    BY <1>2, <1>6, <1>7, <1>9, CertainDispatch
  <2> QED
    BY <1>3, <1>5, <1>9, <2>1, FreshReceiver
<1>10. CASE /\ k.virtual /\ ~ Remote(k) /\ Certain(c, k.sig)
            /\ Receiver(k).formals \cap Top.seen # {}
  <2>1. m \in ResolveFrom(c, k.sig)
    BY <1>2, <1>6, <1>7, <1>10, CertainDispatch
  <2> QED
    BY <1>1, <1>2, <1>3, <1>4, <1>5, <1>10, <2>1, SeenReceiver
<1>11. CASE /\ k.virtual /\ ~ Remote(k) /\ Narrow(k.sig)
            /\ Receiver(k).formals = {} /\ Precise(k) = {}
            /\ AtOrBelow(m[1], k.class)
  <2>1. m \in prog.declared /\ m[2] = k.sig
    BY DEF Dispatched
  <2>2. m \in Overrides(k)
    BY <1>11, <2>1 DEF Overrides
  <2> QED
    BY <1>5, <2>2 DEF LinksOf
<1> QED
  BY <1>1, <1>8, <1>9, <1>10, <1>11 DEF Foretold

\* Whatever chain of calls handed the receiver on, the method that a thread's call
\* runs was linked to the call if its class was known, was seen to be passed in, or
\* the method is an override that is not too common.
THEOREM RunsLinked == Spec => []RunsAreLinked
BY DispatchInvariant, InvLinks, PTL
-----------------------------------------------------------------------------
(***************************************************************************)
(* The type-flow.  What is carried along the passes is an iteration, whose *)
(* length is the number of passes; the two fixpoints of the code come to   *)
(* the same at every formal that is invoked on.                            *)
(***************************************************************************)
Flows == (Method \X Position) \X Class

LEMMA PassesAreFinite ==
  ASSUME TypeOK
  PROVE  IsFiniteSet(Passes)
<1> DEFINE F == Method \X Position
           g == [x \in Passes |-> <<x.from, x.to>>]
<1>1. IsFiniteSet(F)
  BY FiniteAssumption, FS_Product DEF Method
<1> HIDE DEF F
<1>2. IsFiniteSet(F \X F)
  BY <1>1, FS_Product
<1>3. \A x \in Passes : x = [from |-> x.from, to |-> x.to]
  BY DEF Passes, PassesAt
<1>4. g \in Injection(Passes, F \X F)
  <2>1. g \in [Passes -> F \X F]
    BY PassTypes DEF F
  <2>2. \A x, y \in Passes : g[x] = g[y] => x = y
    BY <1>3
  <2> HIDE DEF g
  <2> QED
    BY <2>1, <2>2 DEF Injection, IsInjective
<1> QED
  BY <1>2, <1>4, FS_Injection

LEMMA NamedTypes ==
  ASSUME TypeOK
  PROVE  NamedAnywhere \subseteq Flows
<1>1. SUFFICES ASSUME NEW k \in prog.calls, NEW p \in Position, NEW m \in linked[k], NEW c \in k.args[p].types
               PROVE  <<<<m, p>>, c>> \in Flows
  BY DEF NamedAnywhere, NamedAt
<1>2. k.args[p].types \subseteq Class
  BY CallTypes DEF TypeOK, IsArgument
<1>3. m \in Method
  BY DEF TypeOK, IsProgram
<1> QED
  BY <1>2, <1>3 DEF Flows

LEMMA HandedIs ==
  ASSUME NEW some, some \subseteq Flows
  PROVE  \A f, c : <<f, c>> \in HandedOn(some) <=> \E x \in Passes : x.to = f /\ <<x.from, c>> \in some
<1>1. ASSUME NEW x \in Passes, NEW c, <<x.from, c>> \in some PROVE <<x.to, c>> \in HandedOn(some)
  <2>1. <<x.from, c>>[1] = x.from /\ <<x.from, c>>[2] = c
    OBVIOUS
  <2>2. <<x.to, c>> \in {<<x.to, y[2]>> : y \in {z \in some : z[1] = x.from}}
    BY <1>1, <2>1
  <2> QED
    BY <2>2 DEF HandedOn
<1>2. ASSUME NEW f, NEW c, <<f, c>> \in HandedOn(some) PROVE \E x \in Passes : x.to = f /\ <<x.from, c>> \in some
  <2>1. PICK x \in Passes : <<f, c>> \in {<<x.to, y[2]>> : y \in {z \in some : z[1] = x.from}}
    BY <1>2 DEF HandedOn
  <2>2. PICK y \in some : y[1] = x.from /\ <<f, c>> = <<x.to, y[2]>>
    BY <2>1
  <2>3. y = <<y[1], y[2]>>
    BY DEF Flows
  <2> QED
    BY <2>2, <2>3
<1> QED
  BY <1>1, <1>2

LEMMA HandedTypes ==
  ASSUME TypeOK, NEW some, some \subseteq Flows
  PROVE  HandedOn(some) \subseteq Flows
<1>1. SUFFICES ASSUME NEW x \in Passes, NEW y \in some PROVE <<x.to, y[2]>> \in Flows
  BY DEF HandedOn
<1> QED
  BY PassTypes DEF Flows

\* The iteration that Carried is the end of.
LEMMA CarriedSteps ==
  ASSUME TypeOK
  PROVE  \E f \in [0 .. Cardinality(Passes) -> SUBSET Flows] :
           /\ f[0] = NamedAnywhere
           /\ \A n \in 1 .. Cardinality(Passes) : f[n] = f[n - 1] \cup HandedOn(f[n - 1])
           /\ Carried = f[Cardinality(Passes)]
<1> DEFINE N == Cardinality(Passes)
           Fits(g) == g = [n \in 0 .. N |-> IF n = 0 THEN NamedAnywhere ELSE g[n - 1] \cup HandedOn(g[n - 1])]
           f == CHOOSE g : Fits(g)
           S == SUBSET Flows
<1>1. N \in Nat
  BY PassesAreFinite, FS_CardinalityType
<1>2. NamedAnywhere \in S
  BY NamedTypes
<1>3. \A x \in S : x \cup HandedOn(x) \in S
  BY HandedTypes
<1>4. Carried = f[N]
  BY DEF Carried
<1> HIDE DEF S, N
<1>5. PICK h \in [0 .. N -> S] : h[0] = NamedAnywhere /\ \A n \in 1 .. N : h[n] = h[n - 1] \cup HandedOn(h[n - 1])
  <2> DEFINE step == [n \in 1 .. N |-> [x \in S |-> x \cup HandedOn(x)]]
  <2>1. Steps(step, S, 0, N)
    BY <1>1, <1>3 DEF Steps
  <2>2. ASSUME NEW g \in [0 .. N -> S], NEW n \in 1 .. N PROVE step[n][g[n - 1]] = g[n - 1] \cup HandedOn(g[n - 1])
    <3>1. g[n - 1] \in S
      BY <1>1
    <3> QED
      BY <3>1
  <2> HIDE DEF step
  <2>3. PICK g : Trace(g, step, S, 0, N, NamedAnywhere)
    <3>1. 0 \in Nat /\ N \in Nat /\ 0 <= N
      BY <1>1
    <3> QED
      BY <1>2, <2>1, <3>1, IterationExists
  <2>4. g \in [0 .. N -> S] /\ g[0] = NamedAnywhere /\ \A n \in 1 .. N : g[n] = step[n][g[n - 1]]
    BY <2>3 DEF Trace
  <2> QED
    BY <2>2, <2>4, ZenonT(30)
<1>6. Fits(f)
  <2>1. \A n \in 0 .. N : n # 0 => n \in 1 .. N
    BY <1>1
  <2>2. \A n \in 0 .. N : h[n] = IF n = 0 THEN NamedAnywhere ELSE h[n - 1] \cup HandedOn(h[n - 1])
    BY <1>5, <2>1
  <2>3. Fits(h)
    BY <2>2
  <2> HIDE DEF Fits
  <2> QED
    BY <2>3
<1> HIDE DEF f
<1>7. f[0] = NamedAnywhere
  BY <1>1, <1>6
<1>8. ASSUME NEW n \in 1 .. N PROVE f[n] = f[n - 1] \cup HandedOn(f[n - 1])
  <2>1. n \in 0 .. N /\ n # 0
    BY <1>1
  <2> QED
    BY <1>6, <2>1
<1>9. f = [n \in 0 .. N |-> f[n]]
  BY <1>6
<1> HIDE DEF Fits
<1>10. \A n \in 0 .. N : f[n] \in S
  <2> DEFINE Good == {n \in 0 .. N : f[n] \in S}
  <2>1. 0 \in Good
    BY <1>1, <1>2, <1>7
  <2>2. ASSUME NEW n \in Good, n \in 0 .. N - 1 PROVE n + 1 \in Good
    <3>1. n + 1 \in 1 .. N /\ (n + 1) - 1 = n /\ f[n] \in S
      BY <1>1, <2>2
    <3>2. f[n + 1] \in S
      BY <1>3, <1>8, <3>1, SMTT(30)
    <3> QED
      BY <3>1, <3>2
  <2> HIDE DEF Good
  <2>3. 0 .. N \subseteq Good
    BY <1>1, <2>1, <2>2, IntervalInduction
  <2> QED
    BY <2>3 DEF Good
<1>11. f \in [0 .. N -> S]
  BY <1>9, <1>10
<1> QED
  BY <1>4, <1>7, <1>8, <1>11 DEF N, S

\* After as many rounds as there are passes, no pass hands on anything new: a class
\* that went further would have used a pass of its own in every round.
LEMMA CarriedIsClosed ==
  ASSUME TypeOK, NEW x \in Passes, NEW c, <<x.from, c>> \in Carried
  PROVE  <<x.to, c>> \in Carried
<1> DEFINE N == Cardinality(Passes)
<1>1. IsFiniteSet(Passes) /\ N \in Nat
  BY PassesAreFinite, FS_CardinalityType
<1>2. PICK f \in [0 .. N -> SUBSET Flows] :
        /\ f[0] = NamedAnywhere
        /\ \A n \in 1 .. N : f[n] = f[n - 1] \cup HandedOn(f[n - 1])
        /\ Carried = f[N]
  BY CarriedSteps
<1>3. SUFFICES ASSUME <<x.to, c>> \notin f[N] PROVE FALSE
  BY <1>2
<1> DEFINE Used(n) == {z \in Passes : <<z.to, c>> \in f[n]}
           Open(n) == \E z \in Passes : <<z.from, c>> \in f[n] /\ <<z.to, c>> \notin f[n]
           Good == {n \in 0 .. N : Open(n) => Cardinality(Used(n)) >= n}
<1>4. \A n \in 0 .. N : IsFiniteSet(Used(n)) /\ Cardinality(Used(n)) \in Nat
  <2>1. SUFFICES ASSUME NEW n \in 0 .. N PROVE IsFiniteSet(Used(n)) /\ Cardinality(Used(n)) \in Nat
    OBVIOUS
  <2>2. Used(n) \in SUBSET Passes
    OBVIOUS
  <2> HIDE DEF Used
  <2>3. IsFiniteSet(Used(n))
    BY <1>1, <2>2, FS_Subset
  <2> QED
    BY <2>3, FS_CardinalityType
<1>5. 0 \in Good
  <2>1. 0 \in 0 .. N
    BY <1>1
  <2>2. Cardinality(Used(0)) >= 0
    BY <1>4, <2>1
  <2> QED
    BY <2>1, <2>2
<1>6. ASSUME NEW n \in Good, n \in 0 .. N - 1 PROVE n + 1 \in Good
  <2>1. n \in 0 .. N /\ n + 1 \in 0 .. N /\ n + 1 \in 1 .. N /\ (n + 1) - 1 = n
    BY <1>1, <1>6
  <2>2. f[n + 1] = f[n] \cup HandedOn(f[n]) /\ f[n] \subseteq Flows
    BY <1>2, <2>1
  <2>3. SUFFICES ASSUME Open(n + 1) PROVE Cardinality(Used(n + 1)) >= n + 1
    BY <2>1
  <2>4. PICK z \in Passes : <<z.from, c>> \in f[n + 1] /\ <<z.to, c>> \notin f[n + 1]
    BY <2>3
  <2>5. <<z.from, c>> \notin f[n]
    BY <2>2, <2>4, HandedIs
  <2>6. PICK y \in Passes : y.to = z.from /\ <<y.from, c>> \in f[n]
    BY <2>2, <2>4, <2>5, HandedIs
  <2>7. Open(n)
    BY <2>5, <2>6
  <2>8. Cardinality(Used(n)) >= n
    BY <1>6, <2>7
  <2>9. Used(n) \subseteq Used(n + 1) /\ y \in Used(n + 1) /\ y \notin Used(n)
    BY <2>2, <2>4, <2>5, <2>6
  <2>10. IsFiniteSet(Used(n)) /\ IsFiniteSet(Used(n + 1)) /\ Cardinality(Used(n)) \in Nat /\ Cardinality(Used(n + 1)) \in Nat
    BY <1>4, <2>1
  <2> HIDE DEF Used
  <2>11. Cardinality(Used(n)) <= Cardinality(Used(n + 1)) /\ Cardinality(Used(n)) # Cardinality(Used(n + 1))
    <3>1. Used(n) \in SUBSET Used(n + 1) /\ Used(n) # Used(n + 1)
      BY <2>9
    <3> QED
      BY <2>10, <3>1, FS_Subset
  <2> QED
    BY <2>1, <2>8, <2>10, <2>11
<1> HIDE DEF Good
<1>7. 0 .. N \subseteq Good
  BY <1>1, <1>5, <1>6, IntervalInduction
<1>8. N \in Good /\ N \in 0 .. N
  BY <1>1, <1>7
<1>9. Open(N)
  BY <1>2, <1>3
<1>10. Cardinality(Used(N)) >= N
  BY <1>8, <1>9 DEF Good
<1>11. Used(N) = Passes
  <2>1. Used(N) \in SUBSET Passes /\ Cardinality(Used(N)) \in Nat
    BY <1>4, <1>8
  <2> HIDE DEF Used
  <2>2. Cardinality(Used(N)) <= N /\ (N = Cardinality(Used(N)) => Passes = Used(N))
    BY <1>1, <2>1, FS_Subset
  <2> QED
    BY <1>1, <1>10, <2>1, <2>2
<1>12. x \in Used(N)
  BY <1>11
<1> QED
  BY <1>3, <1>12

\* What reaches a formal is carried there ...
ReachIsCarried == phase = "flow" => reach \subseteq Carried

LEMMA NamedIsCarried ==
  ASSUME TypeOK
  PROVE  NamedAnywhere \subseteq Carried
<1> DEFINE N == Cardinality(Passes)
<1>1. N \in Nat
  BY PassesAreFinite, FS_CardinalityType
<1>2. PICK f \in [0 .. N -> SUBSET Flows] :
        /\ f[0] = NamedAnywhere
        /\ \A n \in 1 .. N : f[n] = f[n - 1] \cup HandedOn(f[n - 1])
        /\ Carried = f[N]
  BY CarriedSteps
<1> HIDE DEF N
<1> DEFINE Good == {n \in 0 .. N : NamedAnywhere \subseteq f[n]}
<1>3. 0 \in Good
  BY <1>1, <1>2
<1>4. ASSUME NEW n \in Good, n \in 0 .. N - 1 PROVE n + 1 \in Good
  <2>1. n + 1 \in 1 .. N /\ (n + 1) - 1 = n /\ NamedAnywhere \subseteq f[n]
    BY <1>1, <1>4
  <2>2. f[n + 1] = f[n] \cup HandedOn(f[n])
    BY <1>2, <2>1
  <2> QED
    BY <1>1, <2>1, <2>2
<1> HIDE DEF Good
<1>5. 0 .. N \subseteq Good
  BY <1>1, <1>3, <1>4, IntervalInduction
<1>6. N \in Good
  BY <1>1, <1>5
<1> QED
  BY <1>2, <1>6 DEF Good

LEMMA CarriedKept ==
  ASSUME prog' = prog, linked' = linked
  PROVE  Carried' = Carried
<1>1. Passes' = Passes
  BY PassesKept
<1>2. NamedAnywhere' = NamedAnywhere
  BY DEF NamedAnywhere, NamedAt
<1>3. \A some : HandedOn(some)' = HandedOn(some)
  BY <1>1 DEF HandedOn
<1> QED
  BY <1>1, <1>2, <1>3 DEF Carried

LEMMA PassedIsNamed ==
  ASSUME NEW k, NEW p
  PROVE  PassedAt(k, p) \subseteq NamedAt(k, p)
<1>1. SUFFICES ASSUME NEW y \in PassedAt(k, p) PROVE y \in NamedAt(k, p)
  OBVIOUS
<1> DEFINE some == {m \in linked[k] : <<m, p>> \in demand}
<1>2. y \in {<<<<t, p>>, c>> : t \in some, c \in k.args[p].types}
  BY DEF PassedAt
<1>3. some \subseteq linked[k]
  OBVIOUS
<1> HIDE DEF some
<1>4. PICK t \in some, c \in k.args[p].types : y = <<<<t, p>>, c>>
  BY <1>2
<1> QED
  BY <1>3, <1>4 DEF NamedAt

LEMMA ReachStep ==
  ASSUME DispatchInv, ReachIsCarried, [Next]_vars
  PROVE  ReachIsCarried'
<1>1. TypeOK
  BY DEF DispatchInv
<1>2. CASE DemandDone
  <2>1. prog' = prog /\ linked' = linked /\ reach' = Passed
    BY <1>2 DEF DemandDone
  <2>2. Passed \subseteq NamedAnywhere
    <3>1. SUFFICES ASSUME NEW k \in prog.calls, NEW p \in Position PROVE PassedAt(k, p) \subseteq NamedAnywhere
      BY DEF Passed
    <3>2. PassedAt(k, p) \subseteq NamedAt(k, p)
      BY PassedIsNamed
    <3> QED
      BY <3>2 DEF NamedAnywhere
  <2>3. Carried' = Carried
    BY <2>1, CarriedKept
  <2> QED
    BY <1>1, <2>1, <2>2, <2>3, NamedIsCarried DEF ReachIsCarried
<1>3. CASE Flow
  <2>1. phase = "flow" /\ prog' = prog /\ linked' = linked
    BY <1>3 DEF Flow
  <2>2. PICK x \in Passes : reach' = reach \cup {<<x.to, c>> : c \in ClassesAt(x.from)}
    BY <1>3 DEF Flow, MoreFlow
  <2>3. \A c \in ClassesAt(x.from) : <<x.to, c>> \in Carried
    BY <1>1, <2>1, CarriedIsClosed DEF ClassesAt, ReachIsCarried
  <2>4. Carried' = Carried
    BY <2>1, CarriedKept
  <2> QED
    BY <2>1, <2>2, <2>3, <2>4 DEF ReachIsCarried
<1>4. CASE phase' # "flow"
  BY <1>4 DEF ReachIsCarried
<1>5. CASE UNCHANGED vars
  <2>1. Carried' = Carried
    BY <1>5, CarriedKept DEF vars
  <2> QED
    BY <1>5, <2>1 DEF ReachIsCarried, vars
<1>6. ASSUME Next, ~ DemandDone, ~ Flow PROVE phase' # "flow"
  BY <1>6 DEF Next, Solver, Execution, Link, Demand, FlowDone, Enter, Invoke, Return
<1> QED
  BY <1>2, <1>3, <1>4, <1>5, <1>6

\* ... and what is carried to a formal that is invoked on reaches it.
LEMMA CarriedReaches ==
  ASSUME TypeOK, DemandFinished, FlowFinished
  PROVE  \A y \in Carried : y[1] \in demand => y \in reach
<1> DEFINE N == Cardinality(Passes)
<1>1. N \in Nat
  BY PassesAreFinite, FS_CardinalityType
<1>2. PICK f \in [0 .. N -> SUBSET Flows] :
        /\ f[0] = NamedAnywhere
        /\ \A n \in 1 .. N : f[n] = f[n - 1] \cup HandedOn(f[n - 1])
        /\ Carried = f[N]
  BY CarriedSteps
<1> HIDE DEF N
<1> DEFINE Good == {n \in 0 .. N : \A y \in f[n] : y[1] \in demand => y \in reach}
<1>3. 0 \in Good
  <2>1. ASSUME NEW k \in prog.calls, NEW p \in Position, NEW m \in linked[k], NEW c \in k.args[p].types, <<m, p>> \in demand
        PROVE  <<<<m, p>>, c>> \in reach
    BY <2>1, PassedOf DEF FlowFinished
  <2>2. \A y \in NamedAnywhere : y[1] \in demand => y \in reach
    BY <2>1 DEF NamedAnywhere, NamedAt
  <2> QED
    BY <1>1, <1>2, <2>2
<1>4. ASSUME NEW n \in Good, n \in 0 .. N - 1 PROVE n + 1 \in Good
  <2>1. n \in 0 .. N /\ n + 1 \in 1 .. N /\ (n + 1) - 1 = n /\ \A y \in f[n] : y[1] \in demand => y \in reach
    BY <1>1, <1>4
  <2>2. f[n + 1] = f[n] \cup HandedOn(f[n]) /\ f[n] \subseteq Flows
    BY <1>2, <2>1
  <2>3. SUFFICES ASSUME NEW z \in HandedOn(f[n]), z[1] \in demand PROVE z \in reach
    BY <1>1, <2>1, <2>2
  <2>4. PICK x \in Passes : \E y \in f[n] : y[1] = x.from /\ z = <<x.to, y[2]>>
    BY DEF HandedOn
  <2>5. PICK y \in f[n] : y[1] = x.from /\ z = <<x.to, y[2]>>
    BY <2>4
  <2>6. x.to \in demand /\ x.from \in demand
    BY <2>3, <2>5 DEF DemandFinished, MoreDemand
  <2>7. y \in reach /\ y = <<x.from, y[2]>> /\ y[2] \in Class
    BY <2>1, <2>2, <2>5, <2>6 DEF Flows
  <2>8. y[2] \in ClassesAt(x.from) /\ ClassesAt(x.from) \subseteq ClassesAt(x.to)
    BY <2>6, <2>7 DEF ClassesAt, FlowFinished, MoreFlow
  <2> QED
    BY <2>5, <2>8 DEF ClassesAt
<1> HIDE DEF Good
<1>5. 0 .. N \subseteq Good
  BY <1>1, <1>3, <1>4, IntervalInduction
<1>6. N \in Good
  BY <1>1, <1>5
<1> QED
  BY <1>2, <1>6 DEF Good

\* "For every formal that is invoked on ... collect the concrete classes callers pass
\* in" (ctx.rs:492-495): demand and flow find at such a formal exactly the
\* classes that some chain of passes of any length carries there.
THEOREM TypeFlowExact == Spec => []FlowIsExact
<1>1. DispatchInv /\ ReachIsCarried => FlowIsExact
  <2>1. SUFFICES ASSUME DispatchInv, ReachIsCarried, phase = "flow", MoreFlow = {},
                        NEW k \in prog.calls, NEW j \in OnFormal(k)
                 PROVE  ClassesAt(<<k.caller, j>>) = {c \in Class : <<<<k.caller, j>>, c>> \in Carried}
    BY DEF FlowIsExact
  <2>2. TypeOK /\ DemandFinished /\ FlowFinished
    BY <2>1 DEF DispatchInv, FlowFinished
  <2>3. <<k.caller, j>> \in demand
    BY <2>2 DEF DemandFinished, Invoked
  <2>4. \A c : <<<<k.caller, j>>, c>> \in Carried => <<<<k.caller, j>>, c>> \in reach
    BY <2>2, <2>3, CarriedReaches
  <2>5. reach \subseteq Carried
    BY <2>1 DEF ReachIsCarried
  <2> QED
    BY <2>4, <2>5 DEF ClassesAt
<1>2. Init => ReachIsCarried
  BY DEF Init, ReachIsCarried
<1>3. DispatchInv /\ ReachIsCarried /\ [Next]_vars => ReachIsCarried'
  BY ReachStep
<1> QED
  BY <1>1, <1>2, <1>3, DispatchInvariant, PTL DEF Spec
=============================================================================
