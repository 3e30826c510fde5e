-------------------------------- MODULE Dispatch --------------------------------
(***************************************************************************)
(* The targets of calls (src/dex/ctx.rs, `build`): the static target found *)
(* up the class hierarchy, the one method of a receiver whose class is     *)
(* known, the overrides of a signature with few declarations, and, for a   *)
(* call on a formal, the methods of the classes that callers pass in.      *)
(*                                                                         *)
(* The classes passed are found by two fixpoints over the edges along      *)
(* which a formal is handed on.  Then a thread executes the program, with  *)
(* objects for receivers and arguments, and the targets are right if they  *)
(* are where its calls go.                                                 *)
(***************************************************************************)
EXTENDS Naturals, Sequences, FiniteSets

CONSTANTS
  Class, Sig,
  IInterface,   \* "android.os.IInterface"
  IBinder, BinderProxy,   \* the classes whose transact is the transaction itself
  TransactSig,  \* the signatures of transact
  PlumbingSig,  \* constructors, asBinder and getInterfaceDescriptor
  Position,     \* argument positions; the receiver is at 0
  ChaCap,       \* Options::cha_cap
  Programs,     \* the programs indexed: see IsProgram
  MaxStack      \* bound on the frames of the thread

\* A method is a class and a name with signature.
Method == Class \X Sig

(***************************************************************************)
(* What the walk knows of an argument: its class, if the bytecode names    *)
(* one (at most one), and which formal of the caller it is (at most one).  *)
(* A fresh argument is a new object, so its class is exact; `this` and a   *)
(* field's value may be of a subclass of the class named.                  *)
(***************************************************************************)
IsArgument(a) ==
  /\ a = [types |-> a.types, formals |-> a.formals, fresh |-> a.fresh]
  /\ a.types \subseteq Class /\ a.formals \subseteq Position /\ a.fresh \in BOOLEAN
  /\ \A x, y \in a.types : x = y
  /\ \A x, y \in a.formals : x = y
  /\ a.fresh => a.formals = {} /\ a.types # {}

\* A virtual call names a class and a signature, and dispatches on its receiver.
IsCall(c) ==
  /\ c = [caller |-> c.caller, class |-> c.class, sig |-> c.sig, virtual |-> c.virtual,
          args |-> c.args]
  /\ c.caller \in Method /\ c.class \in Class /\ c.sig \in Sig /\ c.virtual \in BOOLEAN
  /\ \A p \in Position : IsArgument(c.args[p])

(***************************************************************************)
(* first[<<c, s>>] is the ancestor of c whose declaration of s comes first *)
(* when the hash set of ancestors is walked; {} if there is none.          *)
(***************************************************************************)
IsProgram(p) ==
  /\ p = [parents |-> p.parents, declared |-> p.declared, abstract |-> p.abstract,
          entries |-> p.entries, first |-> p.first, calls |-> p.calls]
  /\ p.parents \in [Class -> SUBSET Class]
  /\ p.declared \subseteq Method
  /\ p.abstract \subseteq p.declared
  /\ p.entries \subseteq p.declared \ p.abstract
  /\ p.first \in [Method -> SUBSET Class]
  /\ \A c \in p.calls : IsCall(c)

ASSUME PositionAssumption == 0 \in Position
ASSUME FiniteAssumption == IsFiniteSet(Class) /\ IsFiniteSet(Sig) /\ IsFiniteSet(Position)
ASSUME CapAssumption == ChaCap \in Nat /\ MaxStack \in Nat
ASSUME ProgramsAssumption == \A p \in Programs : IsProgram(p)

VARIABLES
  prog,      \* the program; never changes
  phase,     \* "link", "demand", "flow", "done"
  targets,   \* call -> methods
  linked,    \* call -> the targets it had when the type-flow began
  demand,    \* the formals that are invoked on: <<method, position>>
  reach,     \* the classes that reach them: <<formal, class>>
  stack      \* the frames of the thread, the innermost last

vars == <<prog, phase, targets, linked, demand, reach, stack>>

-----------------------------------------------------------------------------
(***************************************************************************)
(* The hierarchy.                                                          *)
(***************************************************************************)
Ancestors(c) ==
  LET above[n \in 1 .. Cardinality(Class)] ==
        IF n = 1 THEN prog.parents[c]
        ELSE LET near == above[n - 1] IN near \cup UNION {prog.parents[a] : a \in near}
  IN  above[Cardinality(Class)]

AtOrBelow(c, top) == c = top \/ top \in Ancestors(c)

DeclaredIn(classes, s) == (classes \X {s}) \cap prog.declared

\* The declaration of s that a call on class c is resolved to, if any.
ResolveFrom(c, s) ==
  IF <<c, s>> \in prog.declared THEN {<<c, s>>}
  ELSE DeclaredIn(prog.first[<<c, s>>], s)

\* The hash order always yields one declaring ancestor if there is one.
FirstIsAncestor ==
  \A c \in Class : \A s \in Sig :
    LET found == DeclaredIn(Ancestors(c), s)
    IN  IF found = {} THEN prog.first[<<c, s>>] = {}
        ELSE \E m \in found : prog.first[<<c, s>>] = {m[1]}

-----------------------------------------------------------------------------
(***************************************************************************)
(* Targets before type-flow.                                               *)
(***************************************************************************)
Receiver(k) == k.args[0]

\* A receiver class more specific than the one the call names.
Precise(k) ==
  IF k.virtual
    THEN UNION {ResolveFrom(c, k.sig) : c \in Receiver(k).types \ {k.class}}
    ELSE {}

Resolved(k) == IF Precise(k) # {} THEN Precise(k) ELSE ResolveFrom(k.class, k.sig)

\* The call is the low-level transaction.
IsTransact(k) == k.class \in {IBinder, BinderProxy} /\ k.sig \in TransactSig

\* The client proxies, found by what they do.
Transacting == {k.caller : k \in {c \in prog.calls : IsTransact(c)}}

\* A remote entry: the transaction, a proxy of it, an abstract method of an
\* interface that extends IInterface; not a service that implements one.
IsBinder(m) ==
  \/ m[1] = IBinder /\ m[2] \in TransactSig
  \/ /\ m[2] \notin PlumbingSig
     /\ m \in Transacting \/ (m \in prog.abstract /\ AtOrBelow(m[1], IInterface))

\* A remote entry runs its implementation in another process.
Remote(k) == \E m \in Resolved(k) : IsBinder(m)

Narrow(s) == Cardinality({m \in prog.declared : m[2] = s}) <= ChaCap

\* Mutant of Overrides: only children of the class are looked at.
OverridesOfChildren(k) ==
  IF k.virtual /\ Precise(k) = {} /\ Receiver(k).formals = {} /\ ~ Remote(k) /\ Narrow(k.sig)
    THEN {m \in prog.declared : m[2] = k.sig /\ k.class \in prog.parents[m[1]]}
    ELSE {}

Overrides(k) ==
  IF k.virtual /\ Precise(k) = {} /\ Receiver(k).formals = {} /\ ~ Remote(k) /\ Narrow(k.sig)
    THEN {m \in prog.declared : m[2] = k.sig /\ AtOrBelow(m[1], k.class)}
    ELSE {}

LinksOf(k) == Resolved(k) \cup Overrides(k)

\* The formal that call k is on, if it is on one.
OnFormal(k) == IF k.virtual /\ ~ Remote(k) THEN Receiver(k).formals ELSE {}

Init ==
  /\ prog \in Programs /\ FirstIsAncestor
  /\ phase = "link"
  /\ targets = [k \in prog.calls |-> {}]
  /\ linked = targets
  /\ demand = {}
  /\ reach = {}
  /\ stack = <<>>

Invoked == UNION {{<<k.caller, j>> : j \in OnFormal(k)} : k \in prog.calls}

Link ==
  /\ phase = "link"
  /\ targets' = [k \in prog.calls |-> LinksOf(k)]
  /\ linked' = targets'
  /\ demand' = Invoked
  /\ phase' = "demand"
  /\ UNCHANGED <<prog, reach, stack>>

-----------------------------------------------------------------------------
(***************************************************************************)
(* Parameter type-flow.  A pass hands a formal of the caller on to a       *)
(* formal of a target.  The code repeats all passes in order until none    *)
(* changes anything; here they come in any order.                          *)
(***************************************************************************)
PassesAt(k, p) ==
  {[from |-> <<k.caller, i>>, to |-> <<t, p>>] : i \in k.args[p].formals, t \in linked[k]}

Passes == UNION {PassesAt(k, p) : k \in prog.calls, p \in Position}

\* Mutant of MoreDemand: handing a formal on is no demand of it.
MoreDemandNever == {x \in Passes : FALSE}

MoreDemand == {x \in Passes : x.to \in demand /\ x.from \notin demand}

Demand ==
  /\ phase = "demand"
  /\ \E x \in MoreDemand : demand' = demand \cup {x.from}
  /\ UNCHANGED <<prog, phase, targets, linked, reach, stack>>

\* The classes named at the calls themselves.
PassedAt(k, p) == {<<<<t, p>>, c>> : t \in {m \in linked[k] : <<m, p>> \in demand}, c \in k.args[p].types}

Passed == UNION {PassedAt(k, p) : k \in prog.calls, p \in Position}

DemandDone ==
  /\ phase = "demand"
  /\ MoreDemand = {}
  /\ reach' = Passed
  /\ phase' = "flow"
  /\ UNCHANGED <<prog, targets, linked, demand, stack>>

ClassesAt(f) == {c \in Class : <<f, c>> \in reach}

MoreFlow == {x \in Passes : x.to \in demand /\ ~ (ClassesAt(x.from) \subseteq ClassesAt(x.to))}

Flow ==
  /\ phase = "flow"
  /\ \E x \in MoreFlow : reach' = reach \cup {<<x.to, c>> : c \in ClassesAt(x.from)}
  /\ UNCHANGED <<prog, phase, targets, linked, demand, stack>>

\* The methods of the classes that reach the formal a call is on.
Callbacks(k) ==
  UNION {UNION {ResolveFrom(c, k.sig) : c \in ClassesAt(<<k.caller, j>>)} : j \in OnFormal(k)}

FlowDone ==
  /\ phase = "flow"
  /\ MoreFlow = {}
  /\ targets' = [k \in prog.calls |-> targets[k] \cup Callbacks(k)]
  /\ phase' = "done"
  /\ UNCHANGED <<prog, linked, demand, reach, stack>>

Solver == Link \/ Demand \/ DemandDone \/ Flow \/ FlowDone

-----------------------------------------------------------------------------
(***************************************************************************)
(* The program at run time.  A frame is a method, the classes of the       *)
(* objects it was given, and the positions of those that were seen: their  *)
(* class was named where they were passed first, and every call that       *)
(* handed them on was linked when the type-flow began.                     *)
(***************************************************************************)
Frame(m, given, seen) == [method |-> m, given |-> given, seen |-> seen]

\* A class with an abstract method has no objects.
Concrete == {c \in Class : ~ \E m \in prog.abstract : m[1] = c}

\* The classes whose objects may be receivers of a call on c.
Instances(c) == {d \in Concrete : AtOrBelow(d, c)}

\* The classes of the objects frame f may pass as argument p of call k: what it was
\* given itself, the class named, one below that, or anything.
ClassesGiven(f, k, p) ==
  LET a == k.args[p]
  IN  IF a.formals # {} THEN {f.given[j] : j \in a.formals}
      ELSE IF a.fresh THEN a.types
      ELSE IF a.types # {} THEN UNION {Instances(c) : c \in a.types}
      ELSE Concrete

SeenBy(f, k, m, given) ==
  {p \in Position :
     m \in linked[k] /\ (given[p] \in k.args[p].types \/ k.args[p].formals \cap f.seen # {})}

\* The implementations of s an object of class c may run: nothing nearer implements it.
Dispatched(c, s) ==
  LET found == {a \in Class : AtOrBelow(c, a) /\ <<a, s>> \in prog.declared \ prog.abstract}
  IN  {a \in found : ~ \E b \in found \ {a} : a \in Ancestors(b)} \X {s}

\* The class that call k of frame f is dispatched on.
DispatchedOn(f, k) ==
  IF k.virtual THEN ClassesGiven(f, k, 0) \cap Instances(k.class) ELSE {k.class}

Top == stack[Len(stack)]

Enter ==
  /\ phase = "done"
  /\ stack = <<>>
  /\ \E m \in prog.entries : \E given \in [Position -> Concrete] :
       stack' = <<Frame(m, given, {})>>
  /\ UNCHANGED <<prog, phase, targets, linked, demand, reach>>

Invoke(k) ==
  /\ phase = "done"
  /\ Len(stack) \in 1 .. MaxStack - 1
  /\ k.caller = Top.method
  /\ \E c \in DispatchedOn(Top, k) : \E m \in Dispatched(c, k.sig) : \E given \in [Position -> Class] :
       /\ \A p \in Position : given[p] \in ClassesGiven(Top, k, p)
       /\ k.virtual => given[0] = c
       /\ stack' = Append(stack, Frame(m, given, SeenBy(Top, k, m, given)))
  /\ UNCHANGED <<prog, phase, targets, linked, demand, reach>>

Return ==
  /\ phase = "done"
  /\ stack # <<>>
  /\ stack' = SubSeq(stack, 1, Len(stack) - 1)
  /\ UNCHANGED <<prog, phase, targets, linked, demand, reach>>

Execution == Enter \/ Return \/ \E k \in prog.calls : Invoke(k)

Next == Solver \/ Execution

Spec == Init /\ [][Next]_vars

-----------------------------------------------------------------------------
Frames == [method : Method, given : [Position -> Class], seen : SUBSET Position]

TypeOK ==
  /\ IsProgram(prog)
  /\ phase \in {"link", "demand", "flow", "done"}
  /\ targets \in [prog.calls -> SUBSET prog.declared]
  /\ linked \in [prog.calls -> SUBSET prog.declared]
  /\ demand \subseteq Method \X Position
  /\ reach \subseteq (Method \X Position) \X Class
  /\ stack \in Seq(Frames)

-----------------------------------------------------------------------------
(***************************************************************************)
(* Properties.                                                             *)
(***************************************************************************)
\* The classes named at the calls, of formals invoked on or not.
NamedAt(k, p) == {<<<<m, p>>, c>> : m \in linked[k], c \in k.args[p].types}

NamedAnywhere == UNION {NamedAt(k, p) : k \in prog.calls, p \in Position}

\* What one more pass makes of some classes at some formals.
HandedOn(some) == UNION {{<<x.to, y[2]>> : y \in {z \in some : z[1] = x.from}} : x \in Passes}

\* What callers pass in along any chain of passes.
Carried ==
  LET after[n \in 0 .. Cardinality(Passes)] ==
        IF n = 0 THEN NamedAnywhere
        ELSE LET before == after[n - 1] IN before \cup HandedOn(before)
  IN  after[Cardinality(Passes)]

\* "For every formal that is invoked on ... collect the concrete classes callers
\* pass in" (ctx.rs:492-495): the two fixpoints, of which the second only looks at
\* what the first demands, find neither more nor less, whatever the order.
FlowIsExact ==
  phase = "flow" /\ MoreFlow = {} =>
    \A k \in prog.calls : \A j \in OnFormal(k) :
      ClassesAt(<<k.caller, j>>) = {c \in Class : <<<<k.caller, j>>, c>> \in Carried}

\* A call of s on an object of class c has one implementation, and no other
\* declaration that the hash order could put first.
Certain(c, s) ==
  LET found == IF <<c, s>> \in prog.declared THEN {<<c, s>>} ELSE DeclaredIn(Ancestors(c), s)
  IN  found \cap prog.abstract = {} /\ \E m \in Method : found = {m}

\* Method m is to be linked to call k of frame f, dispatched on class c: the class
\* is known, was seen to be passed in, or m is an override that is not too common.
Foretold(f, k, c, m) ==
  \/ ~ k.virtual /\ Certain(c, k.sig)
  \/ k.virtual /\ Receiver(k).fresh /\ Certain(c, k.sig)
  \/ /\ k.virtual /\ ~ Remote(k) /\ Certain(c, k.sig)
     /\ Receiver(k).formals \cap f.seen # {}
  \/ /\ k.virtual /\ ~ Remote(k) /\ Narrow(k.sig)
     /\ Receiver(k).formals = {} /\ Precise(k) = {}
     /\ AtOrBelow(m[1], k.class)

\* "Call sites link to their static target and ... to each override", a known
\* receiver to its method, and a formal to those of the classes passed in
\* (ctx.rs:19-22, 492-501): where a thread's calls go was linked, after any chain of
\* calls that handed the receiver on.
RunsAreLinked ==
  stack # <<>> =>
    \A k \in prog.calls : k.caller = Top.method =>
      \A c \in DispatchedOn(Top, k) : \A m \in Dispatched(c, k.sig) :
        Foretold(Top, k, c, m) => m \in targets[k]
=============================================================================
