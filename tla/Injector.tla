------------------------------ MODULE Injector ------------------------------
(***************************************************************************)
(* Interprocedural lock resolution (src/dex/mod.rs, `Injector`): which one *)
(* object does each formal parameter of each method name?                  *)
(*                                                                         *)
(* A formal is a pair <<method, index>>, the receiver being index 0.  The  *)
(* solver gathers the formals it was asked about and those they depend on, *)
(* then iterates the meet over call sites to a fixpoint.  The two stacks   *)
(* of the code are filled from hash maps, so no order of theirs is         *)
(* specified; here they are sets and any member may be taken next.         *)
(*                                                                         *)
(* Once the solution is final, a second actor follows one concrete object  *)
(* through a chain of calls of the analysed program.  The solution is      *)
(* sound if it never names another object than the one that arrives.       *)
(***************************************************************************)
EXTENDS LockPath, FiniteSets

CONSTANTS
  Method,       \* the methods of the analysed program
  ClassOf,      \* the class that declares each of them
  MaxHops,      \* bound on the calls one object is followed through
  Programs,     \* the programs analysed: see IsProgram
  Guess         \* the values BelowEverySolution tries for other solutions

(***************************************************************************)
(* An actual argument is an option: <<>> when the register holds nothing   *)
(* the extraction tracks, <<lock>> when it does.                           *)
(***************************************************************************)
IsActual(a) == a = <<>> \/ (a = <<a[1]>> /\ IsLock(a[1]))

IsCall(c) ==
  /\ c = [caller |-> c.caller, callee |-> c.callee, actuals |-> c.actuals]
  /\ c.caller \in Method
  /\ c.callee \in Method
  /\ \A i \in DOMAIN c.actuals : IsActual(c.actuals[i])

Formal == Method \X Nat

(***************************************************************************)
(* What the extraction of a whole program leaves for the solver: its call  *)
(* sites, the stores `this.f = formal`, the `synchronized(param)` operands.*)
(***************************************************************************)
IsProgram(p) ==
  /\ p = [calls |-> p.calls, stores |-> p.stores, operands |-> p.operands]
  /\ \A c \in p.calls : IsCall(c)
  /\ \A s \in p.stores : s.formal \in Formal
  /\ p.operands \subseteq Formal

ASSUME MaxHopsAssumption == MaxHops \in Nat

ASSUME ProgramsAssumption == \A p \in Programs : IsProgram(p)

VARIABLES
  prog,     \* the program under analysis; never changes
  phase,    \* "gather", "solve", "done"
  stack,    \* formals still to be gathered
  vars,     \* formals gathered
  rev,      \* <<dependency, reader>> pairs
  f,        \* the partial solution: formal -> Res
  wl,       \* formals to be evaluated again
  cur       \* the object being followed: <<>> or <<formal, object, hops>>

allvars == <<prog, phase, stack, vars, rev, f, wl, cur>>

-----------------------------------------------------------------------------
(***************************************************************************)
(* The meet-semilattice  Bottom < Val(l) < Top.                            *)
(***************************************************************************)
Bottom == <<"Bottom">>
Top == <<"Top">>
Val(l) == <<"Val", l>>

IsRes(r) == r = Bottom \/ r = Top \/ r = Val(r[2])

Meet(a, b) ==
  IF a = Top \/ b = Top THEN Top
  ELSE IF a = Bottom THEN b
  ELSE IF b = Bottom \/ a = b THEN a
  ELSE Top

Below(a, b) == a = Bottom \/ b = Top \/ a = b

\* Mutant of MeetAll: the first value met is kept.
MeetAllKeepsFirst(S) ==
  IF S \subseteq {Bottom} THEN Bottom ELSE CHOOSE r \in S \ {Bottom} : TRUE

\* Meet folded over a set of values, from Bottom.
MeetAll(S) ==
  LET known == S \ {Bottom}
  IN  IF known = {} THEN Bottom
      ELSE IF \E r \in known : known = {r} THEN CHOOSE r \in known : TRUE
      ELSE Top

-----------------------------------------------------------------------------
(***************************************************************************)
(* The call sites the extraction records: those that pass at least one     *)
(* operand with a nameable root.                                           *)
(***************************************************************************)
Recorded(c) ==
  \E i \in DOMAIN c.actuals :
    c.actuals[i] # <<>> /\ Kind(c.actuals[i][1]) \in {"This", "Param", "Recv", "Static"}

Sites(m) == {c \in prog.calls : c.callee = m /\ Recorded(c)}

ActualOf(c, i) == ArgOrNone(c.actuals, i)

\* The formal of the caller that call site c passes on as argument i, if any.
FormalRead(c, i) ==
  LET a == ActualOf(c, i)
  IN  IF a # <<>> /\ Kind(a[1]) = "Param" THEN {<<c.caller, a[1].root[2]>>} ELSE {}

ValueOf(g, v) == IF v \in DOMAIN g THEN g[v] ELSE Bottom

\* The value of one actual argument under the partial solution g.
Eval(c, i, g) ==
  LET a == ActualOf(c, i)
      l == a[1]
  IN  IF a = <<>> THEN Top
      ELSE IF Kind(l) = "Param"
        THEN LET r == ValueOf(g, <<c.caller, l.root[2]>>)
             IN  IF r \in {Bottom, Top} THEN r ELSE Val(Extend(r[2], l.fields, l.mode))
      ELSE LET o == Ground(l, ClassOf[c.caller], c.caller)
           IN  IF Kind(o) \in Grounded THEN Val(o) ELSE Top

\* A formal is the meet of its actuals; one that nobody is seen to bind is Top.
Transfer(v, g) ==
  IF Sites(v[1]) = {} THEN Top
  ELSE MeetAll({Eval(c, v[2], g) : c \in Sites(v[1])})

-----------------------------------------------------------------------------
Init ==
  /\ prog \in Programs
  /\ phase = "gather"
  /\ stack = {s.formal : s \in prog.stores} \cup prog.operands
  /\ vars = {}
  /\ rev = {}
  /\ f = <<>>
  /\ wl = {}
  /\ cur = <<>>

\* Pop a formal; unless it is known already, push every formal it reads.
Gather(v) ==
  LET reads == UNION {FormalRead(c, v[2]) : c \in Sites(v[1])}
  IN  /\ phase = "gather"
      /\ v \in stack
      /\ IF v \in vars
           THEN /\ stack' = stack \ {v}
                /\ UNCHANGED <<vars, rev>>
           ELSE /\ vars' = vars \cup {v}
                /\ rev' = rev \cup {<<w, v>> : w \in reads}
                /\ stack' = (stack \ {v}) \cup reads
      /\ UNCHANGED <<prog, phase, f, wl, cur>>

\* Mutant of StartSolve: the iteration starts from the top of the lattice.
StartSolveAtTop ==
  /\ phase = "gather"
  /\ stack = {}
  /\ phase' = "solve"
  /\ f' = [v \in vars |-> Top]
  /\ wl' = vars
  /\ UNCHANGED <<prog, stack, vars, rev, cur>>

StartSolve ==
  /\ phase = "gather"
  /\ stack = {}
  /\ phase' = "solve"
  /\ f' = [v \in vars |-> Bottom]
  /\ wl' = vars
  /\ UNCHANGED <<prog, stack, vars, rev, cur>>

Readers(v) == {p[2] : p \in {q \in rev : q[1] = v}}

\* Mutants of Disturbed: readers are never, or always, evaluated again.
DisturbedNever(v) == {}
DisturbedAlways(v) == Readers(v)

\* The formals to evaluate again after v: its readers, if its value moves.
Disturbed(v) == IF f[v] # Transfer(v, f) THEN Readers(v) ELSE {}

\* Pop a formal and evaluate it again.
Relax(v) ==
  /\ phase = "solve"
  /\ v \in wl
  /\ f' = [f EXCEPT ![v] = Transfer(v, f)]
  /\ wl' = (wl \ {v}) \cup Disturbed(v)
  /\ UNCHANGED <<prog, phase, stack, vars, rev, cur>>

Finish ==
  /\ phase = "solve"
  /\ wl = {}
  /\ phase' = "done"
  /\ UNCHANGED <<prog, stack, vars, rev, f, wl, cur>>

-----------------------------------------------------------------------------
(***************************************************************************)
(* The analysed program.  Passing(c, i, object) is what arrives at formal  *)
(* i of the callee when call site c executes, recorded by the extraction   *)
(* or not: Val(l) for the object every method names l, Top for one without *)
(* a program-wide name.  object is the one being followed, if c passes on  *)
(* a formal of the caller.                                                 *)
(***************************************************************************)
Passing(c, i, object) ==
  LET a == ActualOf(c, i)
      o == Ground(a[1], ClassOf[c.caller], c.caller)
  IN  IF a = <<>> THEN Top
      ELSE IF FormalRead(c, i) # {}
        THEN IF object = Top THEN Top ELSE Val(Extend(object[2], a[1].fields, a[1].mode))
      ELSE IF Kind(o) \in Grounded THEN Val(o) ELSE Top

\* A call whose argument is not a formal of the caller starts a new chain.
EnterChain(c, i) ==
  /\ phase = "done"
  /\ FormalRead(c, i) = {}
  /\ cur' = <<<<c.callee, i>>, Passing(c, i, Top), 0>>
  /\ UNCHANGED <<prog, phase, stack, vars, rev, f, wl>>

\* A call that passes on the formal being followed.
FollowChain(c, i) ==
  /\ phase = "done"
  /\ cur # <<>>
  /\ cur[3] < MaxHops
  /\ FormalRead(c, i) = {cur[1]}
  /\ cur' = <<<<c.callee, i>>, Passing(c, i, cur[2]), cur[3] + 1>>
  /\ UNCHANGED <<prog, phase, stack, vars, rev, f, wl>>

\* An entry point of the program: a method no call site reaches.
EnterUncalled(v) ==
  /\ phase = "done"
  /\ ~ \E c \in prog.calls : c.callee = v[1]
  /\ cur' = <<v, Top, 0>>
  /\ UNCHANGED <<prog, phase, stack, vars, rev, f, wl>>

Solver ==
  \/ \E v \in stack : Gather(v)
  \/ StartSolve
  \/ \E v \in wl : Relax(v)
  \/ Finish

Execution ==
  \/ \E c \in prog.calls : \E i \in 0 .. Len(c.actuals) - 1 :
       EnterChain(c, i) \/ FollowChain(c, i)
  \/ \E v \in vars : EnterUncalled(v)

Next == Solver \/ Execution

Spec == Init /\ [][Next]_allvars

\* The solver is one loop of one thread: it runs until it is done.
FairSpec == Spec /\ WF_allvars(Solver)

-----------------------------------------------------------------------------
(***************************************************************************)
(* What the solution is used for.                                          *)
(***************************************************************************)

\* The object a `synchronized(param)` operand l of method m names, or <<>>.
ResolveParamLock(m, l) ==
  LET r == ValueOf(f, <<m, l.root[2]>>)
  IN  IF Kind(l) = "Param" /\ r \notin {Bottom, Top}
        THEN <<Extend(r[2], l.fields, l.mode)>>
        ELSE <<>>

StoresOf(field) == {s \in prog.stores : s.field = field}

\* Mutant of StoredRes: an unresolved store says nothing of the field.
StoredResLenient(s) == IF ValueOf(f, s.formal) = Top THEN Bottom ELSE ValueOf(f, s.formal)

\* A formal that is left unresolved spoils the field it is stored to.
StoredRes(s) == IF ValueOf(f, s.formal) = Bottom THEN Top ELSE ValueOf(f, s.formal)

FieldRes(field) == MeetAll({StoredRes(s) : s \in StoresOf(field)})

ResolveFields ==
  {a \in {<<s.field, FieldRes(s.field)>> : s \in prog.stores} :
     a[2] \notin {Bottom, Top} /\ Name(a[2][2]) # a[1]}

-----------------------------------------------------------------------------
TypeOK ==
  /\ prog \in Programs
  /\ phase \in {"gather", "solve", "done"}
  /\ stack \subseteq Formal
  /\ vars \subseteq Formal
  /\ rev \subseteq Formal \X Formal
  /\ phase # "gather" => f = [v \in vars |-> f[v]] /\ (\A v \in vars : IsRes(f[v]))
  /\ wl \subseteq vars
  /\ \/ cur = <<>>
     \/ /\ cur = <<cur[1], cur[2], cur[3]>>
        /\ cur[1] \in Formal
        /\ cur[2] # Bottom /\ IsRes(cur[2])
        /\ cur[3] \in 0 .. MaxHops

-----------------------------------------------------------------------------
(***************************************************************************)
(* Properties.                                                             *)
(***************************************************************************)

\* The worklist never forgets a formal: one that is off it agrees with its
\* call sites (lines 399-407: only the readers of a moved formal are pushed).
WorklistCoversUnstable ==
  phase \in {"solve", "done"} => \A v \in vars \ wl : f[v] = Transfer(v, f)

\* The iteration is monotone (comment at line 276): a formal never goes back
\* from a conflict to a lock, or from one lock to another.
Ascending ==
  [][phase = "solve" => \A v \in vars : Below(f[v], f'[v])]_allvars

\* The iteration stays below every solution of the equations, so that what it
\* ends on is their LEAST solution (comment at line 277), in whatever order
\* the hash maps gave the formals out.
Solution(g) == \A v \in vars : g[v] = Transfer(v, g)

BelowEverySolution ==
  phase # "gather" =>
    \A g \in [vars -> Guess] : Solution(g) => \A v \in vars : Below(f[v], g[v])

\* Every call of a method that has recorded call sites is itself recorded.
NoHiddenCaller ==
  \A c \in prog.calls : Recorded(c) \/ Sites(c.callee) = {}

\* Soundness (comments at lines 279-282): where the solution names one lock for
\* a formal, no execution ever passes it another object.
OnlyBinding ==
  phase = "done" /\ cur # <<>> /\ cur[1] \in vars => Below(cur[2], f[cur[1]])

RecordedCallsAreSound == NoHiddenCaller => OnlyBinding

\* A field taken for an alias of a lock (lines 423-445) is never stored
\* another object through any of its formals.
AliasedFieldIsTarget ==
  NoHiddenCaller /\ phase = "done" /\ cur # <<>> =>
    \A s \in prog.stores : \A a \in ResolveFields :
      s.formal = cur[1] /\ s.field = a[1] => cur[2] = a[2]

\* The loop of lines 397-409 is an iteration to a fixpoint: from Bottom, each step
\* gives one formal the meet of its call sites, and the solution is read only when
\* every formal has it, though only the readers of a moved formal are looked at
\* again.
Wanted == [v \in vars |-> Transfer(v, f)]

Iteration == INSTANCE Fixpoint WITH value <- f, want <- Wanted, Unknown <- Bottom

Iterates == Iteration!Spec

\* The solver ends, on recursive programs too.
Terminates == <>(phase = "done")
=============================================================================
