--------------------------- MODULE InjectorProofs ---------------------------
(***************************************************************************)
(* Proofs about Injector: the solver's worklist computes a solution of the *)
(* equations from below, and what it names is what executions pass.        *)
(***************************************************************************)
EXTENDS Injector, TLAPS

-----------------------------------------------------------------------------
(***************************************************************************)
(* The semilattice.                                                        *)
(***************************************************************************)

LEMMA Distinct == Bottom # Top /\ \A l : Val(l) # Bottom /\ Val(l) # Top
BY DEF Bottom, Top, Val

\* Below is transitive.
LEMMA BelowTrans ==
  ASSUME NEW a, NEW b, NEW c, Below(a, b), Below(b, c)
  PROVE  Below(a, c)
BY Distinct DEF Below

\* MeetAll(S) is above every member of S ...
LEMMA MeetAllAbove ==
  ASSUME NEW S, NEW r \in S
  PROVE  Below(r, MeetAll(S))
<1> DEFINE known == S \ {Bottom}
<1>1. CASE r = Bottom
  BY <1>1 DEF Below
<1>2. CASE r # Bottom /\ \E k \in known : known = {k}
  <2>1. known = {r}
    BY <1>2
  <2>2. MeetAll(S) = CHOOSE k \in known : TRUE
    BY <1>2 DEF MeetAll
  <2>3. MeetAll(S) = r
    BY <2>1, <2>2
  <2> QED
    BY <2>3 DEF Below
<1>3. CASE r # Bottom /\ ~ \E k \in known : known = {k}
  <2>1. MeetAll(S) = Top
    BY <1>3 DEF MeetAll
  <2> QED
    BY <2>1 DEF Below
<1> QED
  BY <1>1, <1>2, <1>3

\* ... and below everything that is.
LEMMA MeetAllLeast ==
  ASSUME NEW S, NEW u, \A r \in S : Below(r, u)
  PROVE  Below(MeetAll(S), u)
<1> DEFINE known == S \ {Bottom}
<1>1. CASE known = {}
  BY <1>1 DEF MeetAll, Below
<1>2. CASE known # {} /\ \E k \in known : known = {k}
  <2>1. MeetAll(S) = CHOOSE k \in known : TRUE
    BY <1>2 DEF MeetAll
  <2>2. MeetAll(S) \in S
    BY <1>2, <2>1
  <2> QED
    BY <2>2
<1>3. CASE known # {} /\ ~ \E k \in known : known = {k}
  <2>1. u = Top
    <3>1. SUFFICES ASSUME u # Top PROVE FALSE
      OBVIOUS
    <3>2. \A r \in known : r = u
      BY <3>1 DEF Below
    <3> QED
      BY <1>3, <3>2
  <2> QED
    BY <2>1 DEF Below
<1> QED
  BY <1>1, <1>2, <1>3

\* A meet over results is a result.
LEMMA MeetAllRes ==
  ASSUME NEW S, \A r \in S : IsRes(r)
  PROVE  IsRes(MeetAll(S))
<1> DEFINE known == S \ {Bottom}
<1>1. CASE \E k \in known : known = {k}
  <2>1. MeetAll(S) = CHOOSE k \in known : TRUE
    BY <1>1 DEF MeetAll
  <2>2. MeetAll(S) \in S
    BY <1>1, <2>1
  <2> QED
    BY <2>2
<1>2. CASE ~ \E k \in known : known = {k}
  BY <1>2 DEF MeetAll, IsRes
<1> QED
  BY <1>1, <1>2

-----------------------------------------------------------------------------
(***************************************************************************)
(* Evaluating an argument, and a formal, is monotone in the solution.      *)
(***************************************************************************)

LEMMA EvalRes ==
  ASSUME NEW c, NEW i, NEW g, \A v \in DOMAIN g : IsRes(g[v])
  PROVE  IsRes(Eval(c, i, g))
<1> DEFINE w == <<c.caller, ActualOf(c, i)[1].root[2]>>
           r == ValueOf(g, w)
<1>1. IsRes(r)
  BY DEF ValueOf, IsRes
<1>2. \A l : IsRes(Val(l))
  BY DEF IsRes, Val
<1>3. IsRes(Top)
  BY DEF IsRes
<1> HIDE DEF r
<1> QED
  BY <1>1, <1>2, <1>3 DEF Eval, r

LEMMA TransferRes ==
  ASSUME NEW v, NEW g, \A w \in DOMAIN g : IsRes(g[w])
  PROVE  IsRes(Transfer(v, g))
<1>1. \A r \in {Eval(c, v[2], g) : c \in Sites(v[1])} : IsRes(r)
  BY EvalRes
<1>2. IsRes(MeetAll({Eval(c, v[2], g) : c \in Sites(v[1])}))
  BY <1>1, MeetAllRes
<1> QED
  BY <1>2 DEF Transfer, IsRes

\* g is below h at every formal.
Pointwise(g, h) == DOMAIN g = DOMAIN h /\ \A v \in DOMAIN g : Below(g[v], h[v])

LEMMA EvalMono ==
  ASSUME NEW c, NEW i, NEW g, NEW h, Pointwise(g, h)
  PROVE  Below(Eval(c, i, g), Eval(c, i, h))
<1> DEFINE l == ActualOf(c, i)[1]
           w == <<c.caller, l.root[2]>>
           rg == ValueOf(g, w)
           rh == ValueOf(h, w)
<1>1. Below(rg, rh)
  BY DEF Pointwise, ValueOf, Below
<1> DEFINE E(r) == IF r \in {Bottom, Top} THEN r ELSE Val(Extend(r[2], l.fields, l.mode))
<1>2. Below(E(rg), E(rh))
  <2> HIDE DEF rg, rh, l
  <2>1. CASE rg = Bottom
    BY <2>1 DEF Below
  <2>2. CASE rh = Top
    BY <2>2 DEF Below
  <2>3. CASE rg = rh
    BY <2>3 DEF Below
  <2> QED
    BY <1>1, <2>1, <2>2, <2>3 DEF Below
<1>3. CASE ActualOf(c, i) # <<>> /\ Kind(l) = "Param"
  BY <1>2, <1>3 DEF Eval
<1>4. CASE ~ (ActualOf(c, i) # <<>> /\ Kind(l) = "Param")
  BY <1>4 DEF Eval, Below
<1> QED
  BY <1>3, <1>4

\* Transfer never shrinks when the solution grows.
LEMMA TransferMono ==
  ASSUME NEW v, NEW g, NEW h, Pointwise(g, h)
  PROVE  Below(Transfer(v, g), Transfer(v, h))
<1>1. CASE Sites(v[1]) = {}
  BY <1>1 DEF Transfer, Below
<1>2. CASE Sites(v[1]) # {}
  <2> DEFINE Sg == {Eval(c, v[2], g) : c \in Sites(v[1])}
             Sh == {Eval(c, v[2], h) : c \in Sites(v[1])}
  <2>1. \A r \in Sg : Below(r, MeetAll(Sh))
    <3>1. SUFFICES ASSUME NEW c \in Sites(v[1])
                   PROVE  Below(Eval(c, v[2], g), MeetAll(Sh))
      OBVIOUS
    <3>2. Below(Eval(c, v[2], g), Eval(c, v[2], h))
      BY EvalMono
    <3>3. Below(Eval(c, v[2], h), MeetAll(Sh))
      BY MeetAllAbove
    <3> QED
      BY <3>2, <3>3, BelowTrans
  <2>2. Below(MeetAll(Sg), MeetAll(Sh))
    <3> HIDE DEF Sg, Sh
    <3> QED BY <2>1, MeetAllLeast
  <2> QED
    BY <1>2, <2>2 DEF Transfer
<1> QED
  BY <1>1, <1>2

-----------------------------------------------------------------------------
(***************************************************************************)
(* The inductive invariant.                                                *)
(***************************************************************************)

\* What the rest of vars reads is itself gathered, or waiting on the stack,
\* and rev knows every reader.
ReadersKnown ==
  \A v \in vars : \A c \in Sites(v[1]) : \A w \in FormalRead(c, v[2]) :
    w \in vars \cup stack /\ <<w, v>> \in rev

RevInVars == \A p \in rev : p[2] \in vars

PhaseOK ==
  /\ phase # "gather" => stack = {}
  /\ phase = "gather" => wl = {}
  /\ phase = "done" => wl = {}
  /\ phase # "done" => cur = <<>>

\* Every step of the iteration may only go up from here.
Rising == phase # "gather" => \A v \in vars : Below(f[v], Transfer(v, f))

IInv ==
  TypeOK /\ ReadersKnown /\ RevInVars /\ PhaseOK /\ Rising /\ WorklistCoversUnstable

LEMMA ReadsAreFormals ==
  ASSUME NEW p \in Programs, NEW c \in p.calls, NEW i
  PROVE  FormalRead(c, i) \subseteq Formal
<1>1. IsCall(c)
  BY ProgramsAssumption DEF IsProgram
<1>2. ActualOf(c, i) = <<>> \/ IsActual(ActualOf(c, i))
  BY <1>1 DEF IsCall, ActualOf, ArgOrNone
<1>3. CASE ActualOf(c, i) = <<>>
  BY <1>3 DEF FormalRead
<1>4. CASE ActualOf(c, i) # <<>>
  <2>1. IsLock(ActualOf(c, i)[1])
    BY <1>2, <1>4 DEF IsActual
  <2> QED
    BY <1>1, <2>1 DEF IsCall, IsLock, FormalRead, Kind, Formal
<1> QED
  BY <1>3, <1>4

LEMMA SeedsAreFormals ==
  ASSUME NEW p \in Programs
  PROVE  {s.formal : s \in p.stores} \cup p.operands \subseteq Formal
BY ProgramsAssumption DEF IsProgram

LEMMA InitIInv == Init => IInv
<1> SUFFICES ASSUME Init PROVE IInv
  OBVIOUS
<1>1. TypeOK
  BY SeedsAreFormals DEF Init, TypeOK
<1> QED
  BY <1>1 DEF Init, IInv, ReadersKnown, RevInVars, PhaseOK, Rising, WorklistCoversUnstable

-----------------------------------------------------------------------------
LEMMA GatherIInv ==
  ASSUME IInv, NEW v \in stack, Gather(v)
  PROVE  IInv'
<1> DEFINE reads == UNION {FormalRead(c, v[2]) : c \in Sites(v[1])}
<1> USE DEF IInv
<1>1. prog' = prog /\ phase = "gather" /\ phase' = "gather" /\ f' = f /\ wl' = wl /\ cur' = cur
  BY DEF Gather
<1>2. reads \subseteq Formal
  <2>1. \A c \in Sites(v[1]) : FormalRead(c, v[2]) \subseteq Formal
    BY ReadsAreFormals DEF Sites, TypeOK
  <2> QED
    BY <2>1
<1>3. \A m : Sites(m)' = Sites(m)
  BY <1>1 DEF Sites
<1>4. CASE v \in vars
  <2>1. stack' = stack \ {v} /\ vars' = vars /\ rev' = rev
    BY <1>4 DEF Gather
  <2>2. TypeOK'
    BY <1>1, <2>1 DEF TypeOK
  <2>3. ReadersKnown'
    BY <1>3, <1>4, <2>1 DEF ReadersKnown
  <2> QED
    BY <1>1, <2>1, <2>2, <2>3 DEF RevInVars, PhaseOK, Rising, WorklistCoversUnstable
<1>5. CASE v \notin vars
  <2>1. /\ vars' = vars \cup {v}
        /\ rev' = rev \cup {<<w, v>> : w \in reads}
        /\ stack' = (stack \ {v}) \cup reads
    BY <1>5 DEF Gather
  <2>2. TypeOK'
    <3>1. v \in Formal
      BY DEF TypeOK
    <3>2. wl' \subseteq vars'
      BY <1>1, <2>1 DEF TypeOK
    <3>3. {<<w, v>> : w \in reads} \subseteq Formal \X Formal
      BY <1>2, <3>1
    <3>4. /\ stack' \subseteq Formal
          /\ vars' \subseteq Formal
          /\ rev' \subseteq Formal \X Formal
      <4> HIDE DEF reads
      <4> QED BY <1>2, <2>1, <3>1, <3>3 DEF TypeOK
    <3> QED
      BY <1>1, <3>2, <3>4 DEF TypeOK
  <2>3. ReadersKnown'
    <3>1. SUFFICES ASSUME NEW u \in vars', NEW c \in Sites(u[1]), NEW w \in FormalRead(c, u[2])
                   PROVE  w \in vars' \cup stack' /\ <<w, u>> \in rev'
      BY <1>3 DEF ReadersKnown
    <3>2. CASE u = v
      <4>1. w \in reads
        BY <3>2
      <4> QED
        BY <2>1, <3>2, <4>1
    <3>3. CASE u # v
      BY <2>1, <3>3 DEF ReadersKnown
    <3> QED
      BY <3>2, <3>3
  <2>4. RevInVars'
    BY <2>1 DEF RevInVars
  <2> QED
    BY <1>1, <2>2, <2>3, <2>4 DEF PhaseOK, Rising, WorklistCoversUnstable
<1> QED
  BY <1>4, <1>5

LEMMA StartSolveIInv ==
  ASSUME IInv, StartSolve
  PROVE  IInv'
<1> USE DEF IInv
<1>1. /\ phase' = "solve" /\ stack = {} /\ stack' = {} /\ cur = <<>>
      /\ f' = [v \in vars |-> Bottom] /\ wl' = vars
      /\ prog' = prog /\ vars' = vars /\ rev' = rev /\ cur' = cur
  BY DEF StartSolve, PhaseOK
<1>2. \A m : Sites(m)' = Sites(m)
  BY <1>1 DEF Sites
<1>3. TypeOK'
  BY <1>1 DEF TypeOK, IsRes
<1>4. ReadersKnown' /\ RevInVars'
  BY <1>1, <1>2 DEF ReadersKnown, RevInVars
<1>5. Rising'
  BY <1>1 DEF Rising, Below
<1> QED
  BY <1>1, <1>3, <1>4, <1>5 DEF PhaseOK, WorklistCoversUnstable

\* What v's new value changes: nothing shrinks.
LEMMA RelaxRises ==
  ASSUME IInv, NEW v \in wl, Relax(v)
  PROVE  Pointwise(f, f')
<1>1. v \in vars /\ DOMAIN f = vars /\ f' = [f EXCEPT ![v] = Transfer(v, f)]
  BY DEF IInv, TypeOK, Relax
<1>2. Below(f[v], Transfer(v, f))
  BY <1>1 DEF IInv, Rising, Relax
<1> QED
  BY <1>1, <1>2 DEF Pointwise, Below

\* Transfer(u, _) looks at the solution only through the formals u reads.
LEMMA TransferLocal ==
  ASSUME NEW u, NEW v, NEW g, NEW h,
         DOMAIN g = DOMAIN h,
         \A w \in DOMAIN g : w # v => g[w] = h[w],
         \A c \in Sites(u[1]) : v \notin FormalRead(c, u[2])
  PROVE  Transfer(u, g) = Transfer(u, h)
<1>1. \A w : w # v => ValueOf(g, w) = ValueOf(h, w)
  BY DEF ValueOf
<1>2. \A c \in Sites(u[1]) : Eval(c, u[2], g) = Eval(c, u[2], h)
  <2>1. SUFFICES ASSUME NEW c \in Sites(u[1])
                 PROVE  Eval(c, u[2], g) = Eval(c, u[2], h)
    OBVIOUS
  <2> DEFINE l == ActualOf(c, u[2])[1]
             w == <<c.caller, l.root[2]>>
  <2>2. CASE ActualOf(c, u[2]) # <<>> /\ Kind(l) = "Param"
    <3>1. w # v
      BY <2>2 DEF FormalRead
    <3>2. ValueOf(g, w) = ValueOf(h, w)
      BY <1>1, <3>1
    <3> QED
      BY <2>2, <3>2 DEF Eval
  <2>3. CASE ~ (ActualOf(c, u[2]) # <<>> /\ Kind(l) = "Param")
    BY <2>3 DEF Eval
  <2> QED
    BY <2>2, <2>3
<1>3. {Eval(c, u[2], g) : c \in Sites(u[1])} = {Eval(c, u[2], h) : c \in Sites(u[1])}
  BY <1>2
<1> QED
  BY <1>3 DEF Transfer

\* With the program unchanged, a primed Transfer is Transfer of the primed f.
LEMMA TransferPrime ==
  ASSUME prog' = prog, NEW v
  PROVE  Transfer(v, f)' = Transfer(v, f')
BY DEF Transfer, Sites

LEMMA RelaxIInv ==
  ASSUME IInv, NEW v \in wl, Relax(v)
  PROVE  IInv'
<1> USE DEF IInv
<1> DEFINE nv == Transfer(v, f)
           readers == Readers(v)
<1>1. /\ phase = "solve" /\ phase' = "solve" /\ v \in vars /\ DOMAIN f = vars
      /\ prog' = prog /\ stack' = stack /\ vars' = vars /\ rev' = rev /\ cur' = cur
      /\ f' = [f EXCEPT ![v] = nv]
      /\ wl' = (wl \ {v}) \cup (IF f[v] # nv THEN readers ELSE {})
  BY DEF Relax, TypeOK, Disturbed
<1>2. \A m : Sites(m)' = Sites(m)
  BY <1>1 DEF Sites
<1>3. TypeOK'
  <2>1. IsRes(nv)
    BY <1>1, TransferRes DEF TypeOK
  <2>2. readers \subseteq vars
    BY DEF RevInVars, Readers
  <2>3. f' = [u \in vars' |-> f'[u]] /\ \A u \in vars' : IsRes(f'[u])
    <3> HIDE DEF nv
    <3> QED BY <1>1, <2>1 DEF TypeOK
  <2>4. wl' \subseteq vars'
    <3> HIDE DEF nv, readers
    <3> QED BY <1>1, <2>2 DEF TypeOK
  <2> QED
    BY <1>1, <2>3, <2>4 DEF TypeOK
<1>4. ReadersKnown' /\ RevInVars' /\ PhaseOK'
  BY <1>1, <1>2 DEF ReadersKnown, RevInVars, PhaseOK
<1>5. Rising'
  <2>1. Pointwise(f, f')
    BY RelaxRises
  <2>2. SUFFICES ASSUME NEW u \in vars
                 PROVE  Below(f'[u], Transfer(u, f'))
    BY <1>1, TransferPrime DEF Rising
  <2>3. Below(Transfer(u, f), Transfer(u, f'))
    BY <2>1, TransferMono
  <2>4. CASE u = v
    BY <1>1, <2>3, <2>4
  <2>5. CASE u # v
    <3>1. Below(f[u], Transfer(u, f))
      BY <1>1 DEF Rising
    <3> QED
      BY <1>1, <2>3, <2>5, <3>1, BelowTrans
  <2> QED
    BY <2>4, <2>5
<1>6. WorklistCoversUnstable'
  <2>1. SUFFICES ASSUME NEW u \in vars, u \notin wl'
                 PROVE  f'[u] = Transfer(u, f')
    BY <1>1, TransferPrime DEF WorklistCoversUnstable
  <2>2. CASE f[v] = nv
    <3>1. f' = f
      BY <1>1, <2>2 DEF TypeOK
    <3>2. u = v \/ u \notin wl
      BY <1>1, <2>1
    <3> QED
      BY <1>1, <2>1, <2>2, <3>1, <3>2 DEF WorklistCoversUnstable
  <2>3. CASE f[v] # nv
    <3>1. \A c \in Sites(u[1]) : v \notin FormalRead(c, u[2])
      <4>1. SUFFICES ASSUME NEW c \in Sites(u[1]), v \in FormalRead(c, u[2])
                     PROVE  u \in readers
        BY <1>1, <2>1, <2>3
      <4>2. <<v, u>> \in rev
        BY <4>1 DEF ReadersKnown
      <4> QED
        BY <4>2 DEF Readers
    <3>2. \A w \in DOMAIN f : w # v => f[w] = f'[w]
      BY <1>1
    <3>3. DOMAIN f = DOMAIN f'
      BY <1>1
    <3>4. Transfer(u, f) = Transfer(u, f')
      BY <3>1, <3>2, <3>3, TransferLocal
    <3>5. CASE u = v
      BY <1>1, <3>4, <3>5
    <3>6. CASE u # v
      <4>1. u \notin wl
        BY <1>1, <2>1, <3>6
      <4>2. f[u] = Transfer(u, f)
        BY <1>1, <4>1 DEF WorklistCoversUnstable
      <4> QED
        BY <1>1, <3>4, <3>6, <4>2
    <3> QED
      BY <3>5, <3>6
  <2> QED
    BY <2>2, <2>3
<1> QED
  BY <1>3, <1>4, <1>5, <1>6

LEMMA FinishIInv ==
  ASSUME IInv, Finish
  PROVE  IInv'
<1> USE DEF IInv
<1>1. /\ phase = "solve" /\ phase' = "done" /\ wl = {}
      /\ prog' = prog /\ stack' = stack /\ vars' = vars /\ rev' = rev
      /\ f' = f /\ wl' = wl /\ cur' = cur
  BY DEF Finish
<1>2. \A m : Sites(m)' = Sites(m)
  BY <1>1 DEF Sites
<1>3. \A v : Transfer(v, f)' = Transfer(v, f)
  BY <1>1, TransferPrime
<1>4. TypeOK' /\ ReadersKnown' /\ RevInVars' /\ PhaseOK'
  BY <1>1, <1>2 DEF TypeOK, ReadersKnown, RevInVars, PhaseOK
<1> QED
  BY <1>1, <1>3, <1>4 DEF Rising, WorklistCoversUnstable

-----------------------------------------------------------------------------
(***************************************************************************)
(* Following an object changes nothing but cur.                            *)
(***************************************************************************)

LEMMA PassingRes ==
  ASSUME NEW c, NEW i, NEW object
  PROVE  IsRes(Passing(c, i, object)) /\ Passing(c, i, object) # Bottom
<1>1. IsRes(Top) /\ \A l : IsRes(Val(l))
  BY DEF IsRes, Val
<1> QED
  BY <1>1, Distinct DEF Passing

LEMMA ExecutionIInv ==
  ASSUME IInv, Execution
  PROVE  IInv'
<1> USE DEF IInv
<1>1. /\ phase = "done"
      /\ UNCHANGED <<prog, phase, stack, vars, rev, f, wl>>
  BY DEF Execution, EnterChain, FollowChain, EnterUncalled
<1>2. \A m : Sites(m)' = Sites(m)
  BY <1>1 DEF Sites
<1>3. \A v : Transfer(v, f)' = Transfer(v, f)
  BY <1>1, TransferPrime
<1>4. /\ cur' = <<cur'[1], cur'[2], cur'[3]>>
      /\ cur'[1] \in Formal
      /\ cur'[2] # Bottom /\ IsRes(cur'[2])
      /\ cur'[3] \in 0 .. MaxHops
  <2>1. ASSUME NEW c \in prog.calls, NEW i \in 0 .. Len(c.actuals) - 1
        PROVE  <<c.callee, i>> \in Formal
    BY ProgramsAssumption DEF TypeOK, IsProgram, IsCall, Formal
  <2>2. CASE \E c \in prog.calls : \E i \in 0 .. Len(c.actuals) - 1 : EnterChain(c, i)
    BY <2>1, <2>2, PassingRes, MaxHopsAssumption DEF EnterChain
  <2>3. CASE \E c \in prog.calls : \E i \in 0 .. Len(c.actuals) - 1 : FollowChain(c, i)
    BY <2>1, <2>3, PassingRes, MaxHopsAssumption DEF FollowChain, TypeOK
  <2>4. CASE \E v \in vars : EnterUncalled(v)
    BY <2>4, Distinct, MaxHopsAssumption DEF EnterUncalled, TypeOK, IsRes
  <2> QED
    BY <2>2, <2>3, <2>4 DEF Execution
<1>5. TypeOK'
  BY <1>1, <1>4 DEF TypeOK
<1>6. ReadersKnown' /\ RevInVars' /\ PhaseOK'
  BY <1>1, <1>2 DEF ReadersKnown, RevInVars, PhaseOK
<1> QED
  BY <1>1, <1>3, <1>5, <1>6 DEF Rising, WorklistCoversUnstable

LEMMA NextIInv == IInv /\ [Next]_allvars => IInv'
<1> SUFFICES ASSUME IInv, [Next]_allvars PROVE IInv'
  OBVIOUS
<1>1. CASE UNCHANGED allvars
  <2>1. \A m : Sites(m)' = Sites(m)
    BY <1>1 DEF allvars, Sites
  <2>2. \A v : Transfer(v, f)' = Transfer(v, f)
    BY <1>1, TransferPrime DEF allvars
  <2> QED
    BY <1>1, <2>1, <2>2
    DEF allvars, IInv, TypeOK, ReadersKnown, RevInVars, PhaseOK, Rising, WorklistCoversUnstable
<1>2. CASE Next
  BY <1>2, GatherIInv, StartSolveIInv, RelaxIInv, FinishIInv, ExecutionIInv DEF Next, Solver
<1> QED
  BY <1>1, <1>2

-----------------------------------------------------------------------------
\* The invariants hold of every reachable state.
THEOREM InjectorInvariant == Spec => []IInv
<1>1. Init => IInv
  BY InitIInv
<1>2. IInv /\ [Next]_allvars => IInv'
  BY NextIInv
<1> QED
  BY <1>1, <1>2, PTL DEF Spec

\* The state has its type, whatever the programs analysed.
THEOREM TypeCorrect == Spec => []TypeOK
<1>1. IInv => TypeOK
  BY DEF IInv
<1> QED
  BY <1>1, InjectorInvariant, PTL

\* The worklist loop (mod.rs 399-407) never loses track of an unstable formal.
THEOREM WorklistCorrect == Spec => []WorklistCoversUnstable
<1>1. IInv => WorklistCoversUnstable
  BY DEF IInv
<1> QED
  BY <1>1, InjectorInvariant, PTL

\* The worklist loop is an iteration to a fixpoint (mod.rs 397-409): it looks only
\* at the readers of what moved, and still ends only when all formals agree.
THEOREM WorklistIterates == Spec => Iterates
<1>1. Init => Iteration!Init
  BY DEF Init, Iteration!Init, Iteration!Fresh
<1>2. IInv /\ [Next]_allvars => [Iteration!Next]_<<phase, f>>
  <2> SUFFICES ASSUME IInv, [Next]_allvars, ~ UNCHANGED <<phase, f>>
               PROVE  Iteration!Next
    OBVIOUS
  <2>1. phase # "gather" => DOMAIN f = vars
    BY DEF IInv, TypeOK
  <2>2. CASE StartSolve
    BY <2>2 DEF StartSolve, Iteration!Collected, Iteration!Fresh, Iteration!Next
  <2>3. ASSUME NEW v \in wl, Relax(v)
        PROVE  Iteration!Recompute(v) /\ v \in DOMAIN f
    <3>1. v \in vars /\ DOMAIN f = vars
      BY <2>1, <2>3 DEF IInv, TypeOK, Relax
    <3> QED
      BY <2>3, <3>1 DEF Relax, Iteration!Recompute, Wanted
  <2>4. CASE Finish
    <3>1. DOMAIN f = vars /\ \A v \in vars : f[v] = Transfer(v, f)
      BY <2>1, <2>4 DEF Finish, IInv, WorklistCoversUnstable
    <3>2. Iteration!Solved
      BY <3>1 DEF Iteration!Solved, Wanted
    <3> QED
      BY <2>4, <3>2 DEF Finish, Iteration!GiveOut, Iteration!Next
  <2>5. CASE (\E v \in stack : Gather(v)) \/ Execution \/ UNCHANGED allvars
    BY <2>5 DEF Gather, Execution, EnterChain, FollowChain, EnterUncalled, allvars
  <2> QED
    BY <2>2, <2>3, <2>4, <2>5 DEF Next, Solver, Iteration!Next
<1> QED
  BY <1>1, <1>2, InjectorInvariant, PTL DEF Spec, Iterates, Iteration!Spec

\* The iteration only ever goes up (mod.rs 276).
THEOREM Monotone == Spec => Ascending
<1>1. IInv /\ [Next]_allvars => [phase = "solve" => \A v \in vars : Below(f[v], f'[v])]_allvars
  <2> SUFFICES ASSUME IInv, Next, phase = "solve", NEW v \in vars
               PROVE  Below(f[v], f'[v])
    OBVIOUS
  <2>1. CASE \E w \in wl : Relax(w)
    <3>1. Pointwise(f, f')
      BY <2>1, RelaxRises
    <3>2. v \in DOMAIN f
      BY DEF IInv, TypeOK
    <3> QED
      BY <3>1, <3>2 DEF Pointwise
  <2>2. CASE Finish
    BY <2>2 DEF Finish, Below
  <2> QED
    BY <2>1, <2>2 DEF Next, Solver, Gather, StartSolve, Execution, EnterChain, FollowChain, EnterUncalled
<1> QED
  BY <1>1, InjectorInvariant, PTL DEF Spec, Ascending

-----------------------------------------------------------------------------
(***************************************************************************)
(* Leastness: whatever else solves the equations is above the iteration.   *)
(***************************************************************************)

LEMMA RelaxStaysBelow ==
  ASSUME IInv, BelowEverySolution, NEW v \in wl, Relax(v)
  PROVE  BelowEverySolution'
<1>1. /\ phase = "solve" /\ prog' = prog /\ vars' = vars /\ v \in vars
      /\ DOMAIN f = vars /\ f' = [f EXCEPT ![v] = Transfer(v, f)]
  BY DEF IInv, TypeOK, Relax
<1>2. \A g : Solution(g)' <=> Solution(g)
  BY <1>1 DEF Solution, Transfer, Sites
<1>3. SUFFICES ASSUME NEW g \in [vars -> Guess], Solution(g), NEW u \in vars
               PROVE  Below(f'[u], g[u])
  BY <1>1, <1>2 DEF BelowEverySolution
<1>4. \A w \in vars : Below(f[w], g[w])
  BY <1>1, <1>3 DEF BelowEverySolution
<1>5. CASE u = v
  <2>1. Pointwise(f, g)
    BY <1>1, <1>4 DEF Pointwise
  <2>2. Below(Transfer(v, f), Transfer(v, g))
    BY <2>1, TransferMono
  <2>3. g[v] = Transfer(v, g)
    BY <1>1, <1>3 DEF Solution
  <2> QED
    BY <1>1, <1>5, <2>2, <2>3
<1>6. CASE u # v
  BY <1>1, <1>4, <1>6
<1> QED
  BY <1>5, <1>6

\* What the solver holds is below every solution of the equations, so the one
\* it ends on (WorklistCorrect) is the least (mod.rs 277).
THEOREM LeastFixpoint == Spec => []BelowEverySolution
<1>1. Init => BelowEverySolution
  BY DEF Init, BelowEverySolution
<1>2. IInv /\ BelowEverySolution /\ [Next]_allvars => BelowEverySolution'
  <2> SUFFICES ASSUME IInv, BelowEverySolution, [Next]_allvars
               PROVE  BelowEverySolution'
    OBVIOUS
  <2>1. CASE UNCHANGED allvars \/ Finish \/ Execution
    <3>1. phase' # "gather" => phase # "gather"
      BY <2>1 DEF allvars, Finish, Execution, EnterChain, FollowChain, EnterUncalled
    <3>2. UNCHANGED <<prog, vars, f>>
      BY <2>1 DEF allvars, Finish, Execution, EnterChain, FollowChain, EnterUncalled
    <3>3. \A g : Solution(g)' <=> Solution(g)
      BY <3>2 DEF Solution, Transfer, Sites
    <3> QED
      BY <3>1, <3>2, <3>3 DEF BelowEverySolution
  <2>2. CASE \E v \in stack : Gather(v)
    BY <2>2 DEF Gather, BelowEverySolution
  <2>3. CASE StartSolve
    BY <2>3 DEF StartSolve, BelowEverySolution, Below
  <2>4. CASE \E v \in wl : Relax(v)
    BY <2>4, RelaxStaysBelow
  <2> QED
    BY <2>1, <2>2, <2>3, <2>4 DEF Next, Solver
<1> QED
  BY <1>1, <1>2, InjectorInvariant, PTL DEF Spec

-----------------------------------------------------------------------------
(***************************************************************************)
(* Soundness: the object followed is what the solution says, or the        *)
(* solution says nothing.                                                  *)
(***************************************************************************)

\* Evaluating an argument over-approximates passing it.
LEMMA EvalAbovePassing ==
  ASSUME NEW c, NEW i, NEW g, NEW object,
         object # Bottom,
         \A v \in FormalRead(c, i) : v \in DOMAIN g /\ Below(object, g[v])
  PROVE  Below(Passing(c, i, object), Eval(c, i, g))
<1> DEFINE l == ActualOf(c, i)[1]
           w == <<c.caller, l.root[2]>>
<1>1. CASE ActualOf(c, i) # <<>> /\ Kind(l) = "Param"
  <2>1. FormalRead(c, i) = {w}
    BY <1>1 DEF FormalRead
  <2>2. ValueOf(g, w) = g[w] /\ Below(object, g[w])
    BY <2>1 DEF ValueOf
  <2>3. g[w] = Top \/ (object = g[w] /\ g[w] # Bottom)
    BY <2>2 DEF Below
  <2>4. CASE g[w] = Top
    BY <1>1, <2>2, <2>4 DEF Eval, Below
  <2>5. CASE g[w] # Top /\ object = g[w] /\ g[w] # Bottom
    <3>1. Eval(c, i, g) = Val(Extend(object[2], l.fields, l.mode))
      BY <1>1, <2>2, <2>5 DEF Eval
    <3>2. Passing(c, i, object) = Val(Extend(object[2], l.fields, l.mode))
      BY <1>1, <2>1, <2>5 DEF Passing
    <3> QED
      BY <3>1, <3>2 DEF Below
  <2> QED
    BY <2>3, <2>4, <2>5
<1>2. CASE ~ (ActualOf(c, i) # <<>> /\ Kind(l) = "Param")
  <2>1. FormalRead(c, i) = {}
    BY <1>2 DEF FormalRead
  <2>2. Passing(c, i, object) = Eval(c, i, g)
    BY <1>2, <2>1 DEF Passing, Eval
  <2> QED
    BY <2>2 DEF Below
<1> QED
  BY <1>1, <1>2

\* The callee's formal, once the solution is stable, is above what is passed.
LEMMA StableAbovePassing ==
  ASSUME IInv, NoHiddenCaller, phase = "done",
         NEW c \in prog.calls, NEW i, NEW object,
         object # Bottom,
         <<c.callee, i>> \in vars,
         \A v \in FormalRead(c, i) \cap vars : Below(object, f[v])
  PROVE  Below(Passing(c, i, object), f[<<c.callee, i>>])
<1> DEFINE u == <<c.callee, i>>
<1>1. f[u] = Transfer(u, f)
  BY DEF IInv, PhaseOK, WorklistCoversUnstable
<1>2. CASE Sites(c.callee) = {}
  BY <1>1, <1>2 DEF Transfer, Below
<1>3. CASE Sites(c.callee) # {}
  <2>1. c \in Sites(c.callee)
    BY <1>3 DEF NoHiddenCaller, Sites
  <2>2. \A v \in FormalRead(c, i) : v \in DOMAIN f /\ Below(object, f[v])
    BY <2>1 DEF IInv, ReadersKnown, PhaseOK, TypeOK
  <2>3. Below(Passing(c, i, object), Eval(c, i, f))
    BY <2>2, EvalAbovePassing
  <2>4. f[u] = MeetAll({Eval(d, i, f) : d \in Sites(c.callee)})
    BY <1>1, <1>3 DEF Transfer
  <2>5. Below(Eval(c, i, f), f[u])
    BY <2>1, <2>4, MeetAllAbove
  <2> QED
    BY <2>3, <2>5, BelowTrans
<1> QED
  BY <1>2, <1>3

LEMMA NextSound ==
  ASSUME IInv, RecordedCallsAreSound, [Next]_allvars
  PROVE  RecordedCallsAreSound'
<1>1. prog' = prog
  BY DEF Next, Solver, Gather, StartSolve, Relax, Finish, Execution, EnterChain,
         FollowChain, EnterUncalled, allvars
<1>2. NoHiddenCaller' <=> NoHiddenCaller
  BY <1>1 DEF NoHiddenCaller, Sites
<1>3. SUFFICES ASSUME NoHiddenCaller, OnlyBinding
               PROVE  OnlyBinding'
  BY <1>2 DEF RecordedCallsAreSound
<1>4. CASE UNCHANGED allvars
  BY <1>3, <1>4 DEF allvars, OnlyBinding
<1>5. CASE Solver
  <2>1. phase # "done" /\ cur' = cur
    BY <1>5 DEF Solver, Gather, StartSolve, Relax, Finish
  <2>2. cur' = <<>>
    BY <2>1 DEF IInv, PhaseOK
  <2> QED
    BY <2>2 DEF OnlyBinding
<1>6. ASSUME NEW c \in prog.calls, NEW i, EnterChain(c, i)
      PROVE  OnlyBinding'
  <2>1. SUFFICES ASSUME <<c.callee, i>> \in vars
                 PROVE  Below(Passing(c, i, Top), f[<<c.callee, i>>])
    BY <1>6 DEF EnterChain, OnlyBinding
  <2> QED
    BY <1>3, <1>6, <2>1, Distinct, StableAbovePassing DEF EnterChain
<1>7. ASSUME NEW c \in prog.calls, NEW i, FollowChain(c, i)
      PROVE  OnlyBinding'
  <2>1. SUFFICES ASSUME <<c.callee, i>> \in vars
                 PROVE  Below(Passing(c, i, cur[2]), f[<<c.callee, i>>])
    BY <1>7 DEF FollowChain, OnlyBinding
  <2>2. phase = "done" /\ cur # <<>> /\ FormalRead(c, i) = {cur[1]} /\ cur[2] # Bottom
    BY <1>7 DEF FollowChain, IInv, TypeOK
  <2>3. \A v \in FormalRead(c, i) \cap vars : Below(cur[2], f[v])
    BY <1>3, <2>2 DEF OnlyBinding
  <2> QED
    BY <1>3, <2>1, <2>2, <2>3, StableAbovePassing
<1>8. ASSUME NEW v \in vars, EnterUncalled(v)
      PROVE  OnlyBinding'
  <2>1. f[v] = Transfer(v, f) /\ Sites(v[1]) = {}
    BY <1>8 DEF EnterUncalled, Sites, IInv, PhaseOK, WorklistCoversUnstable
  <2>2. f[v] = Top
    BY <2>1 DEF Transfer
  <2> QED
    BY <1>8, <2>2 DEF EnterUncalled, OnlyBinding, Below
<1> QED
  BY <1>4, <1>5, <1>6, <1>7, <1>8 DEF Next, Execution

\* If every caller of a method that has recorded call sites is recorded, the
\* solution never names one lock for a formal that is passed another object.
THEOREM Soundness == Spec => []RecordedCallsAreSound
<1>1. Init => RecordedCallsAreSound
  BY DEF Init, RecordedCallsAreSound, OnlyBinding
<1>2. IInv /\ RecordedCallsAreSound /\ [Next]_allvars => RecordedCallsAreSound'
  BY NextSound
<1> QED
  BY <1>1, <1>2, InjectorInvariant, PTL DEF Spec

\* A field that is taken for a lock holds that lock, whoever stores to it.
THEOREM FieldAliasesSound == Spec => []AliasedFieldIsTarget
<1>1. IInv /\ RecordedCallsAreSound => AliasedFieldIsTarget
  <2>1. SUFFICES ASSUME IInv, OnlyBinding, phase = "done", cur # <<>>,
                        NEW s \in prog.stores, NEW a \in ResolveFields,
                        s.formal = cur[1], s.field = a[1]
                 PROVE  cur[2] = a[2]
    BY DEF AliasedFieldIsTarget, RecordedCallsAreSound
  <2> DEFINE r == ValueOf(f, s.formal)
             S == {StoredRes(t) : t \in StoresOf(s.field)}
  <2>2. a[2] = FieldRes(s.field) /\ a[2] # Top
    <3>1. PICK t \in prog.stores : a = <<t.field, FieldRes(t.field)>>
      BY DEF ResolveFields
    <3> QED
      BY <2>1, <3>1 DEF ResolveFields
  <2>3. StoredRes(s) \in S
    BY DEF StoresOf
  <2>4. Below(StoredRes(s), a[2])
    <3> HIDE DEF S
    <3>1. a[2] = MeetAll(S)
      BY <2>2 DEF FieldRes, S
    <3> QED
      BY <2>3, <3>1, MeetAllAbove
  <2>5. r = a[2] /\ r # Bottom
    BY <2>2, <2>4, Distinct DEF Below, StoredRes
  <2>6. cur[1] \in vars /\ r = f[cur[1]]
    BY <2>1, <2>5 DEF ValueOf, IInv, TypeOK
  <2>7. Below(cur[2], f[cur[1]]) /\ cur[2] # Bottom
    BY <2>1, <2>6 DEF OnlyBinding, IInv, TypeOK
  <2> QED
    BY <2>2, <2>5, <2>6, <2>7 DEF Below
<1> QED
  BY <1>1, InjectorInvariant, Soundness, PTL
=============================================================================
