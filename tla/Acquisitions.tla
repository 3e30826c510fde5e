----------------------------- MODULE Acquisitions -----------------------------
(***************************************************************************)
(* `acquisitions` (src/dex/mod.rs), from the instructions of a program to  *)
(* the name of each lock it takes: the register pass over all methods, the *)
(* solution of the formals, the alias map of Naming, and the answers.      *)
(*                                                                         *)
(* When the map is final, a second actor executes the program: objects are *)
(* made, stored and read back, methods call and return, and locks are      *)
(* taken.  An answer is true if the object whose lock is taken is one that *)
(* goes by the name given.                                                 *)
(*                                                                         *)
(* The solution is what Injector promises: the least one, computed here by *)
(* evaluating all formals at once until nothing changes.                   *)
(***************************************************************************)
EXTENDS Naming, Extract

CONSTANTS
  Method,    \* the keys of all methods
  ClassOf,   \* the class that declares each of them
  Codes,     \* the programs analysed: key -> method, `main` among the keys
  MaxRounds  \* bound on the rounds the formals are solved in

ASSUME MaxRoundsAssumption == MaxRounds \in Nat

(***************************************************************************)
(* What the compiler and the verifier guarantee of instruction `at` of     *)
(* method m of program c.                                                  *)
(***************************************************************************)
IsFieldName(f) == f = <<f[1], f[2]>> /\ f[1] # "Object"

\* Fields of objects and of classes are different fields.
InstanceFields(c) ==
  UNION {{i[4] : i \in {j \in Range(c[k].insns) : j[1] \in {"Iget", "Iput"}}} : k \in DOMAIN c}

IsCallOf(c, i) ==
  /\ i[2] \in DOMAIN c => Len(i[3]) = c[i[2]].ins
  /\ i[2] \in Library => Len(i[3]) > 0

IsInsn(c, m, at) ==
  LET i == m.insns[at]
      Register(r) == r \in 0 .. m.registers - 1
      Static(f) == IsFieldName(f) /\ f \notin InstanceFields(c)
      Label(n) == n \in DOMAIN m.insns /\ m.insns[n][1] # "MoveResult"
  IN  CASE i[1] = "Sget" -> i = <<"Sget", i[2], i[3]>> /\ Register(i[2]) /\ Static(i[3])
        [] i[1] = "Iget" -> i = <<"Iget", i[2], i[3], i[4]>> /\ Register(i[2]) /\ Register(i[3]) /\ IsFieldName(i[4])
        [] i[1] = "Iput" -> i = <<"Iput", i[2], i[3], i[4]>> /\ Register(i[2]) /\ Register(i[3]) /\ IsFieldName(i[4])
        [] i[1] = "Sput" -> i = <<"Sput", i[2], i[3]>> /\ Register(i[2]) /\ Static(i[3])
        [] i[1] = "Move" -> i = <<"Move", i[2], i[3]>> /\ Register(i[2]) /\ Register(i[3])
        [] i[1] \in {"ConstClass", "NewInstance"} -> i = <<i[1], i[2], i[3]>> /\ Register(i[2])
        [] i[1] \in {"Def", "Other", "Enter", "Exit"} -> i = <<i[1], i[2]>> /\ Register(i[2])
        [] i[1] = "MoveResult" -> i = <<"MoveResult", i[2]>> /\ Register(i[2]) /\ at > 1 /\ m.insns[at - 1][1] = "Invoke"
        [] i[1] = "Return" -> i = <<"Return">> \/ (i = <<"Return", i[2]>> /\ Register(i[2]))
        [] i[1] = "Invoke" -> i = <<"Invoke", i[2], i[3]>> /\ i[3] \in Seq(0 .. m.registers - 1) /\ IsCallOf(c, i)
        [] i[1] \in {"Goto", "Branch"} -> i = <<i[1], i[2]>> /\ Label(i[2])
        [] OTHER -> FALSE

IsMethod(c, key) ==
  LET m == c[key]
  IN  /\ m = [key |-> key, class |-> ClassOf[key], static |-> m.static, registers |-> m.registers,
              ins |-> m.ins, types |-> m.types, insns |-> m.insns]
      /\ m.static \in BOOLEAN /\ m.registers \in Nat /\ m.ins \in 0 .. m.registers
      /\ Len(m.types) = m.ins /\ \A j \in 1 .. m.ins : m.types[j] = <<>> \/ m.types[j] = <<m.types[j][1]>>
      /\ m.insns \in Seq(Range(m.insns))
      /\ \A at \in DOMAIN m.insns : IsInsn(c, m, at)
      /\ Len(m.insns) > 0 /\ m.insns[Len(m.insns)][1] \in {"Return", "Goto"}

IsCode(c) ==
  /\ "main" \in DOMAIN c /\ c["main"].ins = 0
  /\ DOMAIN c \cap Library = {}
  /\ \A k \in DOMAIN c : k \in Method /\ IsMethod(c, k)

ASSUME CodesAssumption == \A c \in Codes : IsCode(c)

VARIABLES
  code,     \* the program; never changes
  found,    \* what the register pass made of each method; never changes
  facts,    \* what the injector is given of it; never changes
  sol,      \* the solution of the formals; never changes
  regular,  \* whether the answers are claimed for it: see Regular; never changes
  frames,   \* the methods under way: key, instruction, registers, which instruction wrote
            \* each of them last, and what the last call returned
  straight, \* whether every register read so far held what the instruction above gave it
  objs,     \* the objects made so far
  heap,     \* <<owner, field>> -> value
  put,      \* every <<owner, field, value>> the heap ever had
  taken     \* the lock taken last: <<>> or <<key, instruction, value>>

machine == <<frames, straight, objs, heap, put, taken>>

fixed == <<code, found, facts, sol, regular>>

allvars == <<vars, fixed, machine>>

-----------------------------------------------------------------------------
(***************************************************************************)
(* From the summaries of the methods to the programs that the injector and *)
(* the alias passes are given.                                             *)
(***************************************************************************)
Bindings == {c \in UNION {found[k].calls : k \in DOMAIN code} : c.callee \in DOMAIN code}

StoresIn(k) == found[k].stores

FormalStored(s) == OnThis(s) /\ HasRoot(s.source, {"Param"})

SiteFormals(k) == {s.lock.root[2] : s \in {t \in found[k].sites : Kind(t.lock) = "Param"}}

Gathered ==
  [calls |-> Bindings,
   stores |-> UNION {{[field |-> s.field, formal |-> <<k, s.source[1].root[2]>>] :
                        s \in {t \in StoresIn(k) : FormalStored(t)}} : k \in DOMAIN code},
   operands |-> UNION {{<<k, j>> : j \in SiteFormals(k)} : k \in DOMAIN code}]

Inj == INSTANCE Injector WITH
  MaxHops <- 0, Programs <- {}, Guess <- {}, prog <- facts, phase <- "done", stack <- {},
  vars <- {}, rev <- {}, f <- sol, wl <- {}, cur <- <<>>

AllFormals == UNION {{<<k, j>> : j \in 0 .. code[k].ins - 1} : k \in DOMAIN code}

Round(g) == [v \in AllFormals |-> Inj!Transfer(v, g)]

\* The formals evaluated all at once, again and again, until nothing changes.
Solutions ==
  LET round[n \in 0 .. MaxRounds] == IF n = 0 THEN [v \in AllFormals |-> Inj!Bottom] ELSE Round(round[n - 1])
  IN  {g \in {round[n] : n \in 0 .. MaxRounds} : Round(g) = g}

\* The object every caller passes for formal j of method k, if it is one.
PassedFor(k, j) == {r[2] : r \in {sol[<<k, j>>]} \ {Inj!Bottom, Inj!Top}}

\* What the alias passes see of the value of a store: the class of a new
\* object, of a formal only the index, and that only for a field of `this`.
StoredValue(k, s) ==
  CASE HasRoot(s.source, {"Alloc"}) -> <<"fresh", found[k].allocated[s.source[1].root]>>
    [] FormalStored(s)              -> <<"formal", PassedFor(k, s.source[1].root[2])>>
    [] s.source # <<>> /\ ~ HasRoot(s.source, {"Alloc", "Param"}) -> <<"lock", s.source[1]>>
    [] OTHER                        -> <<"unknown">>

Seen(k, s) == [field |-> s.field, class |-> code[k].class, onThis |-> OnThis(s), value |-> StoredValue(k, s)]

LocksThis(k) == \E s \in found[k].sites : Kind(s.lock) = "This"

Named ==
  [stores |-> UNION {{Seen(k, s) : s \in StoresIn(k)} : k \in DOMAIN code},
   selfSync |-> {code[k].class : k \in {n \in DOMAIN code : LocksThis(n)}}]

-----------------------------------------------------------------------------
(***************************************************************************)
(* The answers.                                                            *)
(***************************************************************************)
DeclaredType(k, l) == IF Kind(l) = "Param" /\ l.fields = <<>> THEN code[k].types[l.root[2] + 1] ELSE <<>>

\* A formal is the object its callers pass, else one of its declared class.
AnswerFor(k, l) ==
  LET passed == Inj!ResolveParamLock(k, l)
  IN  CASE passed # <<>>             -> Canonicalize(passed[1])
        [] passed = <<>> /\ DeclaredType(k, l) # <<>> -> NewLock(<<"Recv", DeclaredType(k, l)[1]>>)
        [] OTHER                     -> Canonicalize(Ground(l, code[k].class, k))

SiteAt(k, at) == CHOOSE s \in found[k].sites : s.at = at

-----------------------------------------------------------------------------
(***************************************************************************)
(* What the answers depend on.                                             *)
(***************************************************************************)
\* The registers an instruction reads, as far as the pass looks at them.
Reads(i) ==
  CASE i[1] = "Iput"   -> {i[2], i[3]}
    [] i[1] = "Move"   -> {i[3]}
    [] i[1] = "Return" -> IF Len(i) = 1 THEN {} ELSE {i[2]}
    [] i[1] = "Invoke" -> Range(i[3])
    [] i[1] = "Enter"  -> {i[2]}
    [] OTHER           -> {}

Defines == {"Sget", "Iget", "Move", "MoveResult", "ConstClass", "NewInstance", "Def"}

\* The register whose meaning instruction `at` changes for the pass.
Rewrites(k, at) ==
  LET i == code[k].insns[at]
  IN  IF i[1] \in Defines \/ at \in found[k].became THEN {i[2]} ELSE {}

\* Where the pass saw register r change last before instruction `at`.
LastSeen(k, at, r) == Max({0} \cup {d \in 1 .. at - 1 : r \in Rewrites(k, d)})

\* A stored formal or new object is itself, not a field or a view of it.
WholeStores ==
  \A k \in DOMAIN code : \A s \in {t \in StoresIn(k) : FormalStored(t) \/ HasRoot(t.source, {"Alloc"})} :
    s.source = <<NewLock(s.source[1].root)>>

\* The view of a formal is taken only where callers agree on the formal.
ViewsResolved ==
  \A k \in DOMAIN code : \A s \in found[k].sites :
    Kind(s.lock) = "Param" /\ s.lock.mode # "Plain" => Inj!ResolveParamLock(k, s.lock) # <<>>

\* What is renamed to a field of `this` was stored in `this` itself, not in
\* something else that is named from `this`, as one of its fields is.
OwnAllocations ==
  \A k \in DOMAIN code : \A s \in {t \in StoresIn(k) : t.at \in found[k].became} :
    s.base = <<NewLock(<<"This", "this">>)>>

\* With the getters known a getter still returns what it was found to return.
GettersAgree == \A k \in DOMAIN Getters(code) : found[k].returns = {<<Getters(code)[k]>>}

Regular == Inj!NoHiddenCaller /\ WholeStores /\ ViewsResolved /\ OwnAllocations /\ GettersAgree

-----------------------------------------------------------------------------
(***************************************************************************)
(* The program at run time.  An object is <<class, identity, origin>>: of  *)
(* one that is allocated, its number and where.  A value is <<object,      *)
(* mode>>; a register or field holds <<value>>, or <<>> for null and for   *)
(* what is no object.                                                      *)
(***************************************************************************)
Of(o) == <<o, "Plain">>

ClassObject(c) == <<"Class", c, <<>>>>

\* What the static fields of a class belong to.
Statics(c) == <<<<"Statics", c, <<>>>>, "Static">>

\* The locks that are there before the program starts.
Given(f) == <<"Lock", f, <<>>>>

\* Value v may be used as a T; an object has the fields of its class.
Typed(v, T) == T = "Object" \/ (v[2] = "Plain" /\ v[1][1] = T)

Operands(c, op) ==
  UNION {{i[3] : i \in {j \in Range(c[k].insns) : j[1] = op}} : k \in DOMAIN c}

Frame(m, args) ==
  [key |-> m.key, at |-> 1, ret |-> <<>>, from |-> [r \in 0 .. m.registers - 1 |-> 0],
   regs |-> [r \in 0 .. m.registers - 1 |->
               IF r >= FirstFormal(m) THEN args[r - FirstFormal(m) + 1] ELSE <<>>]]

AcqInit ==
  /\ code \in Codes
  /\ found = Summaries(code)
  /\ facts = Gathered
  /\ sol \in Solutions
  /\ prog = Named
  /\ regular = Regular
  /\ phase = "direct" /\ todo = Direct /\ seen = <<>> /\ last = <<>>
  /\ frames = <<Frame(code["main"], <<>>)>> /\ straight = TRUE
  /\ objs = {Given(f) : f \in Operands(code, "Sget")} \cup {ClassObject(c) : c \in Operands(code, "ConstClass")}
  /\ put = {<<Statics(f[1]), f, Of(Given(f))>> : f \in Operands(code, "Sget")}
  /\ heap = [w \in {<<p[1], p[2]>> : p \in put} |-> Of(Given(w[2]))]
  /\ taken = <<>>

Top == Last(frames)

Insn == code[Top.key].insns[Top.at]

Reg(r) == Top.regs[r]

Running(ops) == phase = "done" /\ frames # <<>> /\ Insn[1] \in ops

Heap(owner, f) == IF <<owner, f>> \in DOMAIN heap THEN <<heap[<<owner, f>>]>> ELSE <<>>

\* The innermost frame becomes fr, past its instruction.
Advanced(fr) == [frames EXCEPT ![Len(frames)] = [fr EXCEPT !.at = @ + 1]]

\* Frame fr once the instruction at hand gave register r the value o.
Written(r, o) == [Top EXCEPT !.regs[r] = o, !.from[r] = Top.at]

Owner(o, f) == {v \in Range(o) : Typed(v, f[1])}

\* What an instruction may put in its destination; nothing if it faults.
Results ==
  LET i == Insn
  IN  CASE i[1] = "Sget"       -> {Heap(Statics(i[3][1]), i[3])}
        [] i[1] = "Iget"       -> {Heap(b, i[4]) : b \in Owner(Reg(i[3]), i[4])}
        [] i[1] = "Move"       -> {Reg(i[3])}
        [] i[1] = "MoveResult" -> {Top.ret}
        [] i[1] = "ConstClass" -> {<<Of(ClassObject(i[3]))>>}
        [] OTHER               -> {<<>>} \cup {<<Of(o)>> : o \in objs}

Assign ==
  /\ Running({"Sget", "Iget", "Move", "MoveResult", "ConstClass", "Def", "Other"})
  /\ \E o \in Results : frames' = Advanced(Written(Insn[2], o))
  /\ UNCHANGED <<vars, fixed, objs, heap, put, taken>>

Allocate ==
  /\ Running({"NewInstance"})
  /\ LET o == <<Insn[3], Cardinality(objs), <<Top.key, Top.at>>>>
     IN  /\ objs' = objs \cup {o}
         /\ frames' = Advanced(Written(Insn[2], <<Of(o)>>))
  /\ UNCHANGED <<vars, fixed, heap, put, taken>>

\* What field f of the owners was ever given.
Across(owners, f) == {p[3] : p \in {q \in put : q[1] \in owners /\ q[2][2] = f}}

Along(roots, fields) ==
  LET along[n \in 0 .. Len(fields)] == IF n = 0 THEN roots ELSE Across(along[n - 1], fields[n])
  IN  along[Len(fields)]

\* The values that lock l is from the given roots.
From(roots, l) ==
  IF l.mode = "Plain" THEN Along(roots, l.fields) ELSE {<<v[1], l.mode>> : v \in Along(roots, l.fields)}

Roots(l) ==
  CASE Kind(l) = "Recv"       -> {v \in objs \X Modes : Typed(v, l.root[2])}
    [] Kind(l) = "Static"     -> {Statics(l.root[2])}
    [] Kind(l) = "ClassConst" -> {Of(ClassObject(l.root[2]))}
    [] Kind(l) = "Alloc"      -> {Of(o) : o \in {p \in objs : p[3] = l.root[2]}}
    [] OTHER                  -> {}

\* A lock goes by a name: by its root, then along fields it was ever stored
\* in.  An opaque name claims nothing.
GoesBy(v, l) == IsOpaque(l) \/ v \in From(Roots(l), l)

\* The object of store s, as Naming speaks of it, that value v is.
Stored(s, v) ==
  LET fits == {o \in ObjectsOf(s) : CASE o[1] = "lock"  -> GoesBy(v, o[2])
                                      [] o[1] = "fresh" -> v[1][1] = o[2]
                                      [] OTHER          -> TRUE}
  IN  IF fits = {} THEN <<"other", v>> ELSE CHOOSE o \in fits : TRUE

\* The store that the pass noted of the instruction at hand.
StoreHere == Seen(Top.key, CHOOSE s \in StoresIn(Top.key) : s.at = Top.at)

Put(owner, f, o) ==
  /\ heap' = IF o = <<>> THEN [w \in DOMAIN heap \ {<<owner, f>>} |-> heap[w]]
             ELSE Bind(heap, <<owner, f>>, o[1])
  /\ put' = put \cup {<<owner, f, v>> : v \in Range(o)}
  /\ frames' = Advanced(IF Top.at \in found[Top.key].became THEN Written(Insn[2], Reg(Insn[2])) ELSE Top)
  /\ UNCHANGED <<prog, phase, todo, seen, fixed, objs, taken>>

PutField ==
  /\ Running({"Iput"})
  /\ Owner(Reg(Insn[3]), Insn[4]) # {}
  /\ last' = IF Reg(Insn[2]) = <<>> \/ ObjectsOf(StoreHere) = {} THEN last
             ELSE <<StoreHere, Stored(StoreHere, Reg(Insn[2])[1])>>
  /\ Put(Reg(Insn[3])[1], Insn[4], Reg(Insn[2]))

PutStatic ==
  /\ Running({"Sput"})
  /\ Put(Statics(Insn[3][1]), Insn[3], Reg(Insn[2]))
  /\ last' = last

\* A call of the program, or of a library method that concerns locks.
Call ==
  /\ Running({"Invoke"})
  /\ Insn[2] \in DOMAIN code
  /\ LET callee == code[Insn[2]]
         args == [k \in DOMAIN Insn[3] |-> Reg(Insn[3][k])]
     IN  /\ HasReceiver(callee) => \E v \in Range(args[1]) : Typed(v, callee.class)
         /\ \A j \in DOMAIN args : \A v \in Range(args[j]), T \in Range(callee.types[j]) : Typed(v, T)
         /\ frames' = Append(Advanced([Top EXCEPT !.ret = <<>>]), Frame(callee, args))
  /\ UNCHANGED <<vars, fixed, objs, heap, put, taken>>

View ==
  /\ Running({"Invoke"})
  /\ Insn[2] \in DOMAIN Views
  /\ Reg(Insn[3][1]) # <<>>
  /\ frames' = Advanced([Top EXCEPT !.ret = <<<<Reg(Insn[3][1])[1][1], Views[Insn[2]]>>>>])
  /\ UNCHANGED <<vars, fixed, objs, heap, put, taken>>

Lockable(r) == Reg(r) # <<>>

Take ==
  /\ \/ Running({"Enter"}) /\ Lockable(Insn[2]) /\ taken' = <<Top.key, Top.at, Reg(Insn[2])[1]>>
     \/ Running({"Invoke"}) /\ Insn[2] \in Acquires /\ Lockable(Insn[3][1])
          /\ taken' = <<Top.key, Top.at, Reg(Insn[3][1])[1]>>
  /\ frames' = Advanced(Top)
  /\ UNCHANGED <<vars, fixed, objs, heap, put>>

Give ==
  /\ Running({"Exit", "Invoke"})
  /\ Insn[1] = "Invoke" => Insn[2] \in Releases
  /\ frames' = Advanced(Top)
  /\ UNCHANGED <<vars, fixed, objs, heap, put, taken>>

Jump ==
  /\ Running({"Goto", "Branch"})
  /\ \/ frames' = [frames EXCEPT ![Len(frames)].at = Insn[2]]
     \/ Insn[1] = "Branch" /\ frames' = Advanced(Top)
  /\ UNCHANGED <<vars, fixed, objs, heap, put, taken>>

Return ==
  /\ Running({"Return"})
  /\ LET o == IF Len(Insn) = 1 THEN <<>> ELSE Reg(Insn[2])
         outer == Front(frames)
     IN  frames' = IF outer = <<>> THEN <<>> ELSE [outer EXCEPT ![Len(outer)].ret = o]
  /\ UNCHANGED <<vars, fixed, objs, heap, put, taken>>

\* A register holds something else than the last instruction above gave it: the
\* pass reads the instructions in order, and execution may skip some of them.
Astray == \E r \in Reads(Insn) : Top.from[r] # LastSeen(Top.key, Top.at, r)

Machine ==
  /\ Assign \/ Allocate \/ PutField \/ PutStatic \/ Call \/ View \/ Take \/ Give \/ Jump \/ Return
  /\ straight' = (straight /\ ~ Astray)

AcqNext == (Naming /\ UNCHANGED <<fixed, machine>>) \/ Machine

AcqSpec == AcqInit /\ [][AcqNext]_allvars

-----------------------------------------------------------------------------
(***************************************************************************)
(* Properties.                                                             *)
(***************************************************************************)
AnswerIsTrue == GoesBy(taken[3], AnswerFor(taken[1], SiteAt(taken[1], taken[2]).lock))

\* Every store to an aliased field is noted, and none is of a view: a field
\* is followed to the object viewed (lines 257-263).
AliasesHold == \A k \in Aliased : AllStoresNoted(k) /\ Target(k).mode = "Plain"

\* "The answer is a real definition or an opaque, never a guess" (lines
\* 217-220): the object locked goes by the name given, in a regular program
\* that was executed straight on, if its aliased fields have no store that is
\* not noted.
AnswersAreTrue == regular /\ straight /\ taken # <<>> /\ AliasesHold => AnswerIsTrue

\* What the pass makes of a store is what the store does (lines 54-80 of
\* extract.rs): seen from the alias map, a regular program that is executed
\* straight on performs the stores it was told of, one after another.
StoresAreNoted == IsProgram(prog) /\ [][regular /\ straight' => Next]_vars
===============================================================================
