-------------------------------- MODULE Extract --------------------------------
(***************************************************************************)
(* What one linear pass over the instructions of a method makes of its     *)
(* registers (src/dex/extract.rs): the lock each of them holds, and from   *)
(* it the sites to be named, the stores and the calls the whole program is *)
(* resolved by, and what a getter returns.                                 *)
(*                                                                         *)
(* Instructions are tuples: <<"Sget", dst, f>>, <<"Iget", dst, base, f>>,  *)
(* <<"Iput", src, base, f>>, <<"Sput", src, f>>, <<"Move", dst, src>>,     *)
(* <<"ConstClass", dst, class>>, <<"NewInstance", dst, class>>,            *)
(* <<"MoveResult", dst>>, <<"Def", dst>>, <<"Return">>, <<"Return", r>>,   *)
(* <<"Invoke", method, args>>, <<"Enter", r>>, <<"Exit", r>>,              *)
(* <<"Goto", to>>, <<"Branch", to>> for a conditional jump or a switch,    *)
(* and <<"Other", dst>> for an opcode the decoders have no name for; a     *)
(* field f is <<class, name>>.                                             *)
(***************************************************************************)
EXTENDS LockPath, FiniteSets, SequencesExt

\* The library methods of locks, by what `classify` makes of them.
Views    == [readLock |-> "Read", writeLock |-> "Write"]
Acquires == {"lock", "tryLock"}
Releases == {"unlock"}
Library  == DOMAIN Views \cup Acquires \cup Releases

(***************************************************************************)
(* A method: its key and class, whether it is static, its registers, the   *)
(* last `ins` of them its formals, their types (<<>> where that is no      *)
(* class), and its instructions.                                           *)
(***************************************************************************)
FirstFormal(m) == m.registers - m.ins

HasReceiver(m) == ~ m.static /\ m.ins > 0

Formals(m) ==
  [r \in FirstFormal(m) .. m.registers - 1 |->
     NewLock(IF HasReceiver(m) /\ r = FirstFormal(m) THEN <<"This", "this">>
             ELSE <<"Param", r - FirstFormal(m)>>)]

-----------------------------------------------------------------------------
(***************************************************************************)
(* The state of the pass.  regs maps the registers that are known to a     *)
(* lock; ret is what the call before returned; allocated has the class of  *)
(* each allocation; `became` are the stores that renamed their source.     *)
(***************************************************************************)
Start(m) ==
  [regs |-> Formals(m), ret |-> <<>>, allocated |-> <<>>, sites |-> {}, stores |-> {},
   calls |-> {}, returns |-> {}, became |-> {}]

Known(s, r) == IF r \in DOMAIN s.regs THEN <<s.regs[r]>> ELSE <<>>

\* Function f with value v at x.
Bind(f, x, v) == [y \in DOMAIN f \cup {x} |-> IF y = x THEN v ELSE f[y]]

HasRoot(o, kinds) == o # <<>> /\ Kind(o[1]) \in kinds

\* Mutant of Define: a value that is not known leaves the register as it was.
DefineKnown(s, dst, o) == [s EXCEPT !.regs = IF o = <<>> THEN @ ELSE Bind(@, dst, o[1])]

\* Register dst holds o from now on, or nothing that is known.
Define(s, dst, o) ==
  [s EXCEPT !.regs = IF o = <<>> THEN Restrict(@, DOMAIN @ \ {dst}) ELSE Bind(@, dst, o[1])]

\* Whether a store is to a field of `this`, as far as the pass looks.
OnThis(store) == HasRoot(store.base, {"This"})

\* A new object stored in a field of `this` is that field from now on.
Store(s, at, src, base, f) ==
  LET store == [at |-> at, field |-> f, base |-> Known(s, base), source |-> Known(s, src)]
      put == [s EXCEPT !.stores = @ \cup {store}]
  IN  IF OnThis(store) /\ HasRoot(store.source, {"Alloc"})
        THEN [Define(put, src, <<FieldLock(<<"This", "this">>, f[2])>>) EXCEPT !.became = @ \cup {at}]
        ELSE put

Lost(m, at) == NewLock(<<"Opaque", <<"lost", m.key, at>>>>)

Site(m, s, at, r) ==
  [s EXCEPT !.sites = @ \cup {[at |-> at, lock |-> IF Known(s, r) = <<>> THEN Lost(m, at) ELSE s.regs[r]]}]

\* What a call returns: a view of its receiver, or what a getter returns.
Returned(getters, s, callee, args) ==
  LET actuals == [k \in DOMAIN args |-> Known(s, args[k])]
  IN  IF callee \in DOMAIN Views
        THEN IF actuals[1] = <<>> THEN <<>> ELSE <<WithMode(actuals[1][1], Views[callee])>>
      ELSE IF callee \in DOMAIN getters \ Library THEN Subst(getters[callee], actuals)
      ELSE <<>>

Invoked(m, getters, s, at, callee, args) ==
  LET bound == [s EXCEPT !.ret = Returned(getters, s, callee, args),
                         !.calls = @ \cup {[caller |-> m.key, callee |-> callee,
                                            actuals |-> [k \in DOMAIN args |-> Known(s, args[k])]]}]
  IN  IF callee \in Acquires THEN Site(m, bound, at, args[1]) ELSE bound

Step(m, getters, s, at) ==
  LET i == m.insns[at]
      op == i[1]
      site == <<"Alloc", <<m.key, at>>>>
  IN  CASE op = "Sget"        -> Define(s, i[2], <<FieldLock(<<"Static", i[3][1]>>, i[3][2])>>)
        [] op = "Iget"        -> Define(s, i[2], <<FieldLock(<<"Recv", i[4][1]>>, i[4][2])>>)
        [] op = "Iput"        -> Store(s, at, i[2], i[3], i[4])
        [] op = "ConstClass"  -> Define(s, i[2], <<NewLock(<<"ClassConst", i[3]>>)>>)
        [] op = "NewInstance" -> [Define(s, i[2], <<NewLock(site)>>) EXCEPT !.allocated = Bind(@, site, i[3])]
        [] op = "Move"        -> Define(s, i[2], Known(s, i[3]))
        [] op = "MoveResult"  -> [Define(s, i[2], s.ret) EXCEPT !.ret = <<>>]
        [] op = "Def"         -> Define(s, i[2], <<>>)
        [] op = "Return"      -> [s EXCEPT !.returns = @ \cup {IF Len(i) = 1 THEN <<>> ELSE Known(s, i[2])}]
        [] op = "Invoke"      -> Invoked(m, getters, s, at, i[2], i[3])
        [] op = "Enter"       -> Site(m, s, at, i[2])
        [] OTHER              -> s

\* The states of the pass over m with the getters known, instruction by instruction.
States(m, getters) ==
  LET state[n \in 0 .. Len(m.insns)] ==
        IF n = 0 THEN Start(m) ELSE Step(m, getters, state[n - 1], n)
  IN  state

Extracted(m, getters) == States(m, getters)[Len(m.insns)]

\* The one value that every return of a method returns, if it names a lock by itself.
ReturnValue(m) ==
  LET returns == Extracted(m, <<>>).returns
      simple == {"This", "Param", "Recv", "Static", "ClassConst"}
  IN  {o \in returns : returns = {o} /\ HasRoot(o, simple)}

\* Two passes: getters first, then all methods with the getters known.
Getters(code) ==
  [k \in {n \in DOMAIN code : ReturnValue(code[n]) # {}} |-> (CHOOSE o \in ReturnValue(code[k]) : TRUE)[1]]

Summaries(code) ==
  LET getters == Getters(code)
  IN  [k \in DOMAIN code |-> Extracted(code[k], getters)]
================================================================================
