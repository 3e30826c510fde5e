---------------------------- MODULE MCAcquisitions ----------------------------
(***************************************************************************)
(* Small programs for Acquisitions: two classes with three fields that are *)
(* stored every kind of value, at most three stores each, and methods of   *)
(* every three steps with one register, getters and formals.               *)
(***************************************************************************)
EXTENDS Acquisitions

F == <<"A", "f">>
G == <<"A", "g">>
H == <<"B", "h">>
Global == <<"S", "lock">>
Another == <<"S", "other">>

\* A method with n registers below its formals.
Routine(key, static, n, types, insns) ==
  [key |-> key, class |-> ClassOf[key], static |-> static, registers |-> n + Len(types), ins |-> Len(types),
   types |-> types, insns |-> Append(insns, <<"Return">>)]

Object == <<"Object">>

\* An instance method with registers 0 and 1, `this` in 2, and perhaps a formal in 3.
Own(key, insns) == Routine(key, FALSE, 2, <<Object>>, insns)
With(key, insns) == Routine(key, FALSE, 2, <<Object, Object>>, insns)
Getter(key, insns) == Routine(key, FALSE, 2, <<Object>>, insns)

Ask(callee, args) == <<<<"Invoke", callee, args>>, <<"MoveResult", 0>>>>
Fill(f) == <<<<"Iput", 0, 2, f>>>>

\* A static method that returns a new object.
Make == [Routine("make", TRUE, 1, <<>>, <<<<"NewInstance", 0, "T">>>>) EXCEPT !.insns[2] = <<"Return", 0>>]

\* A static method that returns its argument.
Same == [Routine("same", TRUE, 0, <<Object>>, <<>>) EXCEPT !.insns[1] = <<"Return", 0>>]

-----------------------------------------------------------------------------
(***************************************************************************)
(* Stores.  In `main`, register 0 holds an A, 1 a B, 2 the global lock; a  *)
(* setter is listed with the ways it is called.                            *)
(***************************************************************************)
Plain(m, receiver) == [method |-> m, calls |-> <<<<<<"Invoke", m.key, <<receiver>>>>>>>>]
Passed(m, receiver, loads) ==
  [method |-> m, calls |-> [k \in DOMAIN loads |-> Append(loads[k], <<"Invoke", m.key, <<receiver, 3>>>>)]]

LoadGlobal == <<<<"Sget", 3, Global>>>>
LoadField(f) == <<<<"Iget", 3, 0, f>>>>

Pool ==
  <<Plain(Own("a1", <<<<"Sget", 0, Global>>>> \o Fill(F)), 0),
   Plain(Own("a2", <<<<"Iget", 0, 2, G>>>> \o Fill(F)), 0),
   Plain(Own("a3", <<<<"NewInstance", 0, "T">>>> \o Fill(F)), 0),
   Plain(Own("a4", <<<<"NewInstance", 0, "U">>>> \o Fill(F)), 0),
   Plain(Own("a5", Ask("make", <<>>) \o Fill(F)), 0),
   Passed(With("a6", <<<<"Iput", 3, 2, F>>>>), 0, <<LoadGlobal>>),
   Passed(With("a7", <<<<"Iput", 3, 2, F>>>>), 0, <<LoadGlobal, LoadField(G)>>),
   Plain(Own("a8", <<<<"Sget", 0, Global>>>> \o Fill(G)), 0),
   Plain(Own("a9", <<<<"Iget", 0, 2, F>>>> \o Fill(G)), 0),
   Plain(Own("a10", <<<<"NewInstance", 0, "T">>>> \o Fill(G)), 0),
   Passed(With("b1", <<<<"NewInstance", 0, "T">>, <<"Iput", 0, 3, F>>>>), 1, <<<<<<"Move", 3, 0>>>>>>),
   Passed(With("b2", <<<<"Iget", 0, 3, F>>>> \o Fill(H)), 1, <<<<<<"Move", 3, 0>>>>>>),
   Plain(Own("b3", <<<<"Iput", 2, 2, H>>>>), 1),
   Plain(Own("b4", <<<<"ConstClass", 0, "A">>>> \o Fill(H)), 1),
   Passed(With("b5", <<<<"Iput", 3, 2, H>>>>), 1, <<LoadField(G)>>)>>

\* A class that locks itself.
SelfLocking(key) == Own(key, <<<<"Enter", 2>>, <<"Exit", 2>>>>)

Objects == <<<<"NewInstance", 0, "A">>, <<"NewInstance", 1, "B">>, <<"Sget", 2, Global>>>>

\* Instructions that may be left out: at is the place of the first.
Perhaps(at, insns) == <<<<"Branch", at + Len(insns) + 1>>>> \o insns

Optional(insns, more) == insns \o Perhaps(Len(insns) + 1, more)

Lock1(base, f) == <<<<"Iget", 3, base, f>>, <<"Enter", 3>>, <<"Exit", 3>>>>

Program(methods) == [k \in {m.key : m \in methods} |-> CHOOSE m \in methods : m.key = k]

Storing(picked, selfSync) ==
  LET items == [n \in DOMAIN picked |-> Pool[picked[n]]]
      calls == FlattenSeq([n \in DOMAIN items |-> items[n].calls])
      stored == FoldLeft(Optional, Objects, calls)
      body == FoldLeft(Optional, stored, <<Lock1(0, F), Lock1(0, G), Lock1(1, H)>>)
  IN  Program({items[n].method : n \in DOMAIN items} \cup {Make} \cup {SelfLocking(k) : k \in selfSync}
                \cup {Routine("main", TRUE, 4, <<>>, body)})

Increasing(c) == \A n \in 1 .. Len(c) - 1 : c[n] < c[n + 1]

Selections == {c \in UNION {[1 .. n -> DOMAIN Pool] : n \in 1 .. 3} : Increasing(c)}

StoreWays == {"stores"} \X Selections \X {{}, {"lockT"}, {"lockT", "lockU"}}

-----------------------------------------------------------------------------
(***************************************************************************)
(* Registers: every method of three steps, then a lock is taken through    *)
(* register 0.  Register 2 is `this`, 3 the formal; a step "Branch" leads  *)
(* to the end.                                                             *)
(***************************************************************************)
Steps ==
  {<<<<"Sget", 0, Global>>>>, <<<<"Iget", 0, 2, F>>>>, <<<<"NewInstance", 0, "T">>>>, Fill(F),
   <<<<"Move", 1, 0>>>>, <<<<"Move", 0, 1>>>>, <<<<"Move", 0, 3>>>>, Ask("get", <<2>>), Ask("same", <<0>>),
   Ask("make", <<>>), Ask("readLock", <<0>>), <<<<"Branch", 0>>>>, <<<<"Other", 0>>>>, <<<<"Def", 0>>>>, <<<<"ConstClass", 0, "A">>>>}

Landing(insns, at) == [k \in DOMAIN insns |-> IF insns[k][1] = "Branch" THEN <<"Branch", at>> ELSE insns[k]]

Work(steps) ==
  LET insns == FlattenSeq(steps)
  IN  With("work", Landing(insns, Len(insns) + 1) \o <<<<"Enter", 0>>, <<"Exit", 0>>>>)

\* What a getter may return: a field, the global lock, either, and a new object that becomes the field.
Get(insns) == [Getter("get", insns) EXCEPT !.insns[Len(insns) + 1] = <<"Return", 0>>]

FieldGetter == Get(<<<<"Iget", 0, 2, F>>>>)

\* The object is stored through another getter, and then perhaps in another field.
Self == [Getter("self", <<<<"Move", 0, 2>>>>) EXCEPT !.insns[2] = <<"Return", 0>>]
SelfGetter ==
  Get(<<<<"Invoke", "self", <<2>>>>, <<"MoveResult", 1>>, <<"NewInstance", 0, "T">>, <<"Iput", 0, 1, G>>, <<"Branch", 7>>>> \o Fill(F))

GetterPool ==
  {FieldGetter, Get(<<<<"Sget", 0, Global>>>>),
   Get(<<<<"Iget", 0, 2, F>>, <<"Branch", 4>>, <<"Sget", 0, Global>>>>),
   Get(<<<<"Iget", 0, 2, F>>, <<"Branch", 5>>, <<"Sget", 1, Global>>, <<"Return", 1>>>>),
   Get(<<<<"NewInstance", 0, "T">>>> \o Fill(F)),
   Get(<<<<"Move", 0, 2>>>>), SelfGetter}

\* `main` makes an A whose field is set to a lock, and calls `work` with each argument.
Calling(loads) ==
  Routine("main", TRUE, 4, <<>>,
    Objects \o <<<<"Invoke", "set", <<0, 2>>>>>> \o FlattenSeq([k \in DOMAIN loads |-> Append(loads[k], <<"Invoke", "work", <<0, 3>>>>)]))

Set == With("set", <<<<"Iput", 3, 2, F>>>>)

Once == <<LoadGlobal>>
Twice == <<LoadGlobal, <<<<"Sget", 3, Another>>>>>>

RegisterWays ==
  ({"registers"} \X [1 .. 3 -> Steps] \X {FieldGetter} \X {Once})
    \cup ({"registers"} \X [1 .. 2 -> Steps] \X GetterPool \X {Once, Twice})

Computing(steps, getter, loads) == Program({Calling(loads), Set, Make, Same, Self, getter, Work(steps)})

-----------------------------------------------------------------------------
(***************************************************************************)
(* Formals: an object handed on, read through a getter of its own, locked  *)
(* by a view, and stored.                                                  *)
(***************************************************************************)
Uses ==
  {<<<<"Enter", 3>>>>,
   <<<<"Invoke", "readLock", <<3>>>>, <<"MoveResult", 0>>, <<"Invoke", "lock", <<0>>>>, <<"Invoke", "unlock", <<0>>>>>>,
   Ask("get", <<3>>) \o <<<<"Enter", 0>>>>,
   Ask("get", <<3>>) \o <<<<"Iput", 0, 2, H>>, <<"Iget", 0, 2, H>>, <<"Enter", 0>>>>,
   <<<<"Iput", 3, 2, H>>, <<"Iget", 0, 2, H>>, <<"Enter", 0>>>>,
   <<<<"Sput", 3, Another>>, <<"Sget", 0, Another>>, <<"Enter", 0>>>>}

Use(type, insns) == Routine("use", FALSE, 2, <<Object, type>>, insns)

Relay(insns) == With("relay", insns \o <<<<"Invoke", "use", <<2, 3>>>>>>)

LoadA == <<<<<<"Move", 3, 0>>>>>>

Handing(loads, through) ==
  Routine("main", TRUE, 4, <<>>,
    Objects \o <<<<"Invoke", "set", <<0, 2>>>>>> \o FlattenSeq([k \in DOMAIN loads |-> Append(loads[k], <<"Invoke", through, <<1, 3>>>>)]))

FormalWays ==
  {"formals"} \X {<<LoadA, <<"A">>>>, <<LoadA, <<>>>>, <<LoadA \o Once, <<>>>>, <<Once, Object>>, <<Twice, Object>>,
                  <<<<LoadField(F)>>, <<>>>>}
              \X {"use", "relay"} \X GetterPool \X Uses

Passing(way, through, getter, use) ==
  Program({Handing(way[1], through), Set, Self, getter, Use(way[2], use), Relay(<<>>)})

-----------------------------------------------------------------------------
(***************************************************************************)
(* Fields of fields: a T that may become a field of `this` or be a view,   *)
(* what is stored in it, and a lock taken through either register.         *)
(***************************************************************************)
TG == <<"T", "g">>

NewT == <<<<"NewInstance", 0, "T">>>>

GlobalView == <<<<"Sget", 0, Global>>>> \o Ask("readLock", <<0>>)

Origins == {NewT, NewT \o Fill(F), NewT \o Ask("readLock", <<0>>), <<<<"Move", 0, 3>>>>, GlobalView}

Moves ==
  {<<<<"NewInstance", 1, "U">>>>, <<<<"Sget", 1, Global>>>>, <<<<"Move", 1, 0>>>>, <<<<"Move", 0, 2>>>>, <<<<"Iget", 0, 2, F>>>>,
   <<<<"Iget", 1, 0, TG>>>>, Fill(F), Fill(G), <<<<"Iput", 1, 2, F>>>>, <<<<"Iput", 1, 0, TG>>>>, <<<<"Iput", 3, 0, TG>>>>,
   <<<<"Iput", 0, 0, TG>>>>, Ask("get", <<2>>), Ask("readLock", <<0>>)}

FieldWays == {"fields"} \X Origins \X [1 .. 2 -> Moves] \X {0, 1} \X {{}, {"lockT"}}

\* `work` is given another T.
Nest == Routine("main", TRUE, 4, <<>>, Objects \o <<<<"NewInstance", 3, "T">>, <<"Invoke", "work", <<0, 3>>>>>>)

Nesting(origin, moves, r, selfSync) ==
  Program({Nest, FieldGetter,
           With("work", origin \o FlattenSeq(moves) \o <<<<"Enter", r>>, <<"Exit", r>>>>)}
            \cup {SelfLocking(k) : k \in selfSync})

Built(w) ==
  CASE w[1] = "stores"    -> Storing(w[2], w[3])
    [] w[1] = "fields"    -> Nesting(w[2], w[3], w[4], w[5])
    [] w[1] = "registers" -> Computing(w[2], w[3], w[4])
    [] OTHER              -> Passing(w[2], w[3], w[4], w[5])

MCCodes == {Built(w) : w \in StoreWays \cup RegisterWays \cup FormalWays \cup FieldWays}

ClassA == {"set", "get", "self", "work"} \cup {"a1", "a2", "a3", "a4", "a5", "a6", "a7", "a8", "a9", "a10"}
ClassB == {"use", "relay", "b1", "b2", "b3", "b4", "b5"}

MCClassOf ==
  [k \in ClassA \cup ClassB \cup {"main", "make", "same", "lockT", "lockU"} |->
     CASE k \in ClassA -> "A" [] k \in ClassB -> "B" [] k = "lockT" -> "T" [] k = "lockU" -> "U" [] OTHER -> "Main"]

MCMethod == DOMAIN MCClassOf
===============================================================================
