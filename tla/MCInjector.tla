----------------------------- MODULE MCInjector -----------------------------
(***************************************************************************)
(* Small programs for Injector: an entry method and two methods that call  *)
(* each other and themselves, every way an argument can be passed, and at  *)
(* most three call sites.                                                  *)
(***************************************************************************)
EXTENDS Injector

MCMethod == {"m0", "m1", "m2"}

MCClassOf == [m \in MCMethod |-> IF m = "m2" THEN "B" ELSE "A"]

Arg(root, fields) == <<Lock(root, fields, "Plain")>>

This   == Arg(<<"This", "this">>, <<>>)
Mine   == Arg(<<"This", "this">>, <<"f">>)
Global == Arg(<<"Static", "S">>, <<>>)
Fresh  == Arg(<<"Alloc", "T">>, <<>>)
Own(i) == Arg(<<"Param", i>>, <<>>)
Field(i) == Arg(<<"Param", i>>, <<"f">>)

Call(m, n, args) == [caller |-> m, callee |-> n, actuals |-> args]

Pool ==
  {Call("m0", "m1", <<a>>) : a \in {This, Global, Fresh}} \cup
  {Call("m0", "m1", <<Global, <<>>>>), Call("m0", "m2", <<Mine, Global>>),
   Call("m1", "m2", <<Own(0)>>), Call("m2", "m1", <<Own(0)>>),
   Call("m1", "m1", <<Own(1), Own(0)>>), Call("m2", "m2", <<Field(0)>>),
   Call("m1", "m2", <<Fresh, Own(0)>>)}

CallSets == {{a, b, c} : a \in Pool, b \in Pool, c \in Pool}

Stores == {[field |-> <<"B", "g">>, formal |-> <<"m2", 0>>],
           [field |-> <<"B", "g">>, formal |-> <<"m1", 1>>]}

MCPrograms ==
  {[calls |-> C, stores |-> Stores, operands |-> {<<"m1", 0>>}] : C \in CallSets}

MCGuess ==
  {Bottom, Top} \cup {Val(Lock(r, p, "Plain")) : r \in {<<"Recv", "A">>, <<"Static", "S">>}, p \in {<<>>, <<"f">>}}
=============================================================================
