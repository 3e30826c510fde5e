------------------------------- MODULE MCDispatch -------------------------------
(***************************************************************************)
(* Small programs for Dispatch.  I is an interface with the method go, P   *)
(* implements it, Q is below P or I; K has the static methods top, each    *)
(* and pass, which hand objects to each other.  I may be a remote          *)
(* interface, of which P may be the client proxy: B is IBinder, A is       *)
(* IInterface.                                                             *)
(***************************************************************************)
EXTENDS Dispatch, FiniteSetsExt

CONSTANTS A, B, I, P, Q, K, go, top, each, pass, transact, asBinder

MCClass == {A, B, I, P, Q, K}
MCSig == {go, top, each, pass, transact, asBinder}
MCTransactSig == {transact}
MCPlumbingSig == {asBinder}
MCPosition == {0, 1}

Arg(types, formals, fresh) == [types |-> types, formals |-> formals, fresh |-> fresh]
New(c) == Arg({c}, {}, TRUE)
Field(c) == Arg({c}, {}, FALSE)
This(c) == Arg({c}, {0}, FALSE)
Formal(j) == Arg({}, {j}, FALSE)
Other == Arg({}, {}, FALSE)

Calling(m, class, sig, virtual, arg0, arg1) ==
  [caller |-> m, class |-> class, sig |-> sig, virtual |-> virtual,
   args |-> [p \in Position |-> IF p = 0 THEN arg0 ELSE arg1]]

MCCalls == {
  Calling(<<K, top>>, K, each, FALSE, New(Q), New(P)),
  Calling(<<K, top>>, K, pass, FALSE, Field(P), Other),
  Calling(<<K, each>>, K, pass, FALSE, Formal(1), Formal(0)),
  Calling(<<K, pass>>, K, each, FALSE, Formal(0), Formal(0)),
  Calling(<<K, each>>, I, go, TRUE, Formal(0), Formal(1)),
  Calling(<<P, go>>, B, transact, TRUE, Other, Formal(1)),
  Calling(<<P, go>>, I, go, TRUE, Formal(1), This(P)),
  Calling(<<P, go>>, P, go, TRUE, This(P), New(Q)),
  Calling(<<K, top>>, I, go, TRUE, Other, New(Q)),
  Calling(<<K, top>>, I, go, TRUE, Field(P), Formal(0)),
  Calling(<<K, pass>>, P, go, TRUE, New(Q), Formal(1))}

MCStatic == {<<K, top>>, <<K, each>>, <<K, pass>>}

\* Q is below P, or beside it; I extends IInterface or does not.
MCParents ==
  {[c \in Class |-> CASE c = I -> remote [] c = P -> {I} [] c = Q -> {above} [] OTHER -> {}] :
     remote \in {{}, {A}}, above \in {P, I}}

\* Q has a go of its own or inherits one; then any ancestor may come first.
MCBodies == {
  [declared |-> {<<I, go>>, <<P, go>>, <<Q, go>>}, first |-> I],
  [declared |-> {<<I, go>>, <<P, go>>}, first |-> I],
  [declared |-> {<<I, go>>, <<P, go>>}, first |-> P],
  [declared |-> {<<I, go>>, <<Q, go>>}, first |-> I],
  [declared |-> {<<P, go>>}, first |-> P]}

MCFirst(parents, body) ==
  [m \in Method |->
     CASE m = <<P, go>> -> {I} \cap {d[1] : d \in body.declared}
       [] m = <<Q, go>> -> {body.first}
       [] m[1] # A /\ m[2] = asBinder -> IF m[1] \in {I, P, Q} THEN parents[I] ELSE {}
       [] OTHER -> {}]

MCSystem == {<<B, transact>>, <<A, asBinder>>}

MCPrograms ==
  {[parents |-> parents, declared |-> body.declared \cup MCStatic \cup MCSystem,
    abstract |-> (body.declared \cap {<<I, go>>}) \cup MCSystem,
    entries |-> {<<K, top>>} \cup (body.declared \cap {<<P, go>>}), first |-> MCFirst(parents, body),
    calls |-> {k \in calls : k.caller \in MCStatic \cup body.declared}] :
     parents \in MCParents, body \in MCBodies,
     calls \in UNION {kSubset(n, MCCalls) : n \in 2 .. 4}}
===============================================================================
