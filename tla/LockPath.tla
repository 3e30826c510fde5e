------------------------------ MODULE LockPath ------------------------------
(***************************************************************************)
(* The abstract identity of a lock (src/dex/model.rs): a root, a bounded   *)
(* path of field hops, and the read/write mode of a ReadWriteLock view.    *)
(*                                                                         *)
(* A root is a pair <<kind, id>>.  "This" and "Param" are parametric: they *)
(* mean something only inside one method.  "Recv" and "Static" are         *)
(* program-wide identities.  The id of an "Opaque" root is a tuple that    *)
(* starts with the place the value was lost at, which is what keeps two    *)
(* unknowns apart.                                                         *)
(***************************************************************************)
EXTENDS Naturals, Sequences

CONSTANT MaxAp        \* the access-path cap (MAX_AP, 10 in the code)

ASSUME MaxApAssumption == MaxAp \in Nat

Modes == {"Plain", "Read", "Write"}

RootKinds == {"This", "Param", "Recv", "Static", "ClassConst", "Alloc", "Opaque"}

\* Recv and Static are the roots that name one object for the whole program.
Grounded == {"Recv", "Static"}

Lock(root, fields, mode) == [root |-> root, fields |-> fields, mode |-> mode]

IsLock(l) ==
  /\ l = Lock(l.root, l.fields, l.mode)
  /\ l.root = <<l.root[1], l.root[2]>>
  /\ l.root[1] \in RootKinds
  /\ l.root[1] = "Param" => l.root[2] \in Nat

NewLock(root) == Lock(root, <<>>, "Plain")

FieldLock(root, field) == Lock(root, <<field>>, "Plain")

Kind(l) == l.root[1]

IsOpaque(l) == Kind(l) = "Opaque"

IsParametric(l) == Kind(l) \in {"This", "Param"}

WithMode(l, mode) == [l EXCEPT !.mode = mode]

(***************************************************************************)
(* A path that outgrows the cap becomes an opaque keyed by everything that *)
(* was known of it.                                                        *)
(***************************************************************************)
ExtendedMode(mine, other) == IF other # "Plain" THEN other ELSE mine

Truncated(l) == NewLock(<<"Opaque", <<"trunc", l>>>>)

Extend(l, more, mode) ==
  LET path == Lock(l.root, l.fields \o more, ExtendedMode(l.mode, mode))
  IN  IF Len(path.fields) > MaxAp THEN Truncated(path) ELSE path

(***************************************************************************)
(* Ground a lock of method `method` of class `class` for use outside it.   *)
(***************************************************************************)
Ground(l, class, method) ==
  CASE Kind(l) = "This"  -> [l EXCEPT !.root = <<"Recv", class>>]
    [] Kind(l) = "Param" -> NewLock(<<"Opaque", <<"param", method, l.root[2]>>>>)
    [] OTHER             -> l

(***************************************************************************)
(* Bind a callee's lock in the frame of its caller.  `args` holds one      *)
(* option (<<>> or <<lock>>) per argument, the receiver first; the result  *)
(* is an option too.                                                       *)
(***************************************************************************)
ArgOrNone(args, i) == IF i + 1 \in DOMAIN args THEN args[i + 1] ELSE <<>>

Bound(l, arg) == IF arg = <<>> THEN <<>> ELSE <<Extend(arg[1], l.fields, l.mode)>>

Subst(l, args) ==
  CASE Kind(l) = "This"  -> Bound(l, ArgOrNone(args, 0))
    [] Kind(l) = "Param" -> Bound(l, ArgOrNone(args, l.root[2]))
    [] OTHER             -> <<l>>

(***************************************************************************)
(* The canonical name, as the sequence of its dot-separated parts.  Recv   *)
(* and Static of one class share a first part, as they do in the code.     *)
(***************************************************************************)
RootName(root) ==
  CASE root[1] = "This"       -> <<"this">>
    [] root[1] = "ClassConst" -> <<root[2], "class">>
    [] root[1] \in Grounded   -> <<root[2]>>
    [] OTHER                  -> <<root[1], root[2]>>

ModeName(mode) ==
  CASE mode = "Plain" -> <<>>
    [] mode = "Read"  -> <<"read">>
    [] mode = "Write" -> <<"write">>

Name(l) == RootName(l.root) \o l.fields \o ModeName(l.mode)
=============================================================================
