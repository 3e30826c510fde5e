------------------------------- MODULE Naming -------------------------------
(***************************************************************************)
(* The alias map and the names it gives (src/dex/mod.rs, `acquisitions`    *)
(* and `canonicalize`).                                                    *)
(*                                                                         *)
(* A field that always holds another lock is an alias of that lock.  Three *)
(* passes note aliases: fields assigned a lock directly, fields assigned a *)
(* formal the injector resolved, and fields that hold the one instance of  *)
(* a class that locks itself.  Every pass walks a hash map, in no order.   *)
(*                                                                         *)
(* When the map is final, a second actor executes the field stores of the  *)
(* program one after another.  The map is sound if a field taken for a     *)
(* lock is never stored anything else.                                     *)
(***************************************************************************)
EXTENDS LockPath, FiniteSets, FiniteSetsExt

CONSTANTS
  Programs,      \* the programs named: see IsProgram
  MaxCanonHops   \* how many aliases canonicalize follows (6 in the code)

(***************************************************************************)
(* A store `base.field = value` of a method of class `class`: onThis says  *)
(* whether base is the receiver.  A value is <<"lock", l>>, <<"fresh", T>>,*)
(* <<"unknown">>, or <<"formal", objects>> with the locks that callers     *)
(* pass for that formal, each in terms of the whole program, none if they  *)
(* are not known; field is <<class, name>>, the name of the field.         *)
(***************************************************************************)
IsStore(s) ==
  /\ s = [field |-> s.field, class |-> s.class, onThis |-> s.onThis, value |-> s.value]
  /\ s.field = <<s.field[1], s.field[2]>>
  /\ s.onThis \in BOOLEAN
  /\ s.value[1] \in {"lock", "fresh", "formal", "unknown"}
  /\ s.value[1] = "lock" => IsLock(s.value[2])
  /\ s.value[1] = "formal" => \A o \in s.value[2] : IsLock(o) /\ ~ IsParametric(o)

\* selfSync are the classes with a method that locks `this`.
IsProgram(p) ==
  /\ p = [stores |-> p.stores, selfSync |-> p.selfSync]
  /\ \A s \in p.stores : IsStore(s)

ASSUME ProgramsAssumption == \A p \in Programs : IsProgram(p)

ASSUME MaxCanonHopsAssumption == MaxCanonHops \in Nat

VARIABLES
  prog,     \* the program; never changes
  phase,    \* "direct", "resolved", "singleton", "done"
  todo,     \* what this pass has still to note
  seen,     \* field -> <<>> (conflict) or <<lock>>
  last      \* the store executed last: <<>> or <<store, object>>

vars == <<prog, phase, todo, seen, last>>

-----------------------------------------------------------------------------
(***************************************************************************)
(* What the extraction makes of the stores.                                *)
(***************************************************************************)

StoredLock(s) == Ground(s.value[2], s.class, <<"method of", s.class>>)

\* `this.f = <concrete lock>`, other than f itself.
IsDirect(s) ==
  /\ s.onThis
  /\ s.value[1] = "lock"
  /\ Kind(StoredLock(s)) \in Grounded
  /\ Name(StoredLock(s)) # s.field

Direct == {<<s.field, StoredLock(s)>> : s \in {t \in prog.stores : IsDirect(t)}}

FormalStores(field) == {s \in prog.stores : s.field = field /\ s.onThis /\ s.value[1] = "formal"}

\* What Injector!ResolveFields promises: the one lock every formal stored to
\* the field is bound to.
Resolved ==
  {a \in UNION {{<<s.field, o>> : o \in s.value[2]} : s \in {t \in prog.stores : t.value[1] = "formal"}} :
     /\ {s.value[2] : s \in FormalStores(a[1])} = {{a[2]}}
     /\ Name(a[2]) # a[1]}

\* The fields that are stored a new T, through whatever base.
StoredIn(T) == {s.field : s \in {t \in prog.stores : t.value = <<"fresh", T>>}}

Allocated == {s.value[2] : s \in {t \in prog.stores : t.value[1] = "fresh"}}

-----------------------------------------------------------------------------
\* Mutant of Note: the note made last wins.
NoteLast(key, l) ==
  [k \in DOMAIN seen \cup {key} |-> IF k = key THEN <<l>> ELSE seen[k]]

\* The map after noting that field key holds l.
Note(key, l) ==
  [k \in DOMAIN seen \cup {key} |->
     IF k # key THEN seen[k]
     ELSE IF key \notin DOMAIN seen \/ seen[key] = <<l>> THEN <<l>>
     ELSE <<>>]

Init ==
  /\ prog \in Programs
  /\ phase = "direct"
  /\ todo = Direct
  /\ seen = <<>>
  /\ last = <<>>

NoteAlias(a) ==
  /\ phase \in {"direct", "resolved"}
  /\ a \in todo
  /\ todo' = todo \ {a}
  /\ seen' = Note(a[1], a[2])
  /\ UNCHANGED <<prog, phase, last>>

\* T locks itself and is stored to exactly one field.
Alone(T) == T \in prog.selfSync /\ \E k \in StoredIn(T) : StoredIn(T) = {k}

NoteSingleton(T) ==
  LET field == CHOOSE k \in StoredIn(T) : TRUE
  IN  /\ phase = "singleton"
      /\ T \in todo
      /\ todo' = todo \ {T}
      /\ seen' = IF Alone(T) /\ field \notin DOMAIN seen
                   THEN Note(field, NewLock(<<"Recv", T>>))
                   ELSE seen
      /\ UNCHANGED <<prog, phase, last>>

NextPass ==
  /\ phase # "done"
  /\ todo = {}
  /\ \/ phase = "direct" /\ phase' = "resolved" /\ todo' = Resolved
     \/ phase = "resolved" /\ phase' = "singleton" /\ todo' = Allocated
     \/ phase = "singleton" /\ phase' = "done" /\ todo' = {}
  /\ UNCHANGED <<prog, seen, last>>

-----------------------------------------------------------------------------
(***************************************************************************)
(* The final map, and the lock a lock is an alias of in the end.           *)
(***************************************************************************)
Aliased == {k \in DOMAIN seen : seen[k] # <<>>}

Target(k) == seen[k][1]

Base(l) == Name(WithMode(l, "Plain"))

Follows(l) == Kind(l) \in Grounded /\ Base(l) \in Aliased

Follow(l) == IF Follows(l) THEN WithMode(Target(Base(l)), l.mode) ELSE l

\* The lock after n aliases.
Chased(l, n) ==
  LET chase[j \in 0 .. n] == IF j = 0 THEN l ELSE Follow(chase[j - 1])
  IN  chase[n]

\* Mutant of Canonicalize: one alias is followed, the map is not chased.
CanonicalizeOnce(l) == Follow(l)

Canonicalize(l) == Chased(l, MaxCanonHops)

-----------------------------------------------------------------------------
(***************************************************************************)
(* The program at run time: which object does a store put in the field?    *)
(***************************************************************************)
Unknown(s) == <<"unknown", s>>

\* A field stored to itself keeps its object.
ObjectsOf(s) ==
  CASE s.value[1] = "lock" ->
         IF Name(StoredLock(s)) = s.field THEN {} ELSE {<<"lock", StoredLock(s)>>}
    [] s.value[1] = "formal" /\ s.value[2] # {} -> {<<"lock", o>> : o \in s.value[2]}
    [] s.value[1] = "fresh"  -> {<<"fresh", s.value[2]>>}
    [] OTHER                 -> {Unknown(s)}

Execute(s, object) ==
  /\ phase = "done"
  /\ s \in prog.stores
  /\ object \in ObjectsOf(s)
  /\ last' = <<s, object>>
  /\ UNCHANGED <<prog, phase, todo, seen>>

Naming ==
  \/ \E a \in todo : NoteAlias(a)
  \/ \E T \in todo : NoteSingleton(T)
  \/ NextPass

Next == Naming \/ \E s \in prog.stores : \E object \in ObjectsOf(s) : Execute(s, object)

Spec == Init /\ [][Next]_vars

-----------------------------------------------------------------------------
TypeOK ==
  /\ IsProgram(prog)
  /\ phase \in {"direct", "resolved", "singleton", "done"}
  /\ phase = "direct" => todo \subseteq Direct
  /\ phase = "resolved" => todo \subseteq Resolved
  /\ phase = "singleton" => todo \subseteq Allocated
  /\ phase = "done" => todo = {}
  /\ DOMAIN seen \subseteq {s.field : s \in prog.stores}
  /\ \A k \in Aliased : seen[k] = <<Target(k)>> /\ ~ IsParametric(Target(k))

(***************************************************************************)
(* Properties.                                                             *)
(***************************************************************************)

NotesOf(k) == {a[2] : a \in {b \in Direct \cup Resolved : b[1] = k}}

\* The classes whose self-monitor pass (c) may take field k for.
Singletons(k) == {T \in Allocated : Alone(T) /\ StoredIn(T) = {k}}

\* Every store to field k is one the extraction notes, or all of them store a
\* new instance of one class.
Noted(s) ==
  \/ IsDirect(s)
  \/ s \in FormalStores(s.field) /\ s.value[2] # {} /\ {s.field} \X s.value[2] \subseteq Resolved

AllStoresNoted(k) ==
  LET stores == {s \in prog.stores : s.field = k}
  IN  (\A s \in stores : Noted(s)) \/ (\E T \in Allocated : \A s \in stores : s.value = <<"fresh", T>>)

\* What a field may be taken for: what is noted of it, or else one of the classes
\* that are alone in it.  Of several classes the hash map picks one.
Candidates(k) ==
  IF NotesOf(k) # {} THEN NotesOf(k) ELSE {NewLock(<<"Recv", T>>) : T \in Singletons(k)}

\* Whatever the order of the hash maps (lines 176-214): a field is taken for a
\* lock that is noted of it, never for another; two notes that differ leave it
\* distinct, also when the first comes again after the second; and a field with
\* one candidate and no store but those that note it is taken for that candidate.
\* A field with other stores as well need not be: line 175, "a field assigned
\* different objects at different sites is left distinct".
AliasMatchesNotes ==
  phase = "done" =>
    \A k \in {s.field : s \in prog.stores} :
      /\ k \in Aliased => Target(k) \in Candidates(k)
      /\ \A l, j \in NotesOf(k) : l # j => k \notin Aliased
      /\ \A l \in Candidates(k) :
           Candidates(k) = {l} /\ AllStoresNoted(k) => k \in Aliased /\ Target(k) = l

\* The object put in a field by the last store is the lock its field is taken
\* for: "a field assigned different objects at different sites is left distinct
\* (sound)", line 175.
Is(object, l) ==
  \/ object = <<"lock", l>>
  \/ object[1] = "fresh" /\ l = NewLock(<<"Recv", object[2]>>)

HoldsItsTarget ==
  LET k == last[1].field
  IN  last # <<>> /\ k \in Aliased => Is(last[2], Target(k))

NotedFieldHoldsItsTarget == last # <<>> /\ AllStoresNoted(last[1].field) => HoldsItsTarget

\* The lock a field is named by where nothing is known of it.
FieldOf(k) == FieldLock(<<"Recv", k[1]>>, k[2])

\* Following the aliases of l comes to an end.
Ends(l) == ~ Follows(Chased(l, Cardinality(Aliased)))

\* "The alias map is chased transitively" (README.md:74-76): a field and the lock
\* it is taken for have one name, and that name is no alias, unless the chain
\* is a cycle or longer than canonicalize follows.
AliasCollapses ==
  phase = "done" /\ Cardinality(Aliased) <= MaxCanonHops =>
    \A k \in Aliased : Ends(FieldOf(k)) =>
      /\ ~ Follows(Canonicalize(FieldOf(k)))
      /\ Canonicalize(FieldOf(k)) = Canonicalize(WithMode(Target(k), "Plain"))
=============================================================================
