---------------------------- MODULE NamingProofs ----------------------------
(***************************************************************************)
(* Theorems about the names of locks, in two parts.                        *)
(*                                                                         *)
(* The alias map (Naming), for every program and every order in which the  *)
(* passes walk their hash maps.  The invariant says what the map holds     *)
(* half way: a field is in it if a note was made for it or a self-locking  *)
(* class was found alone in it, and it has the one lock noted, nothing     *)
(* after a conflict, and a class only where no lock was noted.  At the end *)
(* all notes are made.                                                     *)
(*                                                                         *)
(* The answers (Acquisitions), for every program and every execution of    *)
(* it.  The invariant says that what the register pass, the injector and   *)
(* the alias passes made of the program is true of the state it is in: of  *)
(* every register written where the pass last saw it change, of the        *)
(* arguments of the methods under way, of every value ever put in a field, *)
(* and of the lock taken last.  What a lock stands for is Means, from a    *)
(* root along the fields of its path.                                      *)
(***************************************************************************)
EXTENDS Acquisitions, LeastNumber

\* The notes made so far, and those for field k.
Made ==
  CASE phase = "direct"   -> Direct \ todo
    [] phase = "resolved" -> Direct \cup (Resolved \ todo)
    [] OTHER              -> Direct \cup Resolved

MadeFor(k) == {a[2] : a \in {b \in Made : b[1] = k}}

\* The classes found alone in field k so far.
Found(k) == {T \in Singletons(k) : phase = "done" \/ (phase = "singleton" /\ T \notin todo)}

MapOK ==
  /\ seen = [k \in DOMAIN seen |-> seen[k]]
  /\ \A k : k \in DOMAIN seen <=> (MadeFor(k) # {} \/ Found(k) # {})
  /\ \A k : \A l \in MadeFor(k) :
       seen[k] = IF MadeFor(k) = {l} THEN <<l>> ELSE <<>>
  /\ \A k : MadeFor(k) = {} /\ Found(k) # {} => \E T \in Found(k) : seen[k] = <<NewLock(<<"Recv", T>>)>>

TodoOK ==
  /\ IsProgram(prog)
  /\ phase \in {"direct", "resolved", "singleton", "done"}
  /\ phase = "direct" => todo \subseteq Direct
  /\ phase = "resolved" => todo \subseteq Resolved
  /\ phase = "singleton" => todo \subseteq Allocated
  /\ phase = "done" => todo = {}

LastOK ==
  last # <<>> =>
    /\ phase = "done"
    /\ \E s \in prog.stores : \E object \in ObjectsOf(s) : last = <<s, object>>

Inv == TodoOK /\ MapOK /\ LastOK

-----------------------------------------------------------------------------
\* Pass (c) finds a class in the one field it is stored to.
LEMMA AloneIsFound ==
  ASSUME NEW T \in Allocated
  PROVE  /\ Alone(T) => T \in Singletons(CHOOSE k \in StoredIn(T) : TRUE)
         /\ \A k : T \in Singletons(k) => Alone(T) /\ k = CHOOSE j \in StoredIn(T) : TRUE
BY DEF Alone, Singletons

LEMMA EmptyMap ==
  ASSUME IsProgram(prog), phase = "direct", todo = Direct, seen = <<>>
  PROVE  TodoOK /\ MapOK
<1>1. TodoOK
  BY DEF TodoOK
<1>2. \A k : MadeFor(k) = {} /\ Found(k) = {}
  BY DEF MadeFor, Made, Found
<1>3. DOMAIN seen = {}
  OBVIOUS
<1>4. MapOK
  BY <1>2, <1>3 DEF MapOK
<1> QED BY <1>1, <1>4

LEMMA InitMap ==
  ASSUME Init
  PROVE  Inv
BY EmptyMap, ProgramsAssumption DEF Init, Inv, LastOK

\* What a note adds, in the first two passes.
LEMMA NoteAliasKeeps ==
  ASSUME Inv, NEW a \in todo, NoteAlias(a)
  PROVE  Inv'
<1>1. /\ prog' = prog /\ phase' = phase /\ last' = last /\ phase \in {"direct", "resolved"}
      /\ Direct' = Direct /\ Resolved' = Resolved /\ Allocated' = Allocated
      /\ \A k : Singletons(k)' = Singletons(k)
  BY DEF NoteAlias, Direct, Resolved, Allocated, Singletons, IsDirect, StoredLock, FormalStores, Alone, StoredIn
<1>2. TodoOK' /\ LastOK'
  BY <1>1 DEF Inv, TodoOK, LastOK, NoteAlias
<1>3. Made' = Made \cup {a}
  BY <1>1 DEF Inv, TodoOK, Made, NoteAlias
<1>4. \A k : MadeFor(k)' = IF k = a[1] THEN MadeFor(k) \cup {a[2]} ELSE MadeFor(k)
  BY <1>3 DEF MadeFor
<1>5. \A k : Found(k) = {} /\ Found(k)' = {}
  BY <1>1 DEF Found
<1>6. /\ DOMAIN seen' = DOMAIN seen \cup {a[1]}
      /\ seen' = [k \in DOMAIN seen' |-> seen'[k]]
      /\ \A k \in DOMAIN seen' : k # a[1] => seen'[k] = seen[k]
      /\ seen'[a[1]] = IF a[1] \notin DOMAIN seen \/ seen[a[1]] = <<a[2]>> THEN <<a[2]>> ELSE <<>>
  BY DEF NoteAlias, Note
<1>7. \A k : k \in DOMAIN seen' <=> (MadeFor(k)' # {} \/ Found(k)' # {})
  BY <1>4, <1>5, <1>6 DEF Inv, MapOK
<1>8. ASSUME NEW k, NEW l \in MadeFor(k)'
      PROVE  seen'[k] = IF MadeFor(k)' = {l} THEN <<l>> ELSE <<>>
  <2>1. CASE k # a[1]
    BY <1>4, <1>6, <2>1, <1>7, <1>8 DEF Inv, MapOK
  <2>2. CASE k = a[1] /\ MadeFor(k) = {}
    BY <1>4, <1>5, <1>6, <2>2, <1>8 DEF Inv, MapOK
  <2>3. CASE k = a[1] /\ MadeFor(k) # {}
    <3>1. PICK j \in MadeFor(k) : TRUE
      BY <2>3
    <3>2. k \in DOMAIN seen /\ seen[k] = IF MadeFor(k) = {j} THEN <<j>> ELSE <<>>
      BY <3>1 DEF Inv, MapOK
    <3>3. MadeFor(k)' = MadeFor(k) \cup {a[2]} /\ seen'[k] = IF seen[k] = <<a[2]>> THEN <<a[2]>> ELSE <<>>
      BY <1>4, <1>6, <2>3, <3>2
    <3>4. CASE MadeFor(k) = {a[2]}
      BY <1>8, <3>1, <3>2, <3>3, <3>4
    <3>5. CASE MadeFor(k) # {a[2]}
      <4>1. seen[k] # <<a[2]>>
        BY <3>1, <3>2, <3>5
      <4>2. MadeFor(k)' # {l}
        BY <3>1, <3>3, <3>5
      <4> QED BY <3>3, <4>1, <4>2
    <3> QED BY <3>4, <3>5
  <2> QED BY <2>1, <2>2, <2>3
<1>9. MapOK'
  BY <1>5, <1>6, <1>7, <1>8 DEF MapOK
<1> QED BY <1>2, <1>9 DEF Inv

\* What a class adds, in the third pass.
LEMMA NoteSingletonKeeps ==
  ASSUME Inv, NEW T \in todo, NoteSingleton(T)
  PROVE  Inv'
<1> DEFINE mine == NewLock(<<"Recv", T>>)
<1>0. PICK field : field = CHOOSE k \in StoredIn(T) : TRUE
  OBVIOUS
<1>1. /\ prog' = prog /\ phase' = phase /\ last' = last /\ phase = "singleton"
      /\ Direct' = Direct /\ Resolved' = Resolved /\ Allocated' = Allocated
      /\ \A k : Singletons(k)' = Singletons(k)
  BY DEF NoteSingleton, Direct, Resolved, Allocated, Singletons, IsDirect, StoredLock, FormalStores, Alone, StoredIn
<1>2. TodoOK' /\ LastOK' /\ T \in Allocated
  BY <1>1 DEF Inv, TodoOK, LastOK, NoteSingleton
<1>3. \A k : MadeFor(k)' = MadeFor(k)
  BY <1>1 DEF MadeFor, Made
<1>4. \A k : Found(k)' = Found(k) \cup (Singletons(k) \cap {T})
  BY <1>1 DEF Found, NoteSingleton, Inv, TodoOK
<1>5. \A k : T \in Singletons(k) <=> (Alone(T) /\ k = field)
  BY <1>0, <1>2, AloneIsFound
<1> HIDE DEF mine
<1>6. CASE Alone(T) /\ field \notin DOMAIN seen
  <2>1. /\ seen' = [k \in DOMAIN seen \cup {field} |-> IF k = field THEN <<mine>> ELSE seen[k]]
    BY <1>0, <1>6 DEF NoteSingleton, Note, mine
  <2>2. MadeFor(field) = {} /\ Found(field) = {}
    BY <1>6 DEF Inv, MapOK
  <2>3. \A k : k # field => Found(k)' = Found(k)
    BY <1>4, <1>5
  <2>4. Found(field)' = {T}
    <3>1. T \in Singletons(field)
      BY <1>5, <1>6
    <3> QED BY <1>4, <2>2, <3>1
  <2>5. \A k : k \in DOMAIN seen' <=> (MadeFor(k)' # {} \/ Found(k)' # {})
    BY <1>3, <2>1, <2>3, <2>4 DEF Inv, MapOK
  <2>6. ASSUME NEW k, NEW l \in MadeFor(k)'
        PROVE  seen'[k] = IF MadeFor(k)' = {l} THEN <<l>> ELSE <<>>
    <3>1. l \in MadeFor(k) /\ k # field
      BY <1>3, <2>2, <2>6
    <3>2. k \in DOMAIN seen /\ seen'[k] = seen[k]
      BY <2>1, <3>1 DEF Inv, MapOK
    <3> QED BY <1>3, <3>1, <3>2 DEF Inv, MapOK
  <2>7. ASSUME NEW k, MadeFor(k)' = {}, Found(k)' # {}
        PROVE  \E U \in Found(k)' : seen'[k] = <<NewLock(<<"Recv", U>>)>>
    <3>1. CASE k = field
      BY <2>1, <2>4, <3>1 DEF mine
    <3>2. CASE k # field
      <4>1. MadeFor(k) = {} /\ Found(k) # {} /\ Found(k)' = Found(k)
        BY <1>3, <2>3, <2>7, <3>2
      <4>2. k \in DOMAIN seen /\ seen'[k] = seen[k]
        BY <2>1, <3>2, <4>1 DEF Inv, MapOK
      <4> QED BY <4>1, <4>2 DEF Inv, MapOK
    <3> QED BY <3>1, <3>2
  <2>8. seen' = [k \in DOMAIN seen' |-> seen'[k]]
    BY <2>1
  <2>9. MapOK'
    BY <2>5, <2>6, <2>7, <2>8 DEF MapOK
  <2> QED BY <1>2, <2>9 DEF Inv
<1>7. CASE ~ (Alone(T) /\ field \notin DOMAIN seen)
  <2>1. seen' = seen
    BY <1>0, <1>7 DEF NoteSingleton
  <2>2. \A k : Found(k) \subseteq Found(k)'
    BY <1>4
  <2>3. \A k : Found(k)' # Found(k) => k = field /\ Alone(T) /\ field \in DOMAIN seen
    BY <1>4, <1>5, <1>7
  <2>4. \A k : k \in DOMAIN seen' <=> (MadeFor(k)' # {} \/ Found(k)' # {})
    BY <1>3, <2>1, <2>2, <2>3 DEF Inv, MapOK
  <2>5. \A k : MadeFor(k)' = {} /\ Found(k)' # {} => \E U \in Found(k)' : seen'[k] = <<NewLock(<<"Recv", U>>)>>
    BY <1>3, <2>1, <2>2, <2>3 DEF Inv, MapOK
  <2> QED BY <1>2, <1>3, <2>1, <2>4, <2>5 DEF Inv, MapOK
<1> QED BY <1>6, <1>7

\* A pass that is over has made all of its notes.
LEMMA NextPassKeeps ==
  ASSUME Inv, NextPass
  PROVE  Inv'
<1>1. /\ prog' = prog /\ seen' = seen /\ last' = last /\ todo = {} /\ phase # "done"
      /\ Direct' = Direct /\ Resolved' = Resolved /\ Allocated' = Allocated
      /\ \A k : Singletons(k)' = Singletons(k)
  BY DEF NextPass, Direct, Resolved, Allocated, Singletons, IsDirect, StoredLock, FormalStores, Alone, StoredIn
<1>2. TodoOK' /\ LastOK'
  BY <1>1 DEF Inv, TodoOK, LastOK, NextPass
<1>3. Made' = Made
  BY <1>1 DEF NextPass, Made
<1>4. \A k : MadeFor(k)' = MadeFor(k)
  BY <1>3 DEF MadeFor
<1>5. \A k : Singletons(k) \subseteq Allocated
  BY DEF Singletons
<1>6. \A k : Found(k)' = Found(k)
  BY <1>1, <1>5 DEF NextPass, Found
<1> QED BY <1>1, <1>2, <1>4, <1>6 DEF Inv, MapOK

LEMMA ExecuteKeeps ==
  ASSUME Inv, NEW s \in prog.stores, NEW object \in ObjectsOf(s), Execute(s, object)
  PROVE  Inv'
<1>1. /\ prog' = prog /\ phase' = phase /\ todo' = todo /\ seen' = seen /\ phase = "done" /\ last' = <<s, object>>
      /\ Direct' = Direct /\ Resolved' = Resolved /\ Allocated' = Allocated
      /\ \A k : Singletons(k)' = Singletons(k)
      /\ \A t : ObjectsOf(t)' = ObjectsOf(t)
  BY DEF Execute, Direct, Resolved, Allocated, Singletons, IsDirect, StoredLock, FormalStores, Alone, StoredIn, ObjectsOf, Unknown
<1>2. \A k : MadeFor(k)' = MadeFor(k) /\ Found(k)' = Found(k)
  BY <1>1 DEF MadeFor, Made, Found
<1> QED BY <1>1, <1>2 DEF Inv, TodoOK, MapOK, LastOK

LEMMA StutterKeeps ==
  ASSUME Inv, UNCHANGED vars
  PROVE  Inv'
<1>1. /\ Direct' = Direct /\ Resolved' = Resolved /\ Allocated' = Allocated
      /\ \A k : Singletons(k)' = Singletons(k)
      /\ \A t : ObjectsOf(t)' = ObjectsOf(t)
  BY DEF vars, Direct, Resolved, Allocated, Singletons, IsDirect, StoredLock, FormalStores, Alone, StoredIn, ObjectsOf, Unknown
<1>2. \A k : MadeFor(k)' = MadeFor(k) /\ Found(k)' = Found(k)
  BY <1>1 DEF MadeFor, Made, Found, vars
<1> QED BY <1>1, <1>2 DEF Inv, TodoOK, MapOK, LastOK, vars

\* What the map holds at every moment follows from the notes made so far: the
\* invariant of the three alias passes (src/dex/mod.rs, lines 176-214).
THEOREM NamingInvariant == Spec => []Inv
<1>1. Init => Inv
  BY InitMap
<1>2. Inv /\ [Next]_vars => Inv'
  <2> SUFFICES ASSUME Inv, [Next]_vars PROVE Inv'
    OBVIOUS
  <2>1. ASSUME NEW a \in todo, NoteAlias(a) PROVE Inv'
    BY <2>1, NoteAliasKeeps
  <2>2. ASSUME NEW T \in todo, NoteSingleton(T) PROVE Inv'
    BY <2>2, NoteSingletonKeeps
  <2>3. CASE NextPass
    BY <2>3, NextPassKeeps
  <2>4. ASSUME NEW s \in prog.stores, NEW object \in ObjectsOf(s), Execute(s, object) PROVE Inv'
    BY <2>4, ExecuteKeeps
  <2>5. CASE UNCHANGED vars
    BY <2>5, StutterKeeps
  <2> QED BY <2>1, <2>2, <2>3, <2>4, <2>5 DEF Next, Naming
<1> QED BY <1>1, <1>2, PTL DEF Spec

-----------------------------------------------------------------------------
\* No note and no class names a lock of one method only.
LEMMA NotesAreGlobal ==
  ASSUME IsProgram(prog)
  PROVE  /\ \A a \in Direct \cup Resolved : a[1] \in {s.field : s \in prog.stores} /\ ~ IsParametric(a[2])
         /\ \A k : \A T \in Singletons(k) : k \in {s.field : s \in prog.stores}
<1>1. \A a \in Direct : a[1] \in {s.field : s \in prog.stores} /\ ~ IsParametric(a[2])
  BY DEF Direct, IsDirect, Grounded, IsParametric
<1>2. \A a \in Resolved : a[1] \in {s.field : s \in prog.stores} /\ ~ IsParametric(a[2])
  BY DEF Resolved, IsProgram, IsStore
<1>3. \A k : \A T \in Singletons(k) : k \in {s.field : s \in prog.stores}
  BY DEF Singletons, StoredIn
<1> QED BY <1>1, <1>2, <1>3

\* Every variable keeps its type; the target of an alias is never a lock that
\* means something inside one method only.
THEOREM TypeCorrect == Spec => []TypeOK
<1>1. Inv => TypeOK
  <2> SUFFICES ASSUME Inv PROVE TypeOK
    OBVIOUS
  <2>1. \A k : \A l \in MadeFor(k) : k \in {s.field : s \in prog.stores} /\ ~ IsParametric(l)
    BY NotesAreGlobal DEF Inv, TodoOK, MadeFor, Made
  <2>2. \A k : \A T \in Found(k) : k \in {s.field : s \in prog.stores}
    BY NotesAreGlobal DEF Inv, TodoOK, Found
  <2>3. \A T : ~ IsParametric(NewLock(<<"Recv", T>>))
    BY DEF IsParametric, NewLock, Lock, Kind
  <2>4. DOMAIN seen \subseteq {s.field : s \in prog.stores}
    BY <2>1, <2>2 DEF Inv, MapOK
  <2>5. ASSUME NEW k \in Aliased PROVE seen[k] = <<Target(k)>> /\ ~ IsParametric(Target(k))
    <3>1. k \in DOMAIN seen /\ seen[k] # <<>>
      BY DEF Aliased
    <3>2. CASE MadeFor(k) # {}
      <4>1. PICK l \in MadeFor(k) : TRUE
        BY <3>2
      <4>2. seen[k] = <<l>>
        BY <3>1, <4>1 DEF Inv, MapOK
      <4> QED BY <4>1, <4>2, <2>1 DEF Target
    <3>3. CASE MadeFor(k) = {}
      <4>1. PICK T \in Found(k) : seen[k] = <<NewLock(<<"Recv", T>>)>>
        BY <3>1, <3>3 DEF Inv, MapOK
      <4> QED BY <4>1, <2>3 DEF Target
    <3> QED BY <3>2, <3>3
  <2> QED BY <2>4, <2>5 DEF TypeOK, Inv, TodoOK
<1> QED BY <1>1, NamingInvariant, PTL

\* When the passes are over, all notes are made and all classes found.
LEMMA AllMade ==
  ASSUME phase = "done"
  PROVE  \A k : MadeFor(k) = NotesOf(k) /\ Found(k) = Singletons(k)
BY DEF MadeFor, Made, NotesOf, Found

\* Whatever the order of the hash maps, the finished map takes a field for a lock
\* that is noted of it and for no other, leaves it distinct where notes differ,
\* and takes it for the one candidate it has where no other store is made to it.
\* Of several self-locking classes alone in one field any may be taken.
THEOREM MapFollowsNotes == Spec => []AliasMatchesNotes
<1>1. Inv => AliasMatchesNotes
  <2> SUFFICES ASSUME Inv, phase = "done", NEW k
               PROVE  /\ k \in Aliased => Target(k) \in Candidates(k)
                      /\ \A l, j \in NotesOf(k) : l # j => k \notin Aliased
                      /\ \A l \in Candidates(k) :
                           Candidates(k) = {l} /\ AllStoresNoted(k) => k \in Aliased /\ Target(k) = l
    BY DEF AliasMatchesNotes
  <2>1. MadeFor(k) = NotesOf(k) /\ Found(k) = Singletons(k)
    BY AllMade
  <2>2. ASSUME NEW l, seen[k] = <<l>>, k \in DOMAIN seen PROVE k \in Aliased /\ Target(k) = l
    BY <2>2 DEF Aliased, Target
  <2>3. ASSUME NEW l \in NotesOf(k)
        PROVE  k \in DOMAIN seen /\ seen[k] = IF NotesOf(k) = {l} THEN <<l>> ELSE <<>>
    <3>1. l \in MadeFor(k)
      BY <2>1, <2>3
    <3> QED BY <2>1, <3>1 DEF Inv, MapOK
  <2>4. CASE NotesOf(k) # {}
    <3>1. PICK l \in NotesOf(k) : TRUE
      BY <2>4
    <3>2. Candidates(k) = NotesOf(k)
      BY <2>4 DEF Candidates
    <3>3. CASE NotesOf(k) = {l}
      <4>1. k \in Aliased /\ Target(k) = l
        BY <2>2, <2>3, <3>3
      <4> QED BY <3>2, <3>3, <4>1
    <3>4. CASE NotesOf(k) # {l}
      <4>1. k \notin Aliased
        BY <2>3, <3>1, <3>4 DEF Aliased
      <4> QED BY <3>1, <3>2, <3>4, <4>1
    <3> QED BY <3>3, <3>4
  <2>5. CASE NotesOf(k) = {}
    <3>1. Candidates(k) = {NewLock(<<"Recv", T>>) : T \in Singletons(k)}
      BY <2>5 DEF Candidates
    <3>2. MadeFor(k) = {} /\ Found(k) = Singletons(k)
      BY <2>1, <2>5
    <3>3. CASE Singletons(k) = {}
      <4>1. k \notin Aliased
        BY <3>2, <3>3 DEF Inv, MapOK, Aliased
      <4> QED BY <2>5, <3>1, <3>3, <4>1
    <3>4. CASE Singletons(k) # {}
      <4>1. k \in DOMAIN seen /\ \E T \in Found(k) : seen[k] = <<NewLock(<<"Recv", T>>)>>
        BY <3>2, <3>4 DEF Inv, MapOK
      <4>2. k \in Aliased /\ Target(k) \in Candidates(k)
        BY <2>2, <3>1, <3>2, <4>1
      <4> QED BY <2>5, <4>2
    <3> QED BY <3>3, <3>4
  <2> QED BY <2>4, <2>5
<1> QED BY <1>1, NamingInvariant, PTL

\* A field whose every store is noted is taken for what each of them stores.
LEMMA NotedTarget ==
  ASSUME TodoOK, MapOK, phase = "done", NEW s \in prog.stores, NEW k, k = s.field, k \in Aliased, AllStoresNoted(k)
  PROVE  \/ s.value[1] = "lock" /\ Target(k) = StoredLock(s)
         \/ s.value[1] = "formal" /\ s.value[2] = {Target(k)}
         \/ s.value[1] = "fresh" /\ Target(k) = NewLock(<<"Recv", s.value[2]>>)
<1>1. MadeFor(k) = NotesOf(k) /\ Found(k) = Singletons(k)
  BY AllMade
<1>2. ASSUME NEW o, <<k, o>> \in Direct \cup Resolved PROVE Target(k) = o
  <2>1. o \in MadeFor(k)
    BY <1>1, <1>2 DEF NotesOf
  <2>2. seen[k] = <<o>>
    BY <2>1 DEF MapOK, Aliased
  <2> QED BY <2>2 DEF Target
<1>3. CASE IsDirect(s)
  <2>1. <<k, StoredLock(s)>> \in Direct
    BY <1>3 DEF Direct
  <2> QED BY <1>2, <1>3, <2>1 DEF IsDirect
<1>4. CASE s \in FormalStores(s.field) /\ s.value[2] # {} /\ {s.field} \X s.value[2] \subseteq Resolved
  <2>1. \A o \in s.value[2] : Target(k) = o
    BY <1>2, <1>4
  <2>2. s.value[2] = {Target(k)}
    BY <1>4, <2>1
  <2> QED BY <1>4, <2>2 DEF FormalStores
<1>5. ASSUME NEW T \in Allocated, \A t \in prog.stores : t.field = k => t.value = <<"fresh", T>>
      PROVE  s.value[1] = "fresh" /\ Target(k) = NewLock(<<"Recv", s.value[2]>>)
  <2>1. s.value = <<"fresh", T>>
    BY <1>5
  <2>2. NotesOf(k) = {}
    <3>1. \A a \in Direct : a[1] # k
      BY <1>5 DEF Direct, IsDirect
    <3>2. \A a \in Resolved : a[1] # k
      BY <1>5 DEF Resolved, FormalStores
    <3> QED BY <3>1, <3>2 DEF NotesOf
  <2>3. PICK U \in Singletons(k) : seen[k] = <<NewLock(<<"Recv", U>>)>>
    <3>1. MadeFor(k) = {} /\ k \in DOMAIN seen
      BY <1>1, <2>2 DEF Aliased
    <3>2. Found(k) # {}
      BY <3>1 DEF MapOK
    <3>3. \E U \in Found(k) : seen[k] = <<NewLock(<<"Recv", U>>)>>
      BY <3>1, <3>2 DEF MapOK
    <3> QED BY <1>1, <3>3
  <2>4. U = T
    <3>1. k \in StoredIn(U)
      BY <2>3 DEF Singletons
    <3>2. PICK t \in prog.stores : t.value = <<"fresh", U>> /\ t.field = k
      BY <3>1 DEF StoredIn
    <3> QED BY <1>5, <3>2
  <2> QED BY <2>1, <2>3, <2>4 DEF Target
<1> QED BY <1>3, <1>4, <1>5 DEF AllStoresNoted, Noted

\* "A field assigned different objects at different sites is left distinct
\* (sound)" (line 175), for the fields whose every store is noted: the object
\* that the last store put in such a field is the lock the field is taken for.
THEOREM NotedFieldsSound == Spec => []NotedFieldHoldsItsTarget
<1>1. Inv => NotedFieldHoldsItsTarget
  <2> SUFFICES ASSUME Inv, last # <<>>, AllStoresNoted(last[1].field), last[1].field \in Aliased
               PROVE  Is(last[2], Target(last[1].field))
    BY DEF NotedFieldHoldsItsTarget, HoldsItsTarget
  <2>1. TodoOK /\ MapOK /\ phase = "done"
    BY DEF Inv, LastOK
  <2>2. PICK s \in prog.stores : \E object \in ObjectsOf(s) : last = <<s, object>>
    BY DEF Inv, LastOK
  <2>3. PICK object \in ObjectsOf(s) : last = <<s, object>>
    BY <2>2
  <2> DEFINE k == s.field
  <2>4. last[1] = s /\ last[2] = object /\ k = s.field /\ k \in Aliased /\ AllStoresNoted(k)
    BY <2>3
  <2> HIDE DEF k
  <2>5. \/ s.value[1] = "lock" /\ Target(k) = StoredLock(s)
        \/ s.value[1] = "formal" /\ s.value[2] = {Target(k)}
        \/ s.value[1] = "fresh" /\ Target(k) = NewLock(<<"Recv", s.value[2]>>)
    BY <2>1, <2>4, NotedTarget
  <2>6. Is(object, Target(k))
    BY <2>5 DEF ObjectsOf, Is
  <2> QED BY <2>4, <2>6
<1> QED BY <1>1, NamingInvariant, PTL
-----------------------------------------------------------------------------
(***************************************************************************)
(* Chains of aliases.  A field and the lock it is taken for are one step   *)
(* apart on one chain, so they end where the chain does.                   *)
(***************************************************************************)
FiniteMap == IsFiniteSet(DOMAIN seen)

TargetsAreLocks == \A k \in Aliased : IsLock(Target(k)) /\ k = <<k[1], k[2]>>

\* The map grows by one field at a time, so it is finite, whatever the program is.
LEMMA MapIsFinite == Spec => []FiniteMap
<1>1. Init => FiniteMap
  <2>1. ASSUME Init PROVE DOMAIN seen = {}
    BY <2>1 DEF Init
  <2> QED
    BY <2>1, FS_EmptySet DEF FiniteMap
<1>2. ASSUME FiniteMap, [Next]_vars PROVE FiniteMap'
  <2>1. ASSUME NEW key, NEW l, seen' = Note(key, l) PROVE FiniteMap'
    <3>1. DOMAIN seen' = DOMAIN seen \cup {key}
      BY <2>1 DEF Note
    <3> QED
      BY <1>2, <3>1, FS_AddElement DEF FiniteMap
  <2>2. CASE seen' = seen
    BY <1>2, <2>2 DEF FiniteMap
  <2>3. ASSUME NEW a \in todo, NoteAlias(a) PROVE FiniteMap'
    BY <2>1, <2>3 DEF NoteAlias
  <2>4. ASSUME NEW T \in todo, NoteSingleton(T) PROVE FiniteMap'
    BY <2>1, <2>2, <2>4 DEF NoteSingleton
  <2> QED
    BY <1>2, <2>2, <2>3, <2>4 DEF Next, Naming, NextPass, Execute, vars
<1> QED
  BY <1>1, <1>2, PTL DEF Spec

LEMMA TargetsTyped ==
  ASSUME TodoOK, MapOK
  PROVE  TargetsAreLocks
<1>1. \A l : \A class, method : IsLock(l) /\ Kind(Ground(l, class, method)) \in Grounded => IsLock(Ground(l, class, method))
  <2>1. SUFFICES ASSUME NEW l, NEW class, NEW method, IsLock(l), Kind(Ground(l, class, method)) \in Grounded
                 PROVE  IsLock(Ground(l, class, method))
    OBVIOUS
  <2>2. CASE Kind(l) = "This"
    <3>1. Ground(l, class, method) = Lock(<<"Recv", class>>, l.fields, l.mode)
      BY <2>1, <2>2 DEF Ground, IsLock, Lock
    <3> QED
      BY <3>1 DEF IsLock, Lock, RootKinds
  <2>3. CASE Kind(l) = "Param"
    BY <2>1, <2>3 DEF Ground, Kind, NewLock, Lock, Grounded
  <2>4. CASE Kind(l) \notin {"This", "Param"}
    BY <2>1, <2>4 DEF Ground
  <2> QED
    BY <2>2, <2>3, <2>4
<1>2. \A a \in Direct : IsLock(a[2])
  <2>1. ASSUME NEW s \in prog.stores, IsDirect(s) PROVE IsLock(StoredLock(s))
    <3>1. IsLock(s.value[2])
      BY <2>1 DEF IsDirect, TodoOK, IsProgram, IsStore
    <3>2. Kind(StoredLock(s)) \in Grounded
      BY <2>1 DEF IsDirect
    <3> QED
      BY <1>1, <3>1, <3>2 DEF StoredLock
  <2> QED
    BY <2>1 DEF Direct
<1>3. \A a \in Resolved : IsLock(a[2])
  BY DEF Resolved, TodoOK, IsProgram, IsStore
<1>4. \A k : \A l \in MadeFor(k) : IsLock(l)
  BY <1>2, <1>3 DEF MadeFor, Made
<1>5. \A T : IsLock(NewLock(<<"Recv", T>>))
  BY DEF IsLock, NewLock, Lock, RootKinds
<1>6. ASSUME NEW k \in Aliased PROVE IsLock(Target(k))
  <2>1. k \in DOMAIN seen /\ seen[k] # <<>>
    BY DEF Aliased
  <2>2. CASE MadeFor(k) # {}
    <3>1. PICK l \in MadeFor(k) : seen[k] = <<l>>
      BY <2>1, <2>2 DEF MapOK
    <3> QED
      BY <1>4, <3>1 DEF Target
  <2>3. CASE MadeFor(k) = {}
    <3>1. PICK T \in Found(k) : seen[k] = <<NewLock(<<"Recv", T>>)>>
      BY <2>1, <2>3 DEF MapOK
    <3> QED
      BY <1>5, <3>1 DEF Target
  <2> QED
    BY <2>2, <2>3
<1>7. ASSUME NEW k \in Aliased PROVE k = <<k[1], k[2]>>
  <2>1. k \in DOMAIN seen
    BY DEF Aliased
  <2>2. MadeFor(k) # {} \/ Found(k) # {}
    BY <2>1 DEF MapOK
  <2>3. k \in {s.field : s \in prog.stores}
    BY <2>2, NotesAreGlobal DEF TodoOK, MadeFor, Made, Found
  <2> QED
    BY <2>3 DEF TodoOK, IsProgram, IsStore
<1> QED
  BY <1>6, <1>7 DEF TargetsAreLocks

\* What l may lead to.
Locks(l) == {l} \cup {WithMode(Target(k), l.mode) : k \in Aliased}

LEMMA FollowStays ==
  ASSUME TargetsAreLocks, NEW l, NEW x \in Locks(l)
  PROVE  Follow(x) \in Locks(l)
<1>1. x.mode = l.mode
  BY DEF Locks, TargetsAreLocks, WithMode, IsLock, Lock
<1> QED
  BY <1>1 DEF Follow, Follows, Locks

IsChase(f, l, n) ==
  /\ f \in [0 .. n -> Locks(l)]
  /\ f[0] = l
  /\ \A j \in 1 .. n : f[j] = Follow(f[j - 1])

LEMMA ChasedIsChase ==
  ASSUME TargetsAreLocks, NEW l, NEW n \in Nat
  PROVE  \E f : IsChase(f, l, n) /\ Chased(l, n) = f[n]
<1> DEFINE Fits(g) == g = [j \in 0 .. n |-> IF j = 0 THEN l ELSE Follow(g[j - 1])]
           f == CHOOSE g : Fits(g)
           S == Locks(l)
<1>1. l \in S
  BY DEF Locks
<1>2. \A x \in S : Follow(x) \in S
  BY FollowStays
<1> HIDE DEF S
<1>3. PICK h : IsChase(h, l, n)
  <2> DEFINE step == [j \in 1 .. n |-> [x \in S |-> Follow(x)]]
  <2>1. Steps(step, S, 0, n)
    BY <1>2 DEF Steps
  <2>2. ASSUME NEW g \in [0 .. n -> S], NEW j \in 1 .. n PROVE step[j][g[j - 1]] = Follow(g[j - 1])
    <3>1. g[j - 1] \in S
      OBVIOUS
    <3> QED
      BY <3>1
  <2> HIDE DEF step
  <2>3. PICK g : Trace(g, step, S, 0, n, l)
    <3>1. 0 \in Nat /\ 0 <= n
      OBVIOUS
    <3> QED
      BY <1>1, <2>1, <3>1, IterationExists
  <2>4. g \in [0 .. n -> S] /\ g[0] = l /\ \A j \in 1 .. n : g[j] = step[j][g[j - 1]]
    BY <2>3 DEF Trace
  <2>5. IsChase(g, l, n)
    BY <2>2, <2>4 DEF IsChase, S
  <2> QED
    BY <2>5
<1>4. Fits(f)
  <2>1. h = [j \in 0 .. n |-> h[j]]
    BY <1>3 DEF IsChase
  <2>2. \A j \in 0 .. n : h[j] = IF j = 0 THEN l ELSE Follow(h[j - 1])
    BY <1>3 DEF IsChase
  <2>3. Fits(h)
    BY <2>1, <2>2
  <2> HIDE DEF Fits
  <2> QED
    BY <2>3
<1>5. Chased(l, n) = f[n]
  BY DEF Chased
<1> HIDE DEF f
<1>6. f[0] = l
  BY <1>4
<1>7. ASSUME NEW j \in 1 .. n PROVE f[j] = Follow(f[j - 1])
  <2>1. j \in 0 .. n /\ j # 0
    OBVIOUS
  <2> QED
    BY <1>4, <2>1
<1>8. f = [j \in 0 .. n |-> f[j]]
  BY <1>4
<1> HIDE DEF Fits
<1>9. \A j \in 0 .. n : f[j] \in S
  <2> DEFINE Good == {j \in 0 .. n : f[j] \in S}
  <2>1. 0 \in Good
    BY <1>1, <1>6
  <2>2. ASSUME NEW j \in Good, j \in 0 .. n - 1 PROVE j + 1 \in Good
    <3>1. j + 1 \in 1 .. n /\ (j + 1) - 1 = j /\ f[j] \in S
      BY <2>2
    <3>2. f[j + 1] \in S
      BY <1>2, <1>7, <3>1
    <3> QED
      BY <3>1, <3>2
  <2> HIDE DEF Good
  <2>3. 0 .. n \subseteq Good
    BY <2>1, <2>2, IntervalInduction
  <2> QED
    BY <2>3 DEF Good
<1>10. IsChase(f, l, n)
  BY <1>6, <1>7, <1>8, <1>9 DEF IsChase, S
<1> QED
  BY <1>5, <1>10

\* Two chases of one lock go the same way, as far as both go.
LEMMA ChasesAgree ==
  ASSUME NEW l, NEW n \in Nat, NEW f, NEW g, IsChase(f, l, n), IsChase(g, l, n + 1)
  PROVE  f[n] = g[n]
<1> DEFINE Good == {j \in 0 .. n : f[j] = g[j]}
<1>1. 0 \in Good
  BY DEF IsChase
<1>2. ASSUME NEW j \in Good, j \in 0 .. n - 1 PROVE j + 1 \in Good
  <2>1. j + 1 \in 1 .. n /\ j + 1 \in 1 .. n + 1 /\ (j + 1) - 1 = j /\ f[j] = g[j]
    BY <1>2
  <2>2. f[j + 1] = Follow(f[j]) /\ g[j + 1] = Follow(g[j])
    BY <2>1 DEF IsChase
  <2> QED
    BY <2>1, <2>2
<1> HIDE DEF Good
<1>3. 0 .. n \subseteq Good
  BY <1>1, <1>2, IntervalInduction
<1>4. n \in Good
  BY <1>3
<1> QED
  BY <1>4 DEF Good

LEMMA ChasedSteps ==
  ASSUME TargetsAreLocks, NEW l
  PROVE  /\ Chased(l, 0) = l
         /\ \A n \in Nat : Chased(l, n + 1) = Follow(Chased(l, n))
<1>1. Chased(l, 0) = l
  BY ChasedIsChase DEF IsChase
<1>2. ASSUME NEW n \in Nat PROVE Chased(l, n + 1) = Follow(Chased(l, n))
  <2>1. PICK f : IsChase(f, l, n) /\ Chased(l, n) = f[n]
    BY ChasedIsChase
  <2>2. PICK g : IsChase(g, l, n + 1) /\ Chased(l, n + 1) = g[n + 1]
    <3>1. n + 1 \in Nat
      OBVIOUS
    <3> QED
      BY <3>1, ChasedIsChase
  <2>3. f[n] = g[n]
    BY <2>1, <2>2, ChasesAgree
  <2>4. n + 1 \in 1 .. n + 1 /\ (n + 1) - 1 = n
    OBVIOUS
  <2>5. g[n + 1] = Follow(g[n])
    BY <2>2, <2>4 DEF IsChase
  <2> QED
    BY <2>1, <2>2, <2>3, <2>5
<1> QED
  BY <1>1, <1>2

\* Where a chain ends it stays.
LEMMA ChasedEnds ==
  ASSUME TargetsAreLocks, NEW l, NEW a \in Nat, NEW b \in Nat, a <= b, ~ Follows(Chased(l, a))
  PROVE  Chased(l, b) = Chased(l, a)
<1> DEFINE Good == {n \in a .. b : Chased(l, n) = Chased(l, a)}
<1>1. a \in Good
  OBVIOUS
<1>2. ASSUME NEW n \in Good, n \in a .. b - 1 PROVE n + 1 \in Good
  <2>1. n \in Nat /\ n + 1 \in a .. b /\ Chased(l, n) = Chased(l, a)
    BY <1>2
  <2>2. Chased(l, n + 1) = Follow(Chased(l, n))
    BY <2>1, ChasedSteps
  <2> QED
    BY <2>1, <2>2 DEF Follow
<1> HIDE DEF Good
<1>3. a .. b \subseteq Good
  BY <1>1, <1>2, IntervalInduction
<1>4. b \in Good
  BY <1>3
<1> QED
  BY <1>4 DEF Good

\* The lock one alias on is chased as l is, one alias behind.
LEMMA ChasedOn ==
  ASSUME TargetsAreLocks, NEW l, NEW n \in Nat
  PROVE  Chased(Follow(l), n) = Chased(l, n + 1)
<1> DEFINE Good == {j \in 0 .. n : Chased(Follow(l), j) = Chased(l, j + 1)}
<1>1. 0 \in Good
  <2>1. Chased(l, 0 + 1) = Follow(Chased(l, 0)) /\ Chased(l, 0) = l /\ Chased(Follow(l), 0) = Follow(l)
    BY ChasedSteps
  <2> QED
    BY <2>1
<1>2. ASSUME NEW j \in Good, j \in 0 .. n - 1 PROVE j + 1 \in Good
  <2>1. j \in Nat /\ j + 1 \in Nat /\ j + 1 \in 0 .. n /\ Chased(Follow(l), j) = Chased(l, j + 1)
    BY <1>2
  <2>2. Chased(l, (j + 1) + 1) = Follow(Chased(l, j + 1)) /\ Chased(Follow(l), j + 1) = Follow(Chased(Follow(l), j))
    BY <2>1, ChasedSteps
  <2> QED
    BY <2>1, <2>2
<1> HIDE DEF Good
<1>3. 0 .. n \subseteq Good
  BY <1>1, <1>2, IntervalInduction
<1>4. n \in Good
  BY <1>3
<1> QED
  BY <1>4 DEF Good

\* "The alias map is chased transitively" (README.md:74-76; mod.rs, lines 250-268):
\* a field and the lock it is taken for come to one name, which is no alias
\* itself, if their chain ends and there are no more aliases than
\* `canonicalize` follows.
THEOREM AliasesCollapse == Spec => []AliasCollapses
<1>1. Inv /\ FiniteMap => AliasCollapses
  <2>1. SUFFICES ASSUME Inv, FiniteMap, Cardinality(Aliased) <= MaxCanonHops, NEW k \in Aliased, Ends(FieldOf(k))
                 PROVE  /\ ~ Follows(Canonicalize(FieldOf(k)))
                        /\ Canonicalize(FieldOf(k)) = Canonicalize(WithMode(Target(k), "Plain"))
    BY DEF AliasCollapses
  <2>2. TargetsAreLocks
    BY <2>1, TargetsTyped DEF Inv
  <2>3. Cardinality(Aliased) \in Nat /\ MaxCanonHops \in Nat
    <3>1. Aliased \subseteq DOMAIN seen
      BY DEF Aliased
    <3>2. IsFiniteSet(Aliased)
      BY <2>1, <3>1, FS_Subset DEF FiniteMap
    <3> QED
      BY <3>2, FS_CardinalityType, MaxCanonHopsAssumption
  <2> DEFINE l == FieldOf(k)
  <2>4. Follow(l) = WithMode(Target(k), "Plain")
    <3>1. l = Lock(<<"Recv", k[1]>>, <<k[2]>>, "Plain")
      BY DEF FieldOf, FieldLock
    <3>2. Base(l) = <<k[1]>> \o <<k[2]>> \o <<>>
      BY <3>1 DEF Base, Name, WithMode, Lock, RootName, ModeName, Grounded
    <3>3. Base(l) = k
      BY <2>2, <3>2 DEF TargetsAreLocks
    <3>4. Kind(l) \in Grounded /\ l.mode = "Plain"
      BY <3>1 DEF Kind, Grounded, Lock
    <3> QED
      BY <3>3, <3>4 DEF Follow, Follows
  <2> HIDE DEF l
  <2>5. Chased(l, MaxCanonHops) = Chased(l, Cardinality(Aliased)) /\ ~ Follows(Chased(l, MaxCanonHops))
    BY <2>1, <2>2, <2>3, ChasedEnds DEF Ends, l
  <2>6. Chased(Follow(l), MaxCanonHops) = Follow(Chased(l, MaxCanonHops))
    BY <2>2, <2>3, ChasedOn, ChasedSteps, ZenonT(30)
  <2> QED
    BY <2>4, <2>5, <2>6 DEF Canonicalize, Follow, l
<1> QED
  BY <1>1, NamingInvariant, MapIsFinite, PTL

-----------------------------------------------------------------------------
(***************************************************************************)
(* What a lock stands for, in a frame that was given arguments: the values *)
(* that lie at the end of its path, by what was ever put in the fields.    *)
(***************************************************************************)
IsPath(F) == \E S : F \in Seq(S)

\* Value v lies at the end of a way from R along the fields F, through what was ever stored in P.
Hops(P, F, p) ==
  \A n \in 1 .. Len(F) : \E q \in P : q[1] = p[n - 1] /\ q[2][2] = F[n] /\ q[3] = p[n]

Reaches(P, R, F, v) == \E p : p[0] \in R /\ p[Len(F)] = v /\ Hops(P, F, p)

\* The view of value x in a mode.
As(x, mode) == IF mode = "Plain" THEN x ELSE <<x[1], mode>>

\* What lock l starts from in a frame that was given args.
Origins(O, args, l) ==
  CASE Kind(l) = "This"       -> Range(ArgOrNone(args, 0))
    [] Kind(l) = "Param"      -> Range(ArgOrNone(args, l.root[2]))
    [] Kind(l) = "Recv"       -> {v \in O \X Modes : Typed(v, l.root[2])}
    [] Kind(l) = "Static"     -> {Statics(l.root[2])}
    [] Kind(l) = "ClassConst" -> {Of(ClassObject(l.root[2]))}
    [] Kind(l) = "Alloc"      -> {Of(o) : o \in {x \in O : x[3] = l.root[2]}}
    [] OTHER                  -> {}

\* Value v is one that lock l stands for in such a frame.
Means(P, O, args, v, l) ==
  IsOpaque(l) \/ \E x : Reaches(P, Origins(O, args, l), l.fields, x) /\ v = As(x, l.mode)

Plainly(P) == \A q \in P : q[1][2] \in {"Plain", "Static"}

-----------------------------------------------------------------------------
LEMMA OptionRange ==
  /\ Range(<<>>) = {}
  /\ \A v : Range(<<v>>) = {v}
BY DEF Range

LEMMA EmptyPath ==
  ASSUME NEW P, NEW R, NEW v \in R
  PROVE  Reaches(P, R, <<>>, v)
<1> DEFINE p == [n \in {0} |-> v]
<1>1. p[0] = v /\ Len(<<>>) = 0
  OBVIOUS
<1>2. Hops(P, <<>>, p)
  BY DEF Hops
<1> QED
  BY <1>1, <1>2 DEF Reaches

LEMMA OneHop ==
  ASSUME NEW P, NEW R, NEW name, NEW q \in P, q[1] \in R, q[2][2] = name
  PROVE  Reaches(P, R, <<name>>, q[3])
<1> DEFINE p == [n \in 0 .. 1 |-> IF n = 0 THEN q[1] ELSE q[3]]
<1>1. p[0] = q[1] /\ p[1] = q[3] /\ Len(<<name>>) = 1 /\ <<name>>[1] = name
  OBVIOUS
<1> HIDE DEF p
<1>2. Hops(P, <<name>>, p)
  <2>1. \A n \in 1 .. Len(<<name>>) : n = 1
    OBVIOUS
  <2> QED
    BY <1>1, <2>1 DEF Hops
<1> QED
  BY <1>1, <1>2 DEF Reaches

LEMMA ReachesGrows ==
  ASSUME NEW P, NEW Q, NEW R, NEW S, NEW F, NEW v, P \subseteq Q, R \subseteq S, Reaches(P, R, F, v)
  PROVE  Reaches(Q, S, F, v)
BY DEF Reaches, Hops

LEMMA OriginsGrow ==
  ASSUME NEW O, NEW N, NEW args, NEW l, O \subseteq N
  PROVE  Origins(O, args, l) \subseteq Origins(N, args, l)
<1>1. CASE Kind(l) = "Recv"
  BY <1>1 DEF Origins
<1>2. CASE Kind(l) = "Alloc"
  BY <1>2 DEF Origins
<1>3. CASE Kind(l) \notin {"Recv", "Alloc"}
  BY <1>3 DEF Origins
<1> QED
  BY <1>1, <1>2, <1>3

\* What a lock stood for it stands for from then on.
LEMMA MeansGrows ==
  ASSUME NEW P, NEW Q, NEW O, NEW N, NEW args, NEW v, NEW l, P \subseteq Q, O \subseteq N, Means(P, O, args, v, l)
  PROVE  Means(Q, N, args, v, l)
<1>1. CASE IsOpaque(l)
  BY <1>1 DEF Means
<1>2. CASE ~ IsOpaque(l)
  <2>1. PICK x : Reaches(P, Origins(O, args, l), l.fields, x) /\ v = As(x, l.mode)
    BY <1>2 DEF Means
  <2>2. Reaches(Q, Origins(N, args, l), l.fields, x)
    BY <2>1, OriginsGrow, ReachesGrows
  <2> QED
    BY <2>1, <2>2 DEF Means
<1> QED
  BY <1>1, <1>2

\* A lock of a whole object.
LEMMA WholeMeans ==
  ASSUME NEW P, NEW O, NEW args, NEW root, NEW v
  PROVE  Means(P, O, args, v, NewLock(root)) <=> (root[1] = "Opaque" \/ v \in Origins(O, args, NewLock(root)))
<1> DEFINE l == NewLock(root)
           R == Origins(O, args, l)
<1>1. l.fields = <<>> /\ l.mode = "Plain" /\ (IsOpaque(l) <=> root[1] = "Opaque")
  BY DEF NewLock, Lock, IsOpaque, Kind
<1> HIDE DEF l
<1>2. \A x : As(x, "Plain") = x
  BY DEF As
<1>3. ASSUME v \in R PROVE Reaches(P, R, <<>>, v)
  BY <1>3, EmptyPath
<1>4. ASSUME Reaches(P, R, <<>>, v) PROVE v \in R
  <2>1. Len(<<>>) = 0
    OBVIOUS
  <2> QED
    BY <1>4, <2>1 DEF Reaches
<1>5. Means(P, O, args, v, l) <=> (IsOpaque(l) \/ Reaches(P, R, <<>>, v))
  BY <1>1, <1>2 DEF Means
<1> QED
  BY <1>1, <1>3, <1>4, <1>5 DEF l

\* A lock of a field of an object.
LEMMA FieldMeans ==
  ASSUME NEW P, NEW O, NEW args, NEW root, NEW name, NEW q \in P,
         q[1] \in Origins(O, args, NewLock(root)), q[2][2] = name
  PROVE  Means(P, O, args, q[3], FieldLock(root, name))
<1> DEFINE l == FieldLock(root, name)
<1>1. l.fields = <<name>> /\ l.mode = "Plain" /\ l.root = root
  BY DEF FieldLock, Lock
<1>2. Origins(O, args, l) = Origins(O, args, NewLock(root))
  BY <1>1 DEF Origins, NewLock, Lock, Kind
<1>3. Reaches(P, Origins(O, args, l), <<name>>, q[3])
  BY <1>2, OneHop
<1>4. q[3] = As(q[3], "Plain")
  BY DEF As
<1> HIDE DEF l
<1> QED
  BY <1>1, <1>3, <1>4 DEF Means, l

\* The other way round, for a field of a lock's roots.
LEMMA ReachedByField ==
  ASSUME NEW P, NEW R, NEW name, NEW x, Reaches(P, R, <<name>>, x)
  PROVE  \E q \in P : q[1] \in R /\ q[2][2] = name /\ q[3] = x
<1>1. Len(<<name>>) = 1 /\ 1 \in 1 .. 1 /\ <<name>>[1] = name /\ 1 - 1 = 0
  OBVIOUS
<1>2. PICK p : p[0] \in R /\ p[1] = x /\ Hops(P, <<name>>, p)
  BY <1>1 DEF Reaches
<1>3. PICK q \in P : q[1] = p[0] /\ q[2][2] = name /\ q[3] = p[1]
  BY <1>1, <1>2 DEF Hops
<1> QED
  BY <1>2, <1>3

\* Ways can be laid end to end.
LEMMA WaysJoin ==
  ASSUME NEW P, NEW R, NEW F, NEW H, NEW x, NEW z, IsPath(F), IsPath(H),
         Reaches(P, R, F, x), Reaches(P, {x}, H, z)
  PROVE  Reaches(P, R, F \o H, z)
<1>1. PICK S, T : F \in Seq(S) /\ H \in Seq(T)
  BY DEF IsPath
<1>2. F \in Seq(S \cup T) /\ H \in Seq(S \cup T)
  BY <1>1
<1>3. Len(F) \in Nat /\ Len(H) \in Nat /\ Len(F \o H) = Len(F) + Len(H)
      /\ (\A n \in 1 .. Len(F) : (F \o H)[n] = F[n])
      /\ (\A n \in 1 .. Len(H) : (F \o H)[Len(F) + n] = H[n])
  BY <1>2
<1>4. PICK p : p[0] \in R /\ p[Len(F)] = x /\ Hops(P, F, p)
  BY DEF Reaches
<1>5. PICK g : g[0] = x /\ g[Len(H)] = z /\ Hops(P, H, g)
  BY DEF Reaches
<1> DEFINE w == [n \in 0 .. Len(F) + Len(H) |-> IF n <= Len(F) THEN p[n] ELSE g[n - Len(F)]]
<1>6. w[0] = p[0]
  BY <1>3
<1>7. w[Len(F) + Len(H)] = z
  BY <1>3, <1>4, <1>5
<1>8. ASSUME NEW n \in 1 .. Len(F) + Len(H)
      PROVE  \E q \in P : q[1] = w[n - 1] /\ q[2][2] = (F \o H)[n] /\ q[3] = w[n]
  <2>1. CASE n <= Len(F)
    <3>1. n \in 1 .. Len(F) /\ w[n] = p[n] /\ w[n - 1] = p[n - 1]
      BY <1>3, <2>1
    <3>2. (F \o H)[n] = F[n]
      BY <1>3, <3>1
    <3> HIDE DEF w
    <3> QED
      BY <1>4, <3>1, <3>2 DEF Hops
  <2>2. CASE n > Len(F)
    <3>1. n - Len(F) \in 1 .. Len(H) /\ w[n] = g[n - Len(F)] /\ Len(F) + (n - Len(F)) = n
          /\ (n - 1) - Len(F) = (n - Len(F)) - 1
      BY <1>3, <2>2
    <3>2. w[n - 1] = g[(n - Len(F)) - 1]
      <4>1. CASE n - 1 <= Len(F)
        <5>1. n - 1 = Len(F) /\ (n - Len(F)) - 1 = 0
          BY <1>3, <2>2, <4>1
        <5>2. w[n - 1] = p[Len(F)]
          BY <1>3, <5>1
        <5> QED
          BY <1>4, <1>5, <5>1, <5>2
      <4>2. CASE n - 1 > Len(F)
        BY <1>3, <3>1, <4>2
      <4> QED
        BY <1>3, <4>1, <4>2
    <3>3. (F \o H)[n] = H[n - Len(F)]
      BY <1>3, <3>1
    <3> HIDE DEF w
    <3> QED
      BY <1>5, <3>1, <3>2, <3>3 DEF Hops
  <2> QED
    BY <1>3, <2>1, <2>2
<1> HIDE DEF w
<1> QED
  BY <1>3, <1>4, <1>6, <1>7, <1>8 DEF Reaches, Hops

LEMMA PathsJoin ==
  ASSUME NEW F, NEW H, IsPath(F), IsPath(H)
  PROVE  IsPath(F \o H)
<1>1. PICK S, T : F \in Seq(S) /\ H \in Seq(T)
  BY DEF IsPath
<1>2. F \in Seq(S \cup T) /\ H \in Seq(S \cup T)
  BY <1>1
<1>3. F \o H \in Seq(S \cup T)
  BY <1>2
<1> QED
  BY <1>3 DEF IsPath
-----------------------------------------------------------------------------
LEMMA AlongSteps ==
  ASSUME NEW R, NEW F, Len(F) \in Nat
  PROVE  \E f : /\ f[0] = R
                /\ \A n \in 1 .. Len(F) : f[n] = Across(f[n - 1], F[n])
                /\ Along(R, F) = f[Len(F)]
<1> DEFINE N == Len(F)
           Fits(g) == g = [n \in 0 .. N |-> IF n = 0 THEN R ELSE Across(g[n - 1], F[n])]
           f == CHOOSE g : Fits(g)
           U == R \cup {q[3] : q \in put}
           S == SUBSET U
           step == [n \in 1 .. N |-> [X \in S |-> Across(X, F[n])]]
<1>1. Along(R, F) = f[N]
  BY DEF Along
<1>2. \A X \in S : \A name : Across(X, name) \in S
  BY DEF Across
<1>3. R \in S
  OBVIOUS
<1> HIDE DEF S
<1>4. Steps(step, S, 0, N)
  BY <1>2 DEF Steps
<1>5. \A n \in 1 .. N, X \in S : step[n][X] = Across(X, F[n])
  OBVIOUS
<1> HIDE DEF step
<1>6. 0 \in Nat /\ N \in Nat /\ 0 <= N
  OBVIOUS
<1> HIDE DEF N
<1>7. PICK h : Trace(h, step, S, 0, N, R)
  BY <1>3, <1>4, <1>6, IterationExists
<1>8. h \in [0 .. N -> S] /\ h[0] = R /\ \A n \in 1 .. N : h[n] = step[n][h[n - 1]]
  BY <1>7 DEF Trace
<1>9. ASSUME NEW n \in 1 .. N PROVE h[n] = Across(h[n - 1], F[n])
  <2>1. n - 1 \in 0 .. N
    BY <1>6
  <2>2. h[n - 1] \in S
    BY <1>8, <2>1
  <2> QED
    BY <1>5, <1>8, <2>2
<1>10. Fits(h)
  BY <1>8, <1>9
<1> HIDE DEF Fits
<1>11. Fits(f)
  BY <1>10
<1> HIDE DEF f
<1>12. f[0] = R /\ \A n \in 1 .. N : f[n] = Across(f[n - 1], F[n])
  BY <1>6, <1>11 DEF Fits
<1> QED
  BY <1>1, <1>12 DEF N

LEMMA AlongReaches ==
  ASSUME NEW R, NEW F, Len(F) \in Nat, NEW v
  PROVE  v \in Along(R, F) <=> Reaches(put, R, F, v)
<1>1. PICK f : /\ f[0] = R
               /\ \A n \in 1 .. Len(F) : f[n] = Across(f[n - 1], F[n])
               /\ Along(R, F) = f[Len(F)]
  BY AlongSteps
<1> DEFINE N == Len(F)
<1>2. 0 \in Nat /\ N \in Nat
  OBVIOUS
<1>3. ASSUME Reaches(put, R, F, v) PROVE v \in Along(R, F)
  <2>1. PICK p : p[0] \in R /\ p[N] = v /\ Hops(put, F, p)
    BY <1>3 DEF Reaches
  <2> DEFINE Good == {n \in 0 .. N : p[n] \in f[n]}
  <2>2. 0 \in Good
    BY <1>1, <1>2, <2>1
  <2>3. ASSUME NEW n \in Good, n \in 0 .. N - 1 PROVE n + 1 \in Good
    <3>1. n + 1 \in 1 .. N /\ (n + 1) - 1 = n /\ n + 1 \in 0 .. N
      BY <1>2, <2>3
    <3>2. PICK q \in put : q[1] = p[n] /\ q[2][2] = F[n + 1] /\ q[3] = p[n + 1]
      BY <2>1, <3>1 DEF Hops
    <3>3. f[n + 1] = Across(f[n], F[n + 1])
      BY <1>1, <3>1
    <3> QED
      BY <3>1, <3>2, <3>3 DEF Across
  <2> HIDE DEF Good
  <2>4. 0 .. N \subseteq Good
    BY <1>2, <2>2, <2>3, IntervalInduction
  <2>5. N \in 0 .. N
    BY <1>2
  <2> QED
    BY <1>1, <2>1, <2>4, <2>5 DEF Good
<1>4. ASSUME v \in Along(R, F) PROVE Reaches(put, R, F, v)
  <2> DEFINE Way(n, x) == \E p : /\ p[0] \in R /\ p[n] = x
                                 /\ \A k \in 1 .. n : \E q \in put : q[1] = p[k - 1] /\ q[2][2] = F[k] /\ q[3] = p[k]
             Good == {n \in 0 .. N : \A x \in f[n] : Way(n, x)}
  <2>1. 0 \in Good
    <3>1. ASSUME NEW x \in f[0] PROVE Way(0, x)
      <4> DEFINE p == [k \in {0} |-> x]
      <4>1. p[0] = x /\ 1 .. 0 = {}
        OBVIOUS
      <4> HIDE DEF p
      <4> QED
        BY <1>1, <3>1, <4>1
    <3> HIDE DEF Way
    <3> QED
      BY <1>2, <3>1
  <2>2. ASSUME NEW n \in Good, n \in 0 .. N - 1 PROVE n + 1 \in Good
    <3>1. n + 1 \in 1 .. N /\ (n + 1) - 1 = n /\ n + 1 \in 0 .. N /\ n \in Nat
      BY <1>2, <2>2
    <3>2. SUFFICES ASSUME NEW x \in f[n + 1] PROVE Way(n + 1, x)
      <4> HIDE DEF Way
      <4> QED
        BY <3>1
    <3>3. f[n + 1] = Across(f[n], F[n + 1])
      BY <1>1, <3>1
    <3>4. PICK q \in put : q[1] \in f[n] /\ q[2][2] = F[n + 1] /\ q[3] = x
      BY <3>2, <3>3 DEF Across
    <3>5. Way(n, q[1])
      <4> HIDE DEF Way
      <4> QED
        BY <2>2, <3>4
    <3>6. PICK p : /\ p[0] \in R /\ p[n] = q[1]
                   /\ \A k \in 1 .. n : \E r \in put : r[1] = p[k - 1] /\ r[2][2] = F[k] /\ r[3] = p[k]
      BY <3>5
    <3> DEFINE w == [k \in 0 .. n + 1 |-> IF k = n + 1 THEN x ELSE p[k]]
    <3>7. w[0] = p[0] /\ w[n + 1] = x /\ w[n] = p[n] /\ \A k \in 1 .. n : w[k] = p[k] /\ w[k - 1] = p[k - 1]
      BY <3>1
    <3> HIDE DEF w
    <3>8. ASSUME NEW k \in 1 .. n + 1
          PROVE  \E r \in put : r[1] = w[k - 1] /\ r[2][2] = F[k] /\ r[3] = w[k]
      <4>1. CASE k = n + 1
        BY <3>1, <3>4, <3>6, <3>7, <4>1
      <4>2. CASE k # n + 1
        <5>1. k \in 1 .. n
          BY <3>1, <4>2
        <5> QED
          BY <3>6, <3>7, <5>1
      <4> QED
        BY <4>1, <4>2
    <3> QED
      BY <3>6, <3>7, <3>8
  <2>3. 0 .. N \subseteq Good
    <3> HIDE DEF Good
    <3> QED
      BY <1>2, <2>1, <2>2, IntervalInduction
  <2>4. N \in Good
    <3> HIDE DEF Good
    <3>1. N \in 0 .. N
      BY <1>2
    <3> QED
      BY <2>3, <3>1
  <2>5. Way(N, v)
    <3> HIDE DEF Way
    <3> QED
      BY <1>1, <1>4, <2>4
  <2> QED
    BY <2>5 DEF Reaches, Hops
<1> QED
  BY <1>3, <1>4

\* To go by a name is to be what it stands for, where it needs no frame to stand for something.
LEMMA GoesByMeans ==
  ASSUME NEW v, NEW l, IsPath(l.fields)
  PROVE  GoesBy(v, l) <=> Means(put, objs, <<>>, v, l)
<1> DEFINE R == Roots(l)
<1>1. Len(l.fields) \in Nat
  BY DEF IsPath
<1>2. \A i : ArgOrNone(<<>>, i) = <<>>
  BY DEF ArgOrNone
<1>3. R = Origins(objs, <<>>, l)
  <2>1. \A i : Range(ArgOrNone(<<>>, i)) = {}
    BY <1>2, OptionRange
  <2>2. CASE Kind(l) \in {"This", "Param"}
    BY <2>1, <2>2 DEF Roots, Origins
  <2>3. CASE Kind(l) = "Recv"
    BY <2>3 DEF Roots, Origins
  <2>4. CASE Kind(l) = "Alloc"
    BY <2>4 DEF Roots, Origins
  <2>5. CASE Kind(l) \notin {"This", "Param", "Recv", "Alloc"}
    BY <2>5 DEF Roots, Origins
  <2> QED
    BY <2>2, <2>3, <2>4, <2>5
<1>4. \A x : x \in Along(R, l.fields) <=> Reaches(put, R, l.fields, x)
  BY <1>1, AlongReaches
<1> HIDE DEF R
<1>5. v \in From(R, l) <=> \E x : Reaches(put, R, l.fields, x) /\ v = As(x, l.mode)
  <2>1. CASE l.mode = "Plain"
    BY <1>4, <2>1 DEF From, As
  <2>2. CASE l.mode # "Plain"
    BY <1>4, <2>2 DEF From, As
  <2> QED
    BY <2>1, <2>2
<1> QED
  BY <1>3, <1>5 DEF GoesBy, Means, R

-----------------------------------------------------------------------------
(***************************************************************************)
(* Locks put together: a path extended, a callee's lock bound in its caller,*)
(* a lock of one method made one of the program.                           *)
(***************************************************************************)
Proper(l) == IsLock(l) /\ l.mode \in Modes /\ IsPath(l.fields)

\* Each argument is a value that the lock passed for it stands for in the frame of the caller.
Passes(P, O, outer, args, actuals) ==
  \A i \in Nat : \A x \in Range(ArgOrNone(args, i)) :
    ArgOrNone(actuals, i) # <<>> =>
      Proper(ArgOrNone(actuals, i)[1]) /\ Means(P, O, outer, x, ArgOrNone(actuals, i)[1])

-----------------------------------------------------------------------------
LEMMA ExtendIsProper ==
  ASSUME NEW l, NEW more, NEW mode \in Modes, Proper(l), IsPath(more)
  PROVE  /\ Proper(Extend(l, more, mode))
         /\ IsOpaque(Extend(l, more, mode)) \/ Extend(l, more, mode) = Lock(l.root, l.fields \o more, ExtendedMode(l.mode, mode))
         /\ IsParametric(Extend(l, more, mode)) => IsParametric(l)
         /\ Kind(Extend(l, more, mode)) \in {Kind(l), "Opaque"}
<1> DEFINE path == Lock(l.root, l.fields \o more, ExtendedMode(l.mode, mode))
<1>1. ExtendedMode(l.mode, mode) \in Modes
  BY DEF ExtendedMode, Proper
<1>2. IsPath(l.fields \o more)
  BY PathsJoin DEF Proper
<1>3. Proper(path) /\ path.root = l.root
  BY <1>1, <1>2 DEF Proper, IsLock, Lock
<1>4. <<>> \in Seq({})
  OBVIOUS
<1>5. Proper(Truncated(path)) /\ IsOpaque(Truncated(path)) /\ ~ IsParametric(Truncated(path))
  <2>1. IsPath(<<>>)
    BY <1>4 DEF IsPath
  <2> HIDE DEF path
  <2> QED
    BY <2>1 DEF Truncated, NewLock, Lock, Proper, IsLock, IsOpaque, IsParametric, Kind, Modes, RootKinds
<1>6. Extend(l, more, mode) = IF Len(path.fields) > MaxAp THEN Truncated(path) ELSE path
  BY DEF Extend
<1> HIDE DEF path
<1>7. CASE Len(path.fields) > MaxAp
  BY <1>5, <1>6, <1>7 DEF Kind, IsOpaque
<1>8. CASE ~ (Len(path.fields) > MaxAp)
  <2>1. Extend(l, more, mode) = path
    BY <1>6, <1>8
  <2> QED
    BY <2>1, <1>3 DEF path, Kind, IsParametric
<1> QED
  BY <1>7, <1>8

LEMMA OriginsOfRoot ==
  ASSUME NEW O, NEW args, NEW l, NEW k, l.root = k.root
  PROVE  Origins(O, args, l) = Origins(O, args, k)
BY DEF Origins, Kind

LEMMA ReachesFrom ==
  ASSUME NEW P, NEW R, NEW F, NEW v, Reaches(P, R, F, v)
  PROVE  \E x \in R : Reaches(P, {x}, F, v)
BY DEF Reaches

\* What lies further along a lock is what the longer lock stands for.
LEMMA ExtendMeans ==
  ASSUME NEW P, NEW O, NEW args, NEW l, NEW more, NEW mode \in Modes, NEW x, NEW y,
         Plainly(P), Proper(l), IsPath(more), Means(P, O, args, x, l), Reaches(P, {x}, more, y)
  PROVE  Means(P, O, args, As(y, mode), Extend(l, more, mode))
<1> DEFINE e == Extend(l, more, mode)
<1>1. IsOpaque(e) \/ e = Lock(l.root, l.fields \o more, ExtendedMode(l.mode, mode))
  BY ExtendIsProper
<1>2. CASE IsOpaque(e)
  BY <1>2 DEF Means
<1>3. CASE ~ IsOpaque(e)
  <2>1. e.root = l.root /\ e.fields = l.fields \o more /\ e.mode = ExtendedMode(l.mode, mode)
    BY <1>1, <1>3 DEF Lock
  <2>2. ~ IsOpaque(l) /\ Origins(O, args, e) = Origins(O, args, l)
    BY <1>3, <2>1, OriginsOfRoot DEF IsOpaque, Kind
  <2>3. PICK z : Reaches(P, Origins(O, args, l), l.fields, z) /\ x = As(z, l.mode)
    BY <2>2 DEF Means
  <2> DEFINE R == Origins(O, args, l)
  <2> HIDE DEF R, e
  <2>4. CASE l.mode = "Plain"
    <3>1. x = z /\ e.mode = mode
      BY <2>1, <2>3, <2>4 DEF As, ExtendedMode
    <3>2. Reaches(P, R, l.fields \o more, y)
      BY <2>3, <3>1, WaysJoin DEF Proper, R
    <3> QED
      BY <2>1, <2>2, <3>1, <3>2 DEF Means, R, e
  <2>5. CASE l.mode # "Plain" /\ Len(more) = 0
    <3>1. y = x
      BY <2>5 DEF Reaches
    <3>2. more = <<>>
      BY <2>5 DEF IsPath
    <3>3. l.fields \o more = l.fields
      BY <3>2 DEF Proper, IsPath
    <3>4. As(y, mode) = As(z, e.mode)
      BY <2>1, <2>3, <2>5, <3>1 DEF As, ExtendedMode
    <3> QED
      BY <2>1, <2>2, <2>3, <3>3, <3>4 DEF Means, R, e
  <2>6. CASE l.mode # "Plain" /\ Len(more) # 0
    <3>1. 1 \in 1 .. Len(more) /\ 1 - 1 = 0
      BY <2>6 DEF IsPath
    <3>2. PICK p : p[0] = x /\ Hops(P, more, p)
      BY DEF Reaches
    <3>3. PICK q \in P : q[1] = x
      BY <3>1, <3>2 DEF Hops
    <3>4. x[2] = l.mode
      BY <2>3, <2>6 DEF As
    <3> QED
      BY <2>6, <3>3, <3>4 DEF Plainly, Proper, Modes
  <2> QED
    BY <2>4, <2>5, <2>6
<1> QED
  BY <1>2, <1>3

\* A lock of the callee, bound in the frame of the caller.
LEMMA SubstMeans ==
  ASSUME NEW P, NEW O, NEW outer, NEW args, NEW actuals, NEW l, NEW v, NEW b,
         Plainly(P), Proper(l), Passes(P, O, outer, args, actuals), Means(P, O, args, v, l), Subst(l, actuals) = <<b>>
  PROVE  Means(P, O, outer, v, b)
<1>1. ASSUME NEW i \in Nat, Subst(l, actuals) = Bound(l, ArgOrNone(actuals, i)), Origins(O, args, l) = Range(ArgOrNone(args, i)),
             ~ IsOpaque(l)
      PROVE  Means(P, O, outer, v, b)
  <2> DEFINE a == ArgOrNone(actuals, i)
  <2>1. a # <<>> /\ b = Extend(a[1], l.fields, l.mode)
    BY <1>1 DEF Bound
  <2>2. PICK y : Reaches(P, Range(ArgOrNone(args, i)), l.fields, y) /\ v = As(y, l.mode)
    BY <1>1 DEF Means
  <2>3. PICK x \in Range(ArgOrNone(args, i)) : Reaches(P, {x}, l.fields, y)
    BY <2>2, ReachesFrom
  <2>4. Proper(a[1]) /\ Means(P, O, outer, x, a[1])
    BY <2>1, <2>3 DEF Passes
  <2> HIDE DEF a
  <2> QED
    BY <2>1, <2>2, <2>3, <2>4, ExtendMeans DEF Proper
<1>2. CASE Kind(l) = "This"
  BY <1>1, <1>2 DEF Subst, Origins, IsOpaque
<1>3. CASE Kind(l) = "Param"
  <2>1. l.root[2] \in Nat
    BY <1>3 DEF Proper, IsLock, Kind
  <2> QED
    BY <1>1, <1>3, <2>1 DEF Subst, Origins, IsOpaque
<1>4. CASE Kind(l) \notin {"This", "Param"}
  <2>1. b = l
    BY <1>4 DEF Subst
  <2>2. Origins(O, outer, l) = Origins(O, args, l)
    BY <1>4 DEF Origins
  <2> QED
    BY <2>1, <2>2 DEF Means
<1> QED
  BY <1>2, <1>3, <1>4

\* A lock that needs no frame stands for the same in all of them.
LEMMA MeansAnywhere ==
  ASSUME NEW P, NEW O, NEW args, NEW outer, NEW l, NEW v, ~ IsParametric(l), Means(P, O, args, v, l)
  PROVE  Means(P, O, outer, v, l)
<1>1. Origins(O, outer, l) = Origins(O, args, l)
  BY DEF Origins, IsParametric
<1> QED
  BY <1>1 DEF Means

LEMMA GroundIsProper ==
  ASSUME NEW l, NEW class, NEW method, Proper(l)
  PROVE  Proper(Ground(l, class, method)) /\ ~ IsParametric(Ground(l, class, method))
<1>1. CASE Kind(l) = "This"
  <2>1. Ground(l, class, method) = Lock(<<"Recv", class>>, l.fields, l.mode)
    BY <1>1 DEF Ground, Proper, IsLock, Lock
  <2> QED
    BY <2>1 DEF Proper, IsLock, Lock, RootKinds, IsParametric, Kind
<1>2. CASE Kind(l) = "Param"
  <2>1. Ground(l, class, method) = NewLock(<<"Opaque", <<"param", method, l.root[2]>>>>)
    BY <1>2 DEF Ground
  <2>2. IsPath(<<>>)
    <3>1. <<>> \in Seq({})
      OBVIOUS
    <3> QED
      BY <3>1 DEF IsPath
  <2> QED
    BY <2>1, <2>2 DEF Proper, IsLock, Lock, NewLock, RootKinds, IsParametric, Kind, Modes
<1>3. CASE Kind(l) \notin {"This", "Param"}
  BY <1>3 DEF Ground, IsParametric
<1> QED
  BY <1>1, <1>2, <1>3

\* What a lock of a method stands for, it stands for in the whole program.
LEMMA GroundMeans ==
  ASSUME NEW P, NEW O, NEW args, NEW l, NEW v, NEW class, NEW method, Proper(l), Means(P, O, args, v, l),
         Kind(l) = "This" => \A x \in Range(ArgOrNone(args, 0)) : x \in O \X Modes /\ Typed(x, class)
  PROVE  Means(P, O, <<>>, v, Ground(l, class, method))
<1> DEFINE g == Ground(l, class, method)
<1>1. CASE Kind(l) = "This"
  <2>1. g = Lock(<<"Recv", class>>, l.fields, l.mode)
    BY <1>1 DEF Ground, Proper, IsLock, Lock
  <2>2. g.root = <<"Recv", class>> /\ g.fields = l.fields /\ g.mode = l.mode
    BY <2>1 DEF Lock
  <2>3. Origins(O, <<>>, g) = {x \in O \X Modes : Typed(x, class)}
    BY <2>2 DEF Origins, Kind
  <2>4. Origins(O, args, l) \subseteq Origins(O, <<>>, g)
    BY <1>1, <2>3 DEF Origins
  <2>5. PICK x : Reaches(P, Origins(O, args, l), l.fields, x) /\ v = As(x, l.mode)
    BY <1>1 DEF Means, IsOpaque
  <2>6. Reaches(P, Origins(O, <<>>, g), g.fields, x)
    BY <2>2, <2>4, <2>5, ReachesGrows
  <2> QED
    BY <2>2, <2>5, <2>6 DEF Means
<1>2. CASE Kind(l) = "Param"
  <2>1. IsOpaque(g)
    BY <1>2 DEF Ground, IsOpaque, NewLock, Lock, Kind
  <2> QED
    BY <2>1 DEF Means
<1>3. CASE Kind(l) \notin {"This", "Param"}
  <2>1. g = l
    BY <1>3 DEF Ground
  <2> HIDE DEF g
  <2> QED
    BY <1>3, <2>1, MeansAnywhere DEF IsParametric, g
<1> QED
  BY <1>1, <1>2, <1>3

-----------------------------------------------------------------------------
(***************************************************************************)
(* What one instruction makes of the state of the register pass.           *)
(***************************************************************************)
IsPass(s) ==
  s = [regs |-> s.regs, ret |-> s.ret, allocated |-> s.allocated, sites |-> s.sites, stores |-> s.stores,
       calls |-> s.calls, returns |-> s.returns, became |-> s.became]

\* What the pass notes of instruction i, which it meets in state s.
StoreOf(s, at, i) == [at |-> at, field |-> i[4], base |-> Known(s, i[3]), source |-> Known(s, i[2])]

Renames(s, i) == HasRoot(Known(s, i[3]), {"This"}) /\ HasRoot(Known(s, i[2]), {"Alloc"})

LockOf(m, s, at, r) == IF Known(s, r) = <<>> THEN Lost(m, at) ELSE s.regs[r]

IsSite(i) == i[1] = "Enter" \/ (i[1] = "Invoke" /\ i[2] \in Acquires)

Locked(i) == IF i[1] = "Enter" THEN i[2] ELSE i[3][1]

CallOf(m, s, i) ==
  [caller |-> m.key, callee |-> i[2], actuals |-> [k \in DOMAIN i[3] |-> Known(s, i[3][k])]]

Result(s, i) == IF Len(i) = 1 THEN <<>> ELSE Known(s, i[2])

\* The option that instruction i leaves in the register it defines.
Left(m, s, at, i) ==
  CASE i[1] = "Sget"        -> <<FieldLock(<<"Static", i[3][1]>>, i[3][2])>>
    [] i[1] = "Iget"        -> <<FieldLock(<<"Recv", i[4][1]>>, i[4][2])>>
    [] i[1] = "Iput"        -> <<FieldLock(<<"This", "this">>, i[4][2])>>
    [] i[1] = "ConstClass"  -> <<NewLock(<<"ClassConst", i[3]>>)>>
    [] i[1] = "NewInstance" -> <<NewLock(<<"Alloc", <<m.key, at>>>>)>>
    [] i[1] = "Move"        -> Known(s, i[3])
    [] i[1] = "MoveResult"  -> s.ret
    [] OTHER                -> <<>>

IsOption(o) == o = <<>> \/ o = <<o[1]>>

-----------------------------------------------------------------------------
LEMMA BindIs ==
  ASSUME NEW f, NEW x, NEW v
  PROVE  /\ DOMAIN Bind(f, x, v) = DOMAIN f \cup {x}
         /\ Bind(f, x, v)[x] = v
         /\ \A y \in DOMAIN f : y # x => Bind(f, x, v)[y] = f[y]
BY DEF Bind

LEMMA KnownIsOption ==
  ASSUME NEW s, NEW r
  PROVE  IsOption(Known(s, r))
BY DEF IsOption, Known

LEMMA DefineIs ==
  ASSUME NEW s, IsPass(s), NEW dst, NEW o, IsOption(o)
  PROVE  /\ IsPass(Define(s, dst, o))
         /\ Define(s, dst, o) = [s EXCEPT !.regs = Define(s, dst, o).regs]
         /\ \A r : Known(Define(s, dst, o), r) = IF r = dst THEN o ELSE Known(s, r)
<1> DEFINE t == Define(s, dst, o)
<1>1. t.regs = IF o = <<>> THEN Restrict(s.regs, DOMAIN s.regs \ {dst}) ELSE Bind(s.regs, dst, o[1])
  BY DEF Define, IsPass
<1>2. t = [s EXCEPT !.regs = t.regs]
  BY <1>1 DEF Define, IsPass
<1>3. IsPass(t)
  BY <1>2 DEF IsPass
<1> HIDE DEF t
<1>4. ASSUME NEW r PROVE Known(t, r) = IF r = dst THEN o ELSE Known(s, r)
  <2>1. CASE o = <<>>
    <3>1. t.regs = Restrict(s.regs, DOMAIN s.regs \ {dst})
      BY <1>1, <2>1
    <3>2. DOMAIN t.regs = DOMAIN s.regs \ {dst} /\ \A x \in DOMAIN s.regs \ {dst} : t.regs[x] = s.regs[x]
      BY <3>1 DEF Restrict
    <3> QED
      BY <2>1, <3>2 DEF Known
  <2>2. CASE o # <<>>
    <3>1. t.regs = Bind(s.regs, dst, o[1]) /\ o = <<o[1]>>
      BY <1>1, <2>2 DEF IsOption
    <3>2. /\ DOMAIN t.regs = DOMAIN s.regs \cup {dst} /\ t.regs[dst] = o[1]
          /\ \A y \in DOMAIN s.regs : y # dst => t.regs[y] = s.regs[y]
      BY <3>1 DEF Bind
    <3>3. CASE r = dst
      BY <3>1, <3>2, <3>3 DEF Known
    <3>4. CASE r # dst
      BY <3>2, <3>4 DEF Known
    <3> QED
      BY <3>3, <3>4
  <2> QED
    BY <2>1, <2>2
<1> QED
  BY <1>2, <1>3, <1>4 DEF t

\* The other parts of the pass do not move when a register is defined.
LEMMA DefineKeeps ==
  ASSUME NEW s, IsPass(s), NEW dst, NEW o, IsOption(o)
  PROVE  LET t == Define(s, dst, o)
         IN  /\ t.ret = s.ret /\ t.allocated = s.allocated /\ t.sites = s.sites /\ t.stores = s.stores
             /\ t.calls = s.calls /\ t.returns = s.returns /\ t.became = s.became
BY DefineIs DEF IsPass

\* What one instruction adds to what the pass has noted.
RetAfter(m, g, s, at) ==
  LET i == m.insns[at]
  IN  CASE i[1] = "MoveResult" -> <<>> [] i[1] = "Invoke" -> Returned(g, s, i[2], i[3]) [] OTHER -> s.ret

AllocatedAfter(m, s, at) ==
  IF m.insns[at][1] = "NewInstance" THEN Bind(s.allocated, <<"Alloc", <<m.key, at>>>>, m.insns[at][3]) ELSE s.allocated

SitesAt(m, s, at) ==
  IF IsSite(m.insns[at]) THEN {[at |-> at, lock |-> LockOf(m, s, at, Locked(m.insns[at]))]} ELSE {}

StoresAt(m, s, at) == IF m.insns[at][1] = "Iput" THEN {StoreOf(s, at, m.insns[at])} ELSE {}

CallsAt(m, s, at) == IF m.insns[at][1] = "Invoke" THEN {CallOf(m, s, m.insns[at])} ELSE {}

ReturnsAt(m, s, at) == IF m.insns[at][1] = "Return" THEN {Result(s, m.insns[at])} ELSE {}

Renamed(m, s, at) == m.insns[at][1] = "Iput" /\ Renames(s, m.insns[at])

BecameAt(m, s, at) == IF Renamed(m, s, at) THEN {at} ELSE {}

\* The registers it changes the meaning of.
Rewritten(m, s, at) == IF m.insns[at][1] \in Defines \/ Renamed(m, s, at) THEN {m.insns[at][2]} ELSE {}

StepGives(m, g, s, at, t) ==
  /\ IsPass(t)
  /\ t.ret = RetAfter(m, g, s, at)
  /\ t.allocated = AllocatedAfter(m, s, at)
  /\ t.sites = s.sites \cup SitesAt(m, s, at)
  /\ t.stores = s.stores \cup StoresAt(m, s, at)
  /\ t.calls = s.calls \cup CallsAt(m, s, at)
  /\ t.returns = s.returns \cup ReturnsAt(m, s, at)
  /\ t.became = s.became \cup BecameAt(m, s, at)
  /\ \A r : Known(t, r) = IF r \in Rewritten(m, s, at) THEN Left(m, s, at, m.insns[at]) ELSE Known(s, r)

NotedOf(m, g, s, at, i) ==
  /\ RetAfter(m, g, s, at) = CASE i[1] = "MoveResult" -> <<>> [] i[1] = "Invoke" -> Returned(g, s, i[2], i[3]) [] OTHER -> s.ret
  /\ i[1] # "NewInstance" => AllocatedAfter(m, s, at) = s.allocated
  /\ i[1] = "NewInstance" => AllocatedAfter(m, s, at) = Bind(s.allocated, <<"Alloc", <<m.key, at>>>>, i[3])
  /\ ~ IsSite(i) => SitesAt(m, s, at) = {}
  /\ IsSite(i) => SitesAt(m, s, at) = {[at |-> at, lock |-> LockOf(m, s, at, Locked(i))]}
  /\ i[1] # "Iput" => StoresAt(m, s, at) = {} /\ BecameAt(m, s, at) = {} /\ ~ Renamed(m, s, at)
  /\ i[1] = "Iput" => StoresAt(m, s, at) = {StoreOf(s, at, i)} /\ (Renamed(m, s, at) <=> Renames(s, i))
  /\ Renamed(m, s, at) => BecameAt(m, s, at) = {at}
  /\ ~ Renamed(m, s, at) => BecameAt(m, s, at) = {}
  /\ i[1] # "Invoke" => CallsAt(m, s, at) = {}
  /\ i[1] = "Invoke" => CallsAt(m, s, at) = {CallOf(m, s, i)}
  /\ i[1] # "Return" => ReturnsAt(m, s, at) = {}
  /\ i[1] = "Return" => ReturnsAt(m, s, at) = {Result(s, i)}
  /\ i[1] \in Defines \/ Renamed(m, s, at) => Rewritten(m, s, at) = {i[2]}
  /\ i[1] \notin Defines /\ ~ Renamed(m, s, at) => Rewritten(m, s, at) = {}
  /\ IsSite(i) => i[1] \in {"Enter", "Invoke"}
  /\ i[1] = "Enter" => IsSite(i)
  /\ i[1] = "Invoke" => (IsSite(i) <=> i[2] \in Acquires)

LEMMA NotedIs ==
  ASSUME NEW m, NEW g, NEW s, NEW at, NEW i, i = m.insns[at]
  PROVE  NotedOf(m, g, s, at, i)
<1>1. RetAfter(m, g, s, at) = CASE i[1] = "MoveResult" -> <<>> [] i[1] = "Invoke" -> Returned(g, s, i[2], i[3]) [] OTHER -> s.ret
  BY DEF RetAfter
<1>2. /\ i[1] # "NewInstance" => AllocatedAfter(m, s, at) = s.allocated
      /\ i[1] = "NewInstance" => AllocatedAfter(m, s, at) = Bind(s.allocated, <<"Alloc", <<m.key, at>>>>, i[3])
  BY DEF AllocatedAfter
<1>3. /\ ~ IsSite(i) => SitesAt(m, s, at) = {}
      /\ IsSite(i) => SitesAt(m, s, at) = {[at |-> at, lock |-> LockOf(m, s, at, Locked(i))]}
  BY DEF SitesAt
<1>4. /\ i[1] # "Iput" => StoresAt(m, s, at) = {} /\ BecameAt(m, s, at) = {} /\ ~ Renamed(m, s, at)
      /\ i[1] = "Iput" => StoresAt(m, s, at) = {StoreOf(s, at, i)} /\ (Renamed(m, s, at) <=> Renames(s, i))
      /\ Renamed(m, s, at) => BecameAt(m, s, at) = {at}
      /\ ~ Renamed(m, s, at) => BecameAt(m, s, at) = {}
  BY DEF StoresAt, BecameAt, Renamed
<1>5. /\ i[1] # "Invoke" => CallsAt(m, s, at) = {}
      /\ i[1] = "Invoke" => CallsAt(m, s, at) = {CallOf(m, s, i)}
      /\ i[1] # "Return" => ReturnsAt(m, s, at) = {}
      /\ i[1] = "Return" => ReturnsAt(m, s, at) = {Result(s, i)}
  BY DEF CallsAt, ReturnsAt
<1>6. /\ i[1] \in Defines \/ Renamed(m, s, at) => Rewritten(m, s, at) = {i[2]}
      /\ i[1] \notin Defines /\ ~ Renamed(m, s, at) => Rewritten(m, s, at) = {}
  BY DEF Rewritten
<1>7. /\ IsSite(i) => i[1] \in {"Enter", "Invoke"}
      /\ i[1] = "Enter" => IsSite(i)
      /\ i[1] = "Invoke" => (IsSite(i) <=> i[2] \in Acquires)
  BY DEF IsSite
<1> QED
  BY <1>1, <1>2, <1>3, <1>4, <1>5, <1>6, <1>7 DEF NotedOf

LEMMA StepIs ==
  ASSUME NEW m, NEW g, NEW s, NEW at, NEW t, NEW i, IsPass(s), IsOption(s.ret),
         i = m.insns[at], t = Step(m, g, s, at)
  PROVE  StepGives(m, g, s, at, t)
<1>15. NotedOf(m, g, s, at, i)
  BY NotedIs
<1>0. \A a : IsOption(<<a>>) /\ IsOption(<<>>)
  BY DEF IsOption
<1>1. ASSUME NEW o, IsOption(o), o = Left(m, s, at, i), t = Define(s, i[2], o),
             i[1] \in {"Sget", "Iget", "ConstClass", "Move", "Def"}
      PROVE  StepGives(m, g, s, at, t)
  <2>1. IsPass(t) /\ \A r : Known(t, r) = IF r = i[2] THEN o ELSE Known(s, r)
    BY <1>1, DefineIs
  <2>2. /\ t.ret = s.ret /\ t.allocated = s.allocated /\ t.sites = s.sites /\ t.stores = s.stores
        /\ t.calls = s.calls /\ t.returns = s.returns /\ t.became = s.became
    BY <1>1, DefineKeeps
  <2> QED
    BY <1>1, <2>1, <2>2, <1>15 DEF StepGives, Defines, NotedOf
<1>2. CASE i[1] = "Sget"
  <2>1. t = Define(s, i[2], <<FieldLock(<<"Static", i[3][1]>>, i[3][2])>>)
    BY <1>2 DEF Step
  <2>2. Left(m, s, at, i) = <<FieldLock(<<"Static", i[3][1]>>, i[3][2])>>
    BY <1>2 DEF Left
  <2> QED
    BY <1>0, <1>1, <1>2, <2>1, <2>2
<1>3. CASE i[1] = "Iget"
  <2>1. t = Define(s, i[2], <<FieldLock(<<"Recv", i[4][1]>>, i[4][2])>>)
    BY <1>3 DEF Step
  <2>2. Left(m, s, at, i) = <<FieldLock(<<"Recv", i[4][1]>>, i[4][2])>>
    BY <1>3 DEF Left
  <2> QED
    BY <1>0, <1>1, <1>3, <2>1, <2>2
<1>4. CASE i[1] = "ConstClass"
  <2>1. t = Define(s, i[2], <<NewLock(<<"ClassConst", i[3]>>)>>)
    BY <1>4 DEF Step
  <2>2. Left(m, s, at, i) = <<NewLock(<<"ClassConst", i[3]>>)>>
    BY <1>4 DEF Left
  <2> QED
    BY <1>0, <1>1, <1>4, <2>1, <2>2
<1>5. CASE i[1] = "Move"
  <2>1. t = Define(s, i[2], Known(s, i[3]))
    BY <1>5 DEF Step
  <2>2. Left(m, s, at, i) = Known(s, i[3])
    BY <1>5 DEF Left
  <2> QED
    BY <1>1, <1>5, <2>1, <2>2, KnownIsOption
<1>6. CASE i[1] = "Def"
  <2>1. t = Define(s, i[2], <<>>)
    BY <1>6 DEF Step
  <2>2. Left(m, s, at, i) = <<>>
    BY <1>6 DEF Left
  <2> QED
    BY <1>0, <1>1, <1>6, <2>1, <2>2
<1>7. CASE i[1] = "NewInstance"
  <2> DEFINE o == <<NewLock(<<"Alloc", <<m.key, at>>>>)>>
             d == Define(s, i[2], o)
  <2>1. t = [d EXCEPT !.allocated = Bind(@, <<"Alloc", <<m.key, at>>>>, i[3])]
    BY <1>7 DEF Step
  <2>2. IsPass(d) /\ \A r : Known(d, r) = IF r = i[2] THEN o ELSE Known(s, r)
    BY <1>0, DefineIs
  <2>3. /\ d.ret = s.ret /\ d.allocated = s.allocated /\ d.sites = s.sites /\ d.stores = s.stores
        /\ d.calls = s.calls /\ d.returns = s.returns /\ d.became = s.became
    BY <1>0, DefineKeeps
  <2>4. Left(m, s, at, i) = o
    BY <1>7 DEF Left
  <2> HIDE DEF d, o
  <2>5. /\ IsPass(t) /\ t.regs = d.regs /\ t.ret = s.ret /\ t.sites = s.sites /\ t.stores = s.stores
        /\ t.calls = s.calls /\ t.returns = s.returns /\ t.became = s.became
        /\ t.allocated = Bind(s.allocated, <<"Alloc", <<m.key, at>>>>, i[3])
    BY <2>1, <2>2, <2>3 DEF IsPass
  <2>6. \A r : Known(t, r) = Known(d, r)
    BY <2>5 DEF Known
  <2> QED
    BY <1>7, <2>2, <2>4, <2>5, <2>6, <1>15 DEF StepGives, Defines, NotedOf
<1>8. CASE i[1] = "MoveResult"
  <2> DEFINE d == Define(s, i[2], s.ret)
  <2>1. t = [d EXCEPT !.ret = <<>>]
    BY <1>8 DEF Step
  <2>2. IsPass(d) /\ \A r : Known(d, r) = IF r = i[2] THEN s.ret ELSE Known(s, r)
    BY DefineIs
  <2>3. /\ d.ret = s.ret /\ d.allocated = s.allocated /\ d.sites = s.sites /\ d.stores = s.stores
        /\ d.calls = s.calls /\ d.returns = s.returns /\ d.became = s.became
    BY DefineKeeps
  <2>4. Left(m, s, at, i) = s.ret
    BY <1>8 DEF Left
  <2> HIDE DEF d
  <2>5. /\ IsPass(t) /\ t.regs = d.regs /\ t.ret = <<>> /\ t.sites = s.sites /\ t.stores = s.stores
        /\ t.calls = s.calls /\ t.returns = s.returns /\ t.became = s.became /\ t.allocated = s.allocated
    BY <2>1, <2>2, <2>3 DEF IsPass
  <2>6. \A r : Known(t, r) = Known(d, r)
    BY <2>5 DEF Known
  <2> QED
    BY <1>8, <2>2, <2>4, <2>5, <2>6, <1>15 DEF StepGives, Defines, NotedOf
<1>9. CASE i[1] = "Iput"
  <2> DEFINE store == StoreOf(s, at, i)
             p == [s EXCEPT !.stores = @ \cup {store}]
             o == <<FieldLock(<<"This", "this">>, i[4][2])>>
             d == Define(p, i[2], o)
  <2>1. t = IF Renames(s, i) THEN [d EXCEPT !.became = @ \cup {at}] ELSE p
    BY <1>9 DEF Step, Store, Renames, StoreOf, OnThis
  <2>2. /\ IsPass(p) /\ p.regs = s.regs /\ p.ret = s.ret /\ p.sites = s.sites /\ p.stores = s.stores \cup {store}
        /\ p.calls = s.calls /\ p.returns = s.returns /\ p.became = s.became /\ p.allocated = s.allocated
    BY DEF IsPass
  <2> HIDE DEF p
  <2>3. \A r : Known(p, r) = Known(s, r)
    BY <2>2 DEF Known
  <2>4. Left(m, s, at, i) = o
    BY <1>9 DEF Left
  <2>5. CASE ~ Renames(s, i)
    <3>1. t = p
      BY <2>1, <2>5
    <3> QED
      BY <1>9, <2>2, <2>3, <2>5, <3>1, <1>15 DEF StepGives, Defines, NotedOf
  <2>6. CASE Renames(s, i)
    <3>1. IsPass(d) /\ \A r : Known(d, r) = IF r = i[2] THEN o ELSE Known(s, r)
      BY <1>0, <2>2, <2>3, DefineIs
    <3>2. /\ d.ret = p.ret /\ d.allocated = p.allocated /\ d.sites = p.sites /\ d.stores = p.stores
          /\ d.calls = p.calls /\ d.returns = p.returns /\ d.became = p.became
      BY <1>0, <2>2, DefineKeeps
    <3>3. t = [d EXCEPT !.became = @ \cup {at}]
      BY <2>1, <2>6
    <3> HIDE DEF d, o
    <3>4. /\ IsPass(t) /\ t.regs = d.regs /\ t.ret = s.ret /\ t.sites = s.sites /\ t.stores = s.stores \cup {store}
          /\ t.calls = s.calls /\ t.returns = s.returns /\ t.became = s.became \cup {at} /\ t.allocated = s.allocated
      BY <2>2, <3>1, <3>2, <3>3 DEF IsPass
    <3>5. \A r : Known(t, r) = Known(d, r)
      BY <3>4 DEF Known
    <3> QED
      BY <1>9, <2>4, <2>6, <3>1, <3>4, <3>5, <1>15 DEF StepGives, Defines, NotedOf
  <2> QED
    BY <2>5, <2>6
<1>10. CASE i[1] = "Return"
  <2>1. t = [s EXCEPT !.returns = @ \cup {Result(s, i)}]
    BY <1>10 DEF Step, Result
  <2>2. /\ IsPass(t) /\ t.regs = s.regs /\ t.ret = s.ret /\ t.sites = s.sites /\ t.stores = s.stores
        /\ t.calls = s.calls /\ t.returns = s.returns \cup {Result(s, i)} /\ t.became = s.became /\ t.allocated = s.allocated
    BY <2>1 DEF IsPass
  <2>3. \A r : Known(t, r) = Known(s, r)
    BY <2>2 DEF Known
  <2> QED
    BY <1>10, <2>2, <2>3, <1>15 DEF StepGives, Defines, NotedOf
<1>11. ASSUME NEW p, IsPass(p), t = Site(m, p, at, Locked(i)), p.regs = s.regs, p.sites = s.sites, IsSite(i)
       PROVE  /\ IsPass(t) /\ t.regs = s.regs /\ t.ret = p.ret /\ t.stores = p.stores
              /\ t.sites = s.sites \cup {[at |-> at, lock |-> LockOf(m, s, at, Locked(i))]}
              /\ t.calls = p.calls /\ t.returns = p.returns /\ t.became = p.became /\ t.allocated = p.allocated
  <2>1. Known(p, Locked(i)) = Known(s, Locked(i))
    BY <1>11 DEF Known
  <2>2. t = [p EXCEPT !.sites = @ \cup {[at |-> at, lock |-> LockOf(m, s, at, Locked(i))]}]
    BY <1>11, <2>1 DEF Site, LockOf
  <2> QED
    BY <1>11, <2>2 DEF IsPass
<1>12. CASE i[1] = "Enter"
  <2>1. t = Site(m, s, at, Locked(i)) /\ IsSite(i)
    BY <1>12 DEF Step, Locked, IsSite
  <2>2. /\ IsPass(t) /\ t.regs = s.regs /\ t.ret = s.ret /\ t.stores = s.stores
        /\ t.sites = s.sites \cup {[at |-> at, lock |-> LockOf(m, s, at, Locked(i))]}
        /\ t.calls = s.calls /\ t.returns = s.returns /\ t.became = s.became /\ t.allocated = s.allocated
    BY <1>11, <2>1
  <2>3. \A r : Known(t, r) = Known(s, r)
    BY <2>2 DEF Known
  <2> QED
    BY <1>12, <2>1, <2>2, <2>3, <1>15 DEF StepGives, Defines, NotedOf
<1>13. CASE i[1] = "Invoke"
  <2> DEFINE ret == Returned(g, s, i[2], i[3])
             call == CallOf(m, s, i)
             p == [s EXCEPT !.ret = ret, !.calls = @ \cup {call}]
  <2>1. t = IF i[2] \in Acquires THEN Site(m, p, at, i[3][1]) ELSE p
    BY <1>13 DEF Step, Invoked, CallOf
  <2> HIDE DEF ret, call
  <2>a. p = [regs |-> s.regs, ret |-> ret, allocated |-> s.allocated, sites |-> s.sites, stores |-> s.stores,
             calls |-> s.calls \cup {call}, returns |-> s.returns, became |-> s.became]
    <3> DEFINE q == [s EXCEPT !.ret = ret]
               c == s.calls \cup {call}
    <3>1. q = [regs |-> s.regs, ret |-> ret, allocated |-> s.allocated, sites |-> s.sites, stores |-> s.stores,
               calls |-> s.calls, returns |-> s.returns, became |-> s.became]
      BY DEF IsPass
    <3>2. p = [q EXCEPT !.calls = c]
      BY Zenon
    <3> HIDE DEF q, c, p
    <3>3. p = [regs |-> s.regs, ret |-> ret, allocated |-> s.allocated, sites |-> s.sites, stores |-> s.stores,
               calls |-> c, returns |-> s.returns, became |-> s.became]
      BY <3>1, <3>2
    <3> QED
      BY <3>3 DEF c
  <2> HIDE DEF p
  <2>2. /\ IsPass(p) /\ p.regs = s.regs /\ p.ret = ret /\ p.sites = s.sites /\ p.stores = s.stores
        /\ p.calls = s.calls \cup {call} /\ p.returns = s.returns /\ p.became = s.became
        /\ p.allocated = s.allocated
    BY <2>a DEF IsPass
  <2>3. CASE i[2] \in Acquires
    <3>1. t = Site(m, p, at, Locked(i)) /\ IsSite(i)
      BY <1>13, <2>1, <2>3 DEF Locked, IsSite
    <3>2. /\ IsPass(t) /\ t.regs = s.regs /\ t.ret = p.ret /\ t.stores = p.stores
          /\ t.sites = s.sites \cup {[at |-> at, lock |-> LockOf(m, s, at, Locked(i))]}
          /\ t.calls = p.calls /\ t.returns = p.returns /\ t.became = p.became /\ t.allocated = p.allocated
      BY <1>11, <2>2, <3>1
    <3>3. \A r : Known(t, r) = Known(s, r)
      BY <3>2 DEF Known
    <3> QED
      BY <1>13, <2>2, <3>1, <3>2, <3>3, <1>15 DEF ret, call, StepGives, Defines, NotedOf
  <2>4. CASE i[2] \notin Acquires
    <3>1. t = p /\ ~ IsSite(i)
      BY <1>13, <2>1, <2>4 DEF IsSite
    <3>2. \A r : Known(t, r) = Known(s, r)
      BY <2>2, <3>1 DEF Known
    <3> QED
      BY <1>13, <2>2, <3>1, <3>2, <1>15 DEF ret, call, StepGives, Defines, NotedOf
  <2> QED
    BY <2>3, <2>4
<1>14. CASE i[1] \notin {"Sget", "Iget", "Iput", "ConstClass", "NewInstance", "Move", "MoveResult", "Def", "Return", "Invoke", "Enter"}
  <2>1. t = s
    BY <1>14 DEF Step
  <2> QED
    BY <1>14, <2>1, <1>15 DEF StepGives, Defines, NotedOf
<1> QED
  BY <1>2, <1>3, <1>4, <1>5, <1>6, <1>7, <1>8, <1>9, <1>10, <1>12, <1>13, <1>14

-----------------------------------------------------------------------------
(***************************************************************************)
(* The locks that the pass works with are well formed.                     *)
(***************************************************************************)
\* The states of a pass are one after another.
LEMMA StatesAre ==
  ASSUME NEW m, NEW g, Len(m.insns) \in Nat
  PROVE  LET h == States(m, g)
         IN  /\ h[0] = Start(m)
             /\ \A n \in 1 .. Len(m.insns) : h[n] = Step(m, g, h[n - 1], n)
<1> DEFINE N == Len(m.insns)
           Upto(b, h) == h = [n \in 0 .. b |-> IF n = 0 THEN Start(m) ELSE Step(m, g, h[n - 1], n)]
           Good == {b \in 0 .. N : \E h : Upto(b, h)}
<1>1. 0 \in Good
  <2> DEFINE h == [n \in 0 .. 0 |-> Start(m)]
  <2>1. Upto(0, h)
    OBVIOUS
  <2> HIDE DEF Upto, h
  <2> QED
    BY <2>1
<1>2. ASSUME NEW b \in Good, b \in 0 .. N - 1 PROVE b + 1 \in Good
  <2>1. PICK h : Upto(b, h)
    OBVIOUS
  <2> DEFINE k == [n \in 0 .. b + 1 |-> IF n = b + 1 THEN Step(m, g, h[b], b + 1) ELSE h[n]]
  <2>2. b \in Nat /\ b + 1 \in 0 .. N
    BY <1>2
  <2>3. ASSUME NEW n \in 0 .. b + 1 PROVE k[n] = IF n = 0 THEN Start(m) ELSE Step(m, g, k[n - 1], n)
    <3>1. CASE n = 0
      <4>1. h[0] = Start(m) /\ k[0] = h[0]
        BY <2>1, <2>2
      <4> QED
        BY <3>1, <4>1
    <3>2. CASE n = b + 1
      <4>1. k[n] = Step(m, g, h[b], b + 1) /\ k[n - 1] = h[b]
        BY <2>2, <3>2
      <4> HIDE DEF k
      <4> QED
        BY <2>2, <3>2, <4>1
    <3>3. CASE n # 0 /\ n # b + 1
      <4>1. n \in 0 .. b /\ n - 1 \in 0 .. b
        BY <2>2, <3>3
      <4>2. k[n] = h[n] /\ k[n - 1] = h[n - 1]
        BY <2>2, <3>3, <4>1
      <4>3. h[n] = Step(m, g, h[n - 1], n)
        BY <2>1, <3>3, <4>1
      <4> HIDE DEF k, Upto
      <4> QED
        BY <3>3, <4>2, <4>3
    <3> QED
      BY <3>1, <3>2, <3>3
  <2>4. k = [n \in 0 .. b + 1 |-> k[n]]
    OBVIOUS
  <2> HIDE DEF k
  <2>5. Upto(b + 1, k)
    BY <2>3, <2>4
  <2> HIDE DEF Upto
  <2> QED
    BY <2>2, <2>5
<1>3. 0 .. N \subseteq Good
  <2> HIDE DEF Good
  <2> QED
    BY <1>1, <1>2, IntervalInduction
<1>4. \E h : Upto(N, h)
  <2> HIDE DEF Upto
  <2> QED
    BY <1>3
<1> DEFINE s == CHOOSE h : Upto(N, h)
<1>5. States(m, g) = s
  BY DEF States
<1>6. Upto(N, s)
  <2> HIDE DEF Upto
  <2> QED
    BY <1>4
<1> HIDE DEF s
<1>7. s[0] = Start(m) /\ \A n \in 1 .. N : s[n] = Step(m, g, s[n - 1], n)
  <2>1. N \in Nat
    OBVIOUS
  <2> HIDE DEF N
  <2>2. \A n \in 0 .. N : s[n] = IF n = 0 THEN Start(m) ELSE Step(m, g, s[n - 1], n)
    BY <1>6
  <2> HIDE DEF Upto
  <2>3. 0 \in 0 .. N /\ \A n \in 1 .. N : n \in 0 .. N /\ n # 0
    BY <2>1
  <2> QED
    BY <2>2, <2>3
<1> HIDE DEF Upto
<1> QED
  BY <1>5, <1>7
-----------------------------------------------------------------------------
\* The locks that a pass over method m gives its registers.
Fine(m, l) ==
  /\ Proper(l)
  /\ Kind(l) = "This" => HasReceiver(m)
  /\ Kind(l) = "Param" => l.root[2] \in 0 .. m.ins - 1
  /\ Kind(l) = "Alloc" => \E d \in DOMAIN m.insns : m.insns[d][1] = "NewInstance" /\ l.root = <<"Alloc", <<m.key, d>>>>

AllFine(m, s) ==
  /\ \A r : \A l \in Range(Known(s, r)) : Fine(m, l)
  /\ \A l \in Range(s.ret) : Fine(m, l)

Getting(g) == \A k \in DOMAIN g : Proper(g[k]) /\ Kind(g[k]) # "Alloc"

\* What the verifier guarantees of the method that the pass depends on.
Runs(m) ==
  /\ m.registers \in Nat /\ m.ins \in 0 .. m.registers
  /\ IsPath(m.insns)
  /\ \A at \in DOMAIN m.insns : m.insns[at][1] = "Invoke" =>
       IsPath(m.insns[at][3]) /\ (m.insns[at][2] \in Library => m.insns[at][3] # <<>>)

\* What a pass has noted after n instructions, in terms of its states.
PassIs(m, h, n) ==
  /\ IsPass(h[n]) /\ IsOption(h[n].ret) /\ AllFine(m, h[n])
  /\ \A x : x \in h[n].sites <=> \E d \in 1 .. n : x \in SitesAt(m, h[d - 1], d)
  /\ \A x : x \in h[n].stores <=> \E d \in 1 .. n : x \in StoresAt(m, h[d - 1], d)
  /\ \A x : x \in h[n].calls <=> \E d \in 1 .. n : x \in CallsAt(m, h[d - 1], d)
  /\ \A x : x \in h[n].returns <=> \E d \in 1 .. n : x \in ReturnsAt(m, h[d - 1], d)
  /\ \A x : x \in h[n].became <=> \E d \in 1 .. n : x \in BecameAt(m, h[d - 1], d)
  /\ \A d \in 1 .. n : m.insns[d][1] = "NewInstance" =>
       <<"Alloc", <<m.key, d>>>> \in DOMAIN h[n].allocated /\ h[n].allocated[<<"Alloc", <<m.key, d>>>>] = m.insns[d][3]

-----------------------------------------------------------------------------
LEMMA NoPath ==
  /\ IsPath(<<>>)
  /\ \A x : IsPath(<<x>>)
<1>1. <<>> \in Seq({})
  OBVIOUS
<1>2. \A x : <<x>> \in Seq({x})
  OBVIOUS
<1> QED
  BY <1>1, <1>2 DEF IsPath

LEMMA SimpleIsProper ==
  ASSUME NEW kind \in RootKinds \ {"Param"}, NEW id
  PROVE  /\ Proper(NewLock(<<kind, id>>)) /\ Kind(NewLock(<<kind, id>>)) = kind
         /\ NewLock(<<kind, id>>).root = <<kind, id>>
         /\ \A name : Proper(FieldLock(<<kind, id>>, name)) /\ Kind(FieldLock(<<kind, id>>, name)) = kind
<1>1. ASSUME NEW name
      PROVE  Proper(FieldLock(<<kind, id>>, name)) /\ Kind(FieldLock(<<kind, id>>, name)) = kind
  BY NoPath DEF Proper, FieldLock, Lock, IsLock, Modes, Kind
<1>2. Proper(NewLock(<<kind, id>>)) /\ Kind(NewLock(<<kind, id>>)) = kind /\ NewLock(<<kind, id>>).root = <<kind, id>>
  BY NoPath DEF Proper, NewLock, Lock, IsLock, Modes, Kind
<1> QED
  BY <1>1, <1>2

\* A view of a lock, and what lies further along it, is known in the same methods.
LEMMA FineView ==
  ASSUME NEW m, NEW l, Fine(m, l), NEW mode \in Modes
  PROVE  Fine(m, WithMode(l, mode))
<1>1. WithMode(l, mode) = Lock(l.root, l.fields, mode)
  BY DEF WithMode, Fine, Proper, IsLock, Lock
<1>2. Proper(Lock(l.root, l.fields, mode)) /\ Lock(l.root, l.fields, mode).root = l.root
  BY DEF Fine, Proper, IsLock, Lock
<1> QED
  BY <1>1, <1>2 DEF Fine, Kind

LEMMA FineExtend ==
  ASSUME NEW m, NEW l, Fine(m, l), NEW more, IsPath(more), NEW mode \in Modes
  PROVE  Fine(m, Extend(l, more, mode))
<1> DEFINE e == Extend(l, more, mode)
<1>1. Proper(e) /\ (IsOpaque(e) \/ e = Lock(l.root, l.fields \o more, ExtendedMode(l.mode, mode)))
  BY ExtendIsProper DEF Fine
<1> HIDE DEF e
<1>2. CASE IsOpaque(e)
  BY <1>1, <1>2 DEF Fine, IsOpaque, e
<1>3. CASE ~ IsOpaque(e)
  <2>1. e.root = l.root
    BY <1>1, <1>3 DEF Lock
  <2> QED
    BY <1>1, <2>1 DEF Fine, Kind, e
<1> QED
  BY <1>2, <1>3

LEMMA FineSubst ==
  ASSUME NEW m, NEW l, Proper(l), Kind(l) # "Alloc", NEW actuals,
         \A i : \A a \in Range(ArgOrNone(actuals, i)) : Fine(m, a),
         \A i : IsOption(ArgOrNone(actuals, i))
  PROVE  IsOption(Subst(l, actuals)) /\ \A b \in Range(Subst(l, actuals)) : Fine(m, b)
<1>1. ASSUME NEW i, Subst(l, actuals) = Bound(l, ArgOrNone(actuals, i))
      PROVE  IsOption(Subst(l, actuals)) /\ \A b \in Range(Subst(l, actuals)) : Fine(m, b)
  <2> DEFINE a == ArgOrNone(actuals, i)
  <2>1. CASE a = <<>>
    BY <1>1, <2>1, OptionRange DEF Bound, IsOption
  <2>2. CASE a # <<>>
    <3>1. a = <<a[1]>>
      BY <2>2 DEF IsOption
    <3>2. Fine(m, a[1])
      BY <3>1, OptionRange
    <3>3. Fine(m, Extend(a[1], l.fields, l.mode))
      BY <3>2, FineExtend DEF Proper
    <3>4. Subst(l, actuals) = <<Extend(a[1], l.fields, l.mode)>>
      BY <1>1, <2>2 DEF Bound
    <3> QED
      BY <3>3, <3>4, OptionRange DEF IsOption
  <2> QED
    BY <2>1, <2>2
<1>2. CASE Kind(l) = "This"
  BY <1>1, <1>2 DEF Subst
<1>3. CASE Kind(l) = "Param"
  BY <1>1, <1>3 DEF Subst
<1>4. CASE Kind(l) \notin {"This", "Param"}
  <2>1. Subst(l, actuals) = <<l>>
    BY <1>4 DEF Subst
  <2> QED
    BY <1>4, <2>1, OptionRange DEF Fine, IsOption
<1> QED
  BY <1>2, <1>3, <1>4

LEMMA ViewsAre ==
  /\ DOMAIN Views = {"readLock", "writeLock"}
  /\ \A callee \in DOMAIN Views : Views[callee] \in {"Read", "Write"}
BY DEF Views

LEMMA FineReturned ==
  ASSUME NEW m, NEW g, Getting(g), NEW s, NEW callee, NEW args, AllFine(m, s), callee \in DOMAIN Views => args # <<>>, IsPath(args)
  PROVE  IsOption(Returned(g, s, callee, args)) /\ \A l \in Range(Returned(g, s, callee, args)) : Fine(m, l)
<1> DEFINE actuals == [k \in DOMAIN args |-> Known(s, args[k])]
<1>1. \A i : IsOption(ArgOrNone(actuals, i)) /\ \A a \in Range(ArgOrNone(actuals, i)) : Fine(m, a)
  <2> TAKE i
  <2>1. CASE i + 1 \in DOMAIN args
    <3>1. ArgOrNone(actuals, i) = Known(s, args[i + 1])
      BY <2>1 DEF ArgOrNone
    <3> QED
      BY <3>1, KnownIsOption DEF AllFine
  <2>2. CASE i + 1 \notin DOMAIN args
    <3>1. ArgOrNone(actuals, i) = <<>>
      BY <2>2 DEF ArgOrNone
    <3> QED
      BY <3>1, OptionRange DEF IsOption
  <2> QED
    BY <2>1, <2>2
<1>2. CASE callee \in DOMAIN Views
  <2>1. 1 \in DOMAIN args
    BY <1>2 DEF IsPath
  <2>2. actuals[1] = Known(s, args[1])
    BY <2>1
  <2> DEFINE a == Known(s, args[1])
  <2>3. Returned(g, s, callee, args) = IF a = <<>> THEN <<>> ELSE <<WithMode(a[1], Views[callee])>>
    BY <1>2, <2>2 DEF Returned
  <2>4. CASE a = <<>>
    BY <2>3, <2>4, OptionRange DEF IsOption
  <2>5. CASE a # <<>>
    <3>1. a = <<a[1]>>
      BY <2>5, KnownIsOption DEF IsOption
    <3>2. Fine(m, a[1])
      BY <3>1, OptionRange DEF AllFine
    <3>3. Fine(m, WithMode(a[1], Views[callee]))
      BY <1>2, <3>2, FineView, ViewsAre DEF Modes
    <3> HIDE DEF a
    <3> QED
      BY <2>3, <2>5, <3>3, OptionRange DEF IsOption
  <2> QED
    BY <2>4, <2>5
<1>3. CASE callee \notin DOMAIN Views /\ callee \in DOMAIN g \ Library
  <2>1. Returned(g, s, callee, args) = Subst(g[callee], actuals)
    BY <1>3 DEF Returned
  <2>2. Proper(g[callee]) /\ Kind(g[callee]) # "Alloc"
    BY <1>3 DEF Getting
  <2> HIDE DEF actuals
  <2> QED
    BY <1>1, <2>1, <2>2, FineSubst
<1>4. CASE callee \notin DOMAIN Views /\ callee \notin DOMAIN g \ Library
  <2>1. Returned(g, s, callee, args) = <<>>
    BY <1>4 DEF Returned
  <2> QED
    BY <2>1, OptionRange DEF IsOption
<1> QED
  BY <1>2, <1>3, <1>4

-----------------------------------------------------------------------------
(***************************************************************************)
(* The pass from its first instruction to its last.                        *)
(***************************************************************************)
LEMMA FineStart ==
  ASSUME NEW m, Runs(m)
  PROVE  IsPass(Start(m)) /\ IsOption(Start(m).ret) /\ AllFine(m, Start(m))
<1> DEFINE s == Start(m)
<1>1. IsPass(s) /\ s.ret = <<>> /\ s.regs = Formals(m)
  BY DEF IsPass, Start
<1> HIDE DEF s
<1>2. IsOption(s.ret) /\ \A l \in Range(s.ret) : Fine(m, l)
  BY <1>1, OptionRange DEF IsOption
<1>3. ASSUME NEW r, NEW l \in Range(Known(s, r)) PROVE Fine(m, l)
  <2>1. r \in DOMAIN s.regs /\ l = s.regs[r]
    <3>1. CASE r \in DOMAIN s.regs
      BY <1>3, <3>1, OptionRange DEF Known
    <3>2. CASE r \notin DOMAIN s.regs
      BY <1>3, <3>2, OptionRange DEF Known
    <3> QED
      BY <3>1, <3>2
  <2>2. r \in FirstFormal(m) .. m.registers - 1
    BY <1>1, <2>1 DEF Formals
  <2>3. CASE HasReceiver(m) /\ r = FirstFormal(m)
    <3>1. l = NewLock(<<"This", "this">>)
      BY <1>1, <2>1, <2>2, <2>3 DEF Formals
    <3> QED
      BY <2>3, <3>1, SimpleIsProper DEF Fine, RootKinds
  <2>4. CASE ~ (HasReceiver(m) /\ r = FirstFormal(m))
    <3> DEFINE j == r - FirstFormal(m)
    <3>1. l = NewLock(<<"Param", j>>)
      BY <1>1, <2>1, <2>2, <2>4 DEF Formals
    <3>2. j \in 0 .. m.ins - 1
      BY <2>2 DEF Runs, FirstFormal
    <3> HIDE DEF j
    <3>3. Proper(l) /\ Kind(l) = "Param" /\ l.root[2] = j
      BY <3>1, <3>2, NoPath DEF Proper, NewLock, Lock, IsLock, Modes, Kind, RootKinds
    <3> QED
      BY <3>2, <3>3 DEF Fine
  <2> QED
    BY <2>3, <2>4
<1> QED
  BY <1>1, <1>2, <1>3 DEF AllFine, s

LEMMA FineLeft ==
  ASSUME NEW m, NEW s, NEW at \in DOMAIN m.insns, NEW i, i = m.insns[at], Runs(m), AllFine(m, s), IsOption(s.ret),
         i[1] \in Defines \/ Renames(s, i)
  PROVE  IsOption(Left(m, s, at, i)) /\ \A l \in Range(Left(m, s, at, i)) : Fine(m, l)
<1> DEFINE o == Left(m, s, at, i)
<1>1. ASSUME NEW l, o = <<l>>, Fine(m, l) PROVE IsOption(o) /\ \A k \in Range(o) : Fine(m, k)
  <2> HIDE DEF o
  <2> QED
    BY <1>1, OptionRange DEF IsOption
<1>2. CASE i[1] = "Sget"
  BY <1>1, <1>2, SimpleIsProper DEF Left, Fine, RootKinds
<1>3. CASE i[1] = "Iget"
  BY <1>1, <1>3, SimpleIsProper DEF Left, Fine, RootKinds
<1>4. CASE i[1] = "ConstClass"
  BY <1>1, <1>4, SimpleIsProper DEF Left, Fine, RootKinds
<1>5. CASE i[1] = "NewInstance"
  BY <1>1, <1>5, SimpleIsProper DEF Left, Fine, RootKinds
<1>6. CASE i[1] = "Iput"
  <2>1. Renames(s, i)
    BY <1>6 DEF Defines
  <2>2. HasReceiver(m)
    <3> DEFINE b == Known(s, i[3])
    <3>1. b = <<b[1]>> /\ Kind(b[1]) = "This"
      BY <2>1, KnownIsOption DEF Renames, HasRoot, IsOption
    <3>2. b[1] \in Range(b)
      BY <3>1, OptionRange
    <3> QED
      BY <3>1, <3>2 DEF AllFine, Fine
  <2> QED
    BY <1>1, <1>6, <2>2, SimpleIsProper DEF Left, Fine, RootKinds
<1>7. CASE i[1] = "Move"
  BY <1>7, KnownIsOption DEF Left, AllFine
<1>8. CASE i[1] = "MoveResult"
  BY <1>8 DEF Left, AllFine
<1>9. CASE i[1] \notin {"Sget", "Iget", "Iput", "ConstClass", "NewInstance", "Move", "MoveResult"}
  <2>1. o = <<>>
    BY <1>9 DEF Left
  <2> QED
    BY <2>1, OptionRange DEF IsOption
<1> QED
  BY <1>2, <1>3, <1>4, <1>5, <1>6, <1>7, <1>8, <1>9

LEMMA FineStep ==
  ASSUME NEW m, NEW g, NEW s, NEW at \in DOMAIN m.insns, NEW t, t = Step(m, g, s, at),
         Runs(m), Getting(g), IsPass(s), IsOption(s.ret), AllFine(m, s)
  PROVE  StepGives(m, g, s, at, t) /\ IsOption(t.ret) /\ AllFine(m, t)
<1> DEFINE i == m.insns[at]
<1>1. StepGives(m, g, s, at, t)
  BY StepIs
<1>2. IsOption(t.ret) /\ \A l \in Range(t.ret) : Fine(m, l)
  <2>1. t.ret = RetAfter(m, g, s, at)
    BY <1>1 DEF StepGives
  <2>2. RetAfter(m, g, s, at) = CASE i[1] = "MoveResult" -> <<>> [] i[1] = "Invoke" -> Returned(g, s, i[2], i[3]) [] OTHER -> s.ret
    BY DEF RetAfter
  <2>3. CASE i[1] = "MoveResult"
    BY <2>1, <2>2, <2>3, OptionRange DEF IsOption
  <2>4. CASE i[1] = "Invoke"
    <3>1. IsPath(i[3]) /\ (i[2] \in DOMAIN Views => i[3] # <<>>)
      BY <2>4 DEF Runs, Library
    <3> QED
      BY <2>1, <2>2, <2>4, <3>1, FineReturned
  <2>5. CASE i[1] \notin {"MoveResult", "Invoke"}
    BY <2>1, <2>2, <2>5 DEF AllFine
  <2> QED
    BY <2>3, <2>4, <2>5
<1>3. ASSUME NEW r, NEW l \in Range(Known(t, r)) PROVE Fine(m, l)
  <2>1. Known(t, r) = IF r \in Rewritten(m, s, at) THEN Left(m, s, at, i) ELSE Known(s, r)
    BY <1>1 DEF StepGives
  <2>2. CASE r \in Rewritten(m, s, at)
    <3>1. i[1] \in Defines \/ Renames(s, i)
      BY <2>2 DEF Rewritten, Renamed
    <3> HIDE DEF i
    <3>2. i = m.insns[at]
      BY DEF i
    <3>3. \A k \in Range(Left(m, s, at, i)) : Fine(m, k)
      BY <3>1, <3>2, FineLeft
    <3> QED
      BY <1>3, <2>1, <2>2, <3>3
  <2>3. CASE r \notin Rewritten(m, s, at)
    BY <1>3, <2>1, <2>3 DEF AllFine
  <2> QED
    BY <2>2, <2>3
<1> QED
  BY <1>1, <1>2, <1>3 DEF AllFine

\* A pass over a method, instruction by instruction.
LEMMA PassHolds ==
  ASSUME NEW m, NEW g, Runs(m), Getting(g), NEW h, h = States(m, g)
  PROVE  /\ \A n \in 0 .. Len(m.insns) : PassIs(m, h, n)
         /\ \A n \in 1 .. Len(m.insns) : StepGives(m, g, h[n - 1], n, h[n])
<1> DEFINE N == Len(m.insns)
           Good == {n \in 0 .. N : PassIs(m, h, n)}
<1>0. N \in Nat /\ DOMAIN m.insns = 1 .. N
  BY DEF Runs, IsPath
<1>1. h[0] = Start(m) /\ \A n \in 1 .. N : h[n] = Step(m, g, h[n - 1], n)
  BY <1>0, StatesAre
<1>2. 0 \in Good
  <2>1. PassIs(m, h, 0)
    <3>1. 1 .. 0 = {}
      OBVIOUS
    <3>2. h[0].sites = {} /\ h[0].stores = {} /\ h[0].calls = {} /\ h[0].returns = {} /\ h[0].became = {}
      BY <1>1 DEF Start
    <3> QED
      BY <1>1, <3>1, <3>2, FineStart DEF PassIs
  <2> QED
    BY <1>0, <2>1
<1>3. ASSUME NEW n \in 0 .. N - 1, PassIs(m, h, n)
      PROVE  PassIs(m, h, n + 1) /\ StepGives(m, g, h[n], n + 1, h[n + 1])
  <2> DEFINE s == h[n]
             t == h[n + 1]
             at == n + 1
  <2>1. at \in 1 .. N /\ at - 1 = n /\ 1 .. at = (1 .. n) \cup {at}
    BY <1>0
  <2>2. t = Step(m, g, s, at)
    BY <1>1, <2>1
  <2> HIDE DEF t, s, N
  <2>3. StepGives(m, g, s, at, t) /\ IsOption(t.ret) /\ AllFine(m, t)
    BY <1>0, <1>3, <2>1, <2>2, FineStep DEF PassIs, s
  <2>4. /\ IsPass(t)
        /\ t.sites = s.sites \cup SitesAt(m, s, at)
        /\ t.stores = s.stores \cup StoresAt(m, s, at)
        /\ t.calls = s.calls \cup CallsAt(m, s, at)
        /\ t.returns = s.returns \cup ReturnsAt(m, s, at)
        /\ t.became = s.became \cup BecameAt(m, s, at)
        /\ t.allocated = AllocatedAfter(m, s, at)
    BY <2>3 DEF StepGives
  <2> HIDE DEF at
  <2>5. \A x : x \in t.sites <=> \E d \in 1 .. at : x \in SitesAt(m, h[d - 1], d)
    BY <1>3, <2>1, <2>4 DEF PassIs, s
  <2>6. \A x : x \in t.stores <=> \E d \in 1 .. at : x \in StoresAt(m, h[d - 1], d)
    BY <1>3, <2>1, <2>4 DEF PassIs, s
  <2>7. \A x : x \in t.calls <=> \E d \in 1 .. at : x \in CallsAt(m, h[d - 1], d)
    BY <1>3, <2>1, <2>4 DEF PassIs, s
  <2>8. \A x : x \in t.returns <=> \E d \in 1 .. at : x \in ReturnsAt(m, h[d - 1], d)
    BY <1>3, <2>1, <2>4 DEF PassIs, s
  <2>9. \A x : x \in t.became <=> \E d \in 1 .. at : x \in BecameAt(m, h[d - 1], d)
    BY <1>3, <2>1, <2>4 DEF PassIs, s
  <2>10. ASSUME NEW d \in 1 .. at, m.insns[d][1] = "NewInstance"
         PROVE  <<"Alloc", <<m.key, d>>>> \in DOMAIN t.allocated /\ t.allocated[<<"Alloc", <<m.key, d>>>>] = m.insns[d][3]
    <3> DEFINE a == <<"Alloc", <<m.key, d>>>>
               b == <<"Alloc", <<m.key, at>>>>
    <3>1. CASE d = at
      <4>1. t.allocated = Bind(s.allocated, b, m.insns[at][3])
        BY <2>4, <2>10, <3>1 DEF AllocatedAfter
      <4> HIDE DEF b
      <4>2. b \in DOMAIN t.allocated /\ t.allocated[b] = m.insns[at][3]
        BY <4>1 DEF Bind
      <4> QED
        BY <3>1, <4>2 DEF b
    <3>2. CASE d # at
      <4>1. d \in 1 .. n
        BY <2>1, <3>2
      <4>2. a \in DOMAIN s.allocated /\ s.allocated[a] = m.insns[d][3]
        BY <1>3, <2>10, <4>1 DEF PassIs, s
      <4>3. a # b
        BY <3>2
      <4>4. t.allocated = s.allocated \/ t.allocated = Bind(s.allocated, b, m.insns[at][3])
        BY <2>4 DEF AllocatedAfter
      <4> HIDE DEF a, b
      <4>5. a \in DOMAIN t.allocated /\ t.allocated[a] = m.insns[d][3]
        BY <4>2, <4>3, <4>4 DEF Bind
      <4> QED
        BY <4>5 DEF a
    <3> QED
      BY <3>1, <3>2
  <2>11. PassIs(m, h, at)
    BY <2>3, <2>4, <2>5, <2>6, <2>7, <2>8, <2>9, <2>10 DEF PassIs, t, at
  <2> QED
    BY <2>3, <2>11 DEF at, s, t
<1>4. 0 .. N \subseteq Good
  <2>1. ASSUME NEW n \in Good, n \in 0 .. N - 1 PROVE n + 1 \in Good
    BY <1>0, <1>3, <2>1
  <2> HIDE DEF Good
  <2> QED
    BY <1>0, <1>2, <2>1, IntervalInduction
<1>5. ASSUME NEW n \in 1 .. N PROVE StepGives(m, g, h[n - 1], n, h[n])
  <2>1. n - 1 \in 0 .. N - 1 /\ n - 1 \in 0 .. N /\ (n - 1) + 1 = n
    BY <1>0
  <2>2. PassIs(m, h, n - 1)
    BY <1>4, <2>1
  <2>3. StepGives(m, g, h[n - 1], (n - 1) + 1, h[(n - 1) + 1])
    BY <1>3, <2>1, <2>2
  <2> QED
    BY <2>1, <2>3
<1> QED
  BY <1>4, <1>5

-----------------------------------------------------------------------------
(***************************************************************************)
(* The instructions of a program, and what the pass noted of each of them. *)
(***************************************************************************)
\* The state of the pass over method k of program c after n instructions.
At(c, k, n) == States(c[k], Getters(c))[n]

-----------------------------------------------------------------------------
\* The cases of IsInsn that the proofs need.
LEMMA InsnIs ==
  ASSUME NEW c, IsCode(c), NEW k \in DOMAIN c, NEW at \in DOMAIN c[k].insns, NEW m, m = c[k], NEW i, i = m.insns[at]
  PROVE  /\ IsInsn(c, m, at)
         /\ i[1] = "Invoke" => i[3] \in Seq(0 .. m.registers - 1) /\ IsCallOf(c, i)
         /\ i[1] = "MoveResult" => at > 1 /\ m.insns[at - 1][1] = "Invoke"
         /\ i[1] \in {"Goto", "Branch"} => i[2] \in DOMAIN m.insns /\ m.insns[i[2]][1] # "MoveResult"
         /\ i[1] \in {"Iget", "Iput"} => IsFieldName(i[4])
         /\ i[1] \in {"Sget", "Sput"} => IsFieldName(i[3]) /\ i[3] \notin InstanceFields(c)
         /\ i[1] \in {"Sget", "Iget", "Iput", "Sput", "Move", "MoveResult", "ConstClass", "NewInstance", "Def", "Other", "Enter", "Exit"}
              => i[2] \in 0 .. m.registers - 1
         /\ i[1] \in {"Iget", "Iput", "Move"} => i[3] \in 0 .. m.registers - 1
         /\ i[1] = "Return" => Len(i) = 1 \/ i[2] \in 0 .. m.registers - 1
<1>1. IsInsn(c, m, at)
  BY DEF IsCode, IsMethod
<1> DEFINE Goal ==
         /\ i[1] = "Invoke" => i[3] \in Seq(0 .. m.registers - 1) /\ IsCallOf(c, i)
         /\ i[1] = "MoveResult" => at > 1 /\ m.insns[at - 1][1] = "Invoke"
         /\ i[1] \in {"Goto", "Branch"} => i[2] \in DOMAIN m.insns /\ m.insns[i[2]][1] # "MoveResult"
         /\ i[1] \in {"Iget", "Iput"} => IsFieldName(i[4])
         /\ i[1] \in {"Sget", "Sput"} => IsFieldName(i[3]) /\ i[3] \notin InstanceFields(c)
         /\ i[1] \in {"Sget", "Iget", "Iput", "Sput", "Move", "MoveResult", "ConstClass", "NewInstance", "Def", "Other", "Enter", "Exit"}
              => i[2] \in 0 .. m.registers - 1
         /\ i[1] \in {"Iget", "Iput", "Move"} => i[3] \in 0 .. m.registers - 1
         /\ i[1] = "Return" => Len(i) = 1 \/ i[2] \in 0 .. m.registers - 1
<1>2. CASE i[1] = "Sget"
  BY <1>1, <1>2 DEF IsInsn
<1>3. CASE i[1] = "Iget"
  BY <1>1, <1>3 DEF IsInsn
<1>4. CASE i[1] = "Iput"
  BY <1>1, <1>4 DEF IsInsn
<1>5. CASE i[1] = "Sput"
  BY <1>1, <1>5 DEF IsInsn
<1>6. CASE i[1] = "Move"
  BY <1>1, <1>6 DEF IsInsn
<1>7. CASE i[1] \in {"ConstClass", "NewInstance"}
  BY <1>1, <1>7 DEF IsInsn
<1>8. CASE i[1] \in {"Def", "Other", "Enter", "Exit"}
  BY <1>1, <1>8 DEF IsInsn
<1>9. CASE i[1] = "MoveResult"
  BY <1>1, <1>9 DEF IsInsn
<1>10. CASE i[1] = "Return"
  <2>1. i = <<"Return">> \/ (i = <<"Return", i[2]>> /\ i[2] \in 0 .. m.registers - 1)
    BY <1>1, <1>10 DEF IsInsn
  <2>2. Len(<<"Return">>) = 1
    OBVIOUS
  <2> QED
    BY <1>1, <1>10, <2>1, <2>2
<1>11. CASE i[1] = "Invoke"
  BY <1>1, <1>11 DEF IsInsn
<1>12. CASE i[1] \in {"Goto", "Branch"}
  BY <1>1, <1>12 DEF IsInsn
<1>13. CASE i[1] \notin {"Sget", "Iget", "Iput", "Sput", "Move", "ConstClass", "NewInstance", "Def", "Other", "Enter",
                         "Exit", "MoveResult", "Return", "Invoke", "Goto", "Branch"}
  BY <1>1, <1>13
<1>14. Goal
  BY <1>2, <1>3, <1>4, <1>5, <1>6, <1>7, <1>8, <1>9, <1>10, <1>11, <1>12, <1>13
<1> QED
  BY <1>1, <1>14

LEMMA CodeRuns ==
  ASSUME NEW c, IsCode(c), NEW k \in DOMAIN c
  PROVE  /\ Runs(c[k]) /\ c[k].key = k /\ c[k].class = ClassOf[k] /\ Len(c[k].types) = c[k].ins
         /\ Len(c[k].insns) \in Nat /\ DOMAIN c[k].insns = 1 .. Len(c[k].insns) /\ 1 \in DOMAIN c[k].insns
         /\ c[k].insns[Len(c[k].insns)][1] \in {"Return", "Goto"}
<1> DEFINE m == c[k]
<1>1. IsMethod(c, k)
  BY DEF IsCode
<1>2. /\ m = [key |-> k, class |-> ClassOf[k], static |-> m.static, registers |-> m.registers,
              ins |-> m.ins, types |-> m.types, insns |-> m.insns]
      /\ m.registers \in Nat /\ m.ins \in 0 .. m.registers /\ Len(m.types) = m.ins
      /\ m.insns \in Seq(Range(m.insns)) /\ Len(m.insns) > 0 /\ m.insns[Len(m.insns)][1] \in {"Return", "Goto"}
  BY <1>1 DEF IsMethod
<1>3. m.key = k /\ m.class = ClassOf[k]
  BY <1>2
<1>4. ASSUME NEW at \in DOMAIN m.insns, m.insns[at][1] = "Invoke"
      PROVE  IsPath(m.insns[at][3]) /\ (m.insns[at][2] \in Library => m.insns[at][3] # <<>>)
  <2> DEFINE i == m.insns[at]
  <2>1. i[3] \in Seq(0 .. m.registers - 1) /\ IsCallOf(c, i)
    BY <1>4, InsnIs
  <2> HIDE DEF i
  <2>2. Len(<<>>) = 0
    OBVIOUS
  <2>3. IsPath(i[3]) /\ (i[2] \in Library => i[3] # <<>>)
    BY <2>1, <2>2 DEF IsPath, IsCallOf
  <2> QED
    BY <2>3 DEF i
<1>5. IsPath(m.insns)
  BY <1>2 DEF IsPath
<1>6. Len(m.insns) \in Nat /\ DOMAIN m.insns = 1 .. Len(m.insns) /\ 1 \in DOMAIN m.insns
  BY <1>2
<1> HIDE DEF m
<1>7. Runs(m)
  BY <1>2, <1>4, <1>5 DEF Runs
<1> QED
  BY <1>2, <1>3, <1>6, <1>7 DEF m

LEMMA GettersAre ==
  ASSUME NEW c, IsCode(c)
  PROVE  Getting(Getters(c))
<1> SUFFICES ASSUME NEW k \in DOMAIN Getters(c)
             PROVE  Proper(Getters(c)[k]) /\ Kind(Getters(c)[k]) # "Alloc"
  BY DEF Getting
<1> DEFINE m == c[k]
           h == States(m, <<>>)
           N == Len(m.insns)
<1>1. k \in DOMAIN c /\ ReturnValue(m) # {} /\ Getters(c)[k] = (CHOOSE o \in ReturnValue(m) : TRUE)[1]
  BY DEF Getters
<1>2. PICK o \in ReturnValue(m) : Getters(c)[k] = o[1]
  BY <1>1
<1>3. o \in h[N].returns /\ HasRoot(o, {"This", "Param", "Recv", "Static", "ClassConst"})
  BY <1>2 DEF ReturnValue, Extracted
<1>4. Runs(m) /\ N \in Nat
  BY <1>1, CodeRuns
<1>5. Getting(<<>>)
  BY DEF Getting
<1> HIDE DEF m, h, N
<1>6. PassIs(m, h, N) /\ \A n \in 0 .. N : PassIs(m, h, n)
  BY <1>4, <1>5, PassHolds DEF h, N
<1>7. PICK d \in 1 .. N : o \in ReturnsAt(m, h[d - 1], d)
  BY <1>3, <1>6 DEF PassIs
<1>8. d - 1 \in 0 .. N
  BY <1>4
<1>9. AllFine(m, h[d - 1])
  BY <1>6, <1>8 DEF PassIs
<1>10. o = Result(h[d - 1], m.insns[d])
  BY <1>7 DEF ReturnsAt
<1>11. IsOption(o) /\ \A l \in Range(o) : Fine(m, l)
  BY <1>9, <1>10, KnownIsOption, OptionRange DEF Result, AllFine, IsOption
<1>12. o # <<>> /\ Kind(o[1]) # "Alloc"
  BY <1>3 DEF HasRoot
<1>13. o[1] \in Range(o)
  BY <1>11, <1>12, OptionRange DEF IsOption
<1> QED
  BY <1>2, <1>11, <1>12, <1>13 DEF Fine

LEMMA PassOfCode ==
  ASSUME NEW c, IsCode(c), NEW k \in DOMAIN c, NEW n \in 0 .. Len(c[k].insns)
  PROVE  /\ PassIs(c[k], States(c[k], Getters(c)), n)
         /\ At(c, k, 0) = Start(c[k])
         /\ n > 0 => StepGives(c[k], Getters(c), At(c, k, n - 1), n, At(c, k, n))
         /\ AllFine(c[k], At(c, k, n)) /\ IsOption(At(c, k, n).ret)
<1> DEFINE h == States(c[k], Getters(c))
           N == Len(c[k].insns)
<1>1. Runs(c[k]) /\ Getting(Getters(c)) /\ N \in Nat
  BY CodeRuns, GettersAre
<1> HIDE DEF N
<1>2. h[0] = Start(c[k])
  BY <1>1, StatesAre DEF N
<1> HIDE DEF h
<1>3. (\A b \in 0 .. N : PassIs(c[k], h, b)) /\ \A b \in 1 .. N : StepGives(c[k], Getters(c), h[b - 1], b, h[b])
  BY <1>1, PassHolds DEF h, N
<1>4. \A b : At(c, k, b) = h[b]
  BY DEF At, h
<1>5. PassIs(c[k], h, n) /\ (n > 0 => StepGives(c[k], Getters(c), h[n - 1], n, h[n]))
  BY <1>1, <1>3 DEF N
<1> QED
  BY <1>2, <1>4, <1>5 DEF PassIs, h
-----------------------------------------------------------------------------
\* What is found of a method, in terms of the states of its pass.
LEMMA SummaryIs ==
  ASSUME NEW c, IsCode(c), NEW k \in DOMAIN c, NEW m, m = c[k], NEW F, F = Summaries(c)[k], NEW N, N = Len(m.insns)
  PROVE  /\ \A x : x \in F.sites <=> \E d \in 1 .. N : x \in SitesAt(m, At(c, k, d - 1), d)
         /\ \A x : x \in F.stores <=> \E d \in 1 .. N : x \in StoresAt(m, At(c, k, d - 1), d)
         /\ \A x : x \in F.calls <=> \E d \in 1 .. N : x \in CallsAt(m, At(c, k, d - 1), d)
         /\ \A x : x \in F.returns <=> \E d \in 1 .. N : x \in ReturnsAt(m, At(c, k, d - 1), d)
         /\ \A x : x \in F.became <=> \E d \in 1 .. N : x \in BecameAt(m, At(c, k, d - 1), d)
         /\ \A d \in 1 .. N : m.insns[d][1] = "NewInstance" => F.allocated[<<"Alloc", <<k, d>>>>] = m.insns[d][3]
<1> DEFINE h == States(m, Getters(c))
<1>1. F = h[N]
  BY DEF Summaries, Extracted
<1>2. m.key = k /\ N \in Nat /\ N \in 0 .. Len(c[k].insns)
  BY CodeRuns
<1> HIDE DEF h
<1>3. PassIs(m, h, N)
  BY <1>2, PassOfCode DEF h
<1>4. \A b : At(c, k, b) = h[b]
  BY DEF At, h
<1> QED
  BY <1>1, <1>2, <1>3, <1>4 DEF PassIs

LEMMA SiteIs ==
  ASSUME NEW c, IsCode(c), NEW k \in DOMAIN c, NEW m, m = c[k], NEW at \in DOMAIN m.insns, IsSite(m.insns[at])
  PROVE  LET s == CHOOSE x \in Summaries(c)[k].sites : x.at = at
         IN  s \in Summaries(c)[k].sites /\ s.lock = LockOf(m, At(c, k, at - 1), at, Locked(m.insns[at]))
<1> DEFINE S == Summaries(c)[k].sites
           site == [at |-> at, lock |-> LockOf(m, At(c, k, at - 1), at, Locked(m.insns[at]))]
           Others(d) == [at |-> d, lock |-> LockOf(m, At(c, k, d - 1), d, Locked(m.insns[d]))]
<1>1. DOMAIN m.insns = 1 .. Len(m.insns)
  BY CodeRuns
<1>2. \A x : x \in S <=> \E d \in 1 .. Len(m.insns) : x \in SitesAt(m, At(c, k, d - 1), d)
  BY SummaryIs
<1> HIDE DEF S
<1>3. site \in S
  BY <1>1, <1>2 DEF SitesAt
<1>4. ASSUME NEW x \in S, x.at = at PROVE x = site
  <2>1. PICK d \in 1 .. Len(m.insns) : x \in SitesAt(m, At(c, k, d - 1), d)
    BY <1>2
  <2>2. x = Others(d)
    BY <2>1 DEF SitesAt
  <2>3. d = at
    BY <1>4, <2>2
  <2> QED
    BY <2>2, <2>3
<1>5. site.at = at /\ site.lock = LockOf(m, At(c, k, at - 1), at, Locked(m.insns[at]))
  OBVIOUS
<1> HIDE DEF site
<1>6. (CHOOSE x \in S : x.at = at) = site
  BY <1>3, <1>4, <1>5
<1> QED
  BY <1>3, <1>5, <1>6 DEF S

LEMMA StoreIs ==
  ASSUME NEW c, IsCode(c), NEW k \in DOMAIN c, NEW m, m = c[k], NEW at \in DOMAIN m.insns, m.insns[at][1] = "Iput"
  PROVE  LET s == CHOOSE x \in Summaries(c)[k].stores : x.at = at
         IN  s \in Summaries(c)[k].stores /\ s = StoreOf(At(c, k, at - 1), at, m.insns[at])
<1> DEFINE S == Summaries(c)[k].stores
           store == StoreOf(At(c, k, at - 1), at, m.insns[at])
           Others(d) == StoreOf(At(c, k, d - 1), d, m.insns[d])
<1>1. DOMAIN m.insns = 1 .. Len(m.insns)
  BY CodeRuns
<1>2. \A x : x \in S <=> \E d \in 1 .. Len(m.insns) : x \in StoresAt(m, At(c, k, d - 1), d)
  BY SummaryIs
<1> HIDE DEF S
<1>3. store \in S
  BY <1>1, <1>2 DEF StoresAt
<1>4. ASSUME NEW x \in S, x.at = at PROVE x = store
  <2>1. PICK d \in 1 .. Len(m.insns) : x \in StoresAt(m, At(c, k, d - 1), d)
    BY <1>2
  <2>2. x = Others(d)
    BY <2>1 DEF StoresAt
  <2>3. d = at
    BY <1>4, <2>2 DEF StoreOf
  <2> QED
    BY <2>2, <2>3
<1>5. store.at = at
  BY DEF StoreOf
<1> HIDE DEF store
<1>6. (CHOOSE x \in S : x.at = at) = store
  BY <1>3, <1>4, <1>5
<1> QED
  BY <1>3, <1>6 DEF S, store

LEMMA BecameIs ==
  ASSUME NEW c, IsCode(c), NEW k \in DOMAIN c, NEW at \in DOMAIN c[k].insns
  PROVE  at \in Summaries(c)[k].became <=> Renamed(c[k], At(c, k, at - 1), at)
<1> DEFINE m == c[k]
           S == Summaries(c)[k].became
<1>1. DOMAIN m.insns = 1 .. Len(m.insns)
  BY CodeRuns
<1>2. \A x : x \in S <=> \E d \in 1 .. Len(m.insns) : x \in BecameAt(m, At(c, k, d - 1), d)
  BY SummaryIs
<1> HIDE DEF S
<1> QED
  BY <1>1, <1>2 DEF BecameAt, S
-----------------------------------------------------------------------------
\* The registers that instruction d changes the meaning of, and where the pass saw one change last.
Changes(c, k, d) == Rewritten(c[k], At(c, k, d - 1), d)

SeenLast(c, k, at, r) == Max({0} \cup {d \in 1 .. at - 1 : r \in Changes(c, k, d)})

LEMMA RewritesAre ==
  ASSUME IsCode(code), found = Summaries(code), NEW k \in DOMAIN code, NEW at \in DOMAIN code[k].insns
  PROVE  Rewrites(k, at) = Changes(code, k, at)
<1>1. at \in found[k].became <=> Renamed(code[k], At(code, k, at - 1), at)
  BY BecameIs
<1> QED
  BY <1>1 DEF Rewrites, Changes, Rewritten

LEMMA LastSeenIs ==
  ASSUME IsCode(code), found = Summaries(code), NEW k \in DOMAIN code, NEW at \in DOMAIN code[k].insns, NEW r
  PROVE  LastSeen(k, at, r) = SeenLast(code, k, at, r)
<1>1. \A d \in 1 .. at - 1 : d \in DOMAIN code[k].insns
  BY CodeRuns
<1>2. \A d \in 1 .. at - 1 : Rewrites(k, d) = Changes(code, k, d)
  BY <1>1, RewritesAre
<1>3. {d \in 1 .. at - 1 : r \in Rewrites(k, d)} = {d \in 1 .. at - 1 : r \in Changes(code, k, d)}
  BY <1>2
<1> QED
  BY <1>3 DEF LastSeen, SeenLast

\* A register means what it was given where it was seen to change last.
LEMMA SeenLastIs ==
  ASSUME NEW c, IsCode(c), NEW k \in DOMAIN c, NEW at \in DOMAIN c[k].insns, NEW r
  PROVE  LET d == SeenLast(c, k, at, r)
         IN  /\ d \in 0 .. at - 1 /\ (d = 0 \/ r \in Changes(c, k, d))
             /\ Known(At(c, k, at - 1), r) = Known(At(c, k, d), r)
<1> DEFINE D == {0} \cup {b \in 1 .. at - 1 : r \in Changes(c, k, b)}
           d == Max(D)
           N == Len(c[k].insns)
<1>1. N \in Nat /\ at \in 1 .. N
  BY CodeRuns
<1>2. D \subseteq 0 .. at - 1 /\ D # {} /\ D \subseteq Nat
  BY <1>1
<1>3. IsFiniteSet(D)
  <2>1. IsFiniteSet(0 .. at - 1)
    BY <1>1, FS_Interval
  <2> HIDE DEF D
  <2> QED
    BY <1>2, <2>1, FS_Subset
<1>4. d \in D /\ \A y \in D : y <= d
  <2> HIDE DEF D
  <2> QED
    BY <1>2, <1>3, GreatestIsGreatest
<1>5. d \in 0 .. at - 1 /\ (d = 0 \/ r \in Changes(c, k, d))
  BY <1>2, <1>4
<1> HIDE DEF d
<1>6. ASSUME NEW b \in d + 1 .. at - 1 PROVE r \notin Changes(c, k, b)
  BY <1>1, <1>4, <1>5, <1>6
<1> HIDE DEF D
<1> DEFINE Good == {b \in d .. at - 1 : Known(At(c, k, b), r) = Known(At(c, k, d), r)}
<1>7. d \in Good
  BY <1>1, <1>5
<1>8. ASSUME NEW b \in Good, b \in d .. (at - 1) - 1 PROVE b + 1 \in Good
  <2>1. b + 1 \in d + 1 .. at - 1 /\ b + 1 \in 0 .. N /\ b + 1 > 0 /\ (b + 1) - 1 = b
    BY <1>1, <1>5, <1>8
  <2>2. StepGives(c[k], Getters(c), At(c, k, b), b + 1, At(c, k, b + 1))
    BY <2>1, PassOfCode
  <2>3. r \notin Rewritten(c[k], At(c, k, b), b + 1)
    BY <1>6, <2>1 DEF Changes
  <2>4. Known(At(c, k, b + 1), r) = Known(At(c, k, b), r)
    BY <2>2, <2>3 DEF StepGives
  <2> QED
    BY <1>1, <1>5, <1>8, <2>1, <2>4
<1>9. d .. at - 1 \subseteq Good
  <2>1. d \in Nat /\ at - 1 \in Nat
    BY <1>1, <1>5
  <2> HIDE DEF Good
  <2> QED
    BY <1>7, <1>8, <2>1, IntervalInduction
<1>10. at - 1 \in Good
  BY <1>1, <1>5, <1>9
<1> QED
  BY <1>5, <1>10 DEF d, D, SeenLast

-----------------------------------------------------------------------------
(***************************************************************************)
(* The methods under way, and when what the pass made of them is true.     *)
(***************************************************************************)
\* What a register holds.
IsVal(O, o) == o = <<>> \/ (o = <<o[1]>> /\ o[1] \in O \X Modes)

FrameOK(c, O, fr) ==
  LET n == c[fr.key].registers
  IN  /\ fr.key \in DOMAIN c /\ fr.at \in DOMAIN c[fr.key].insns
      /\ fr = [key |-> fr.key, at |-> fr.at, ret |-> fr.ret, from |-> fr.from, regs |-> fr.regs]
      /\ fr.regs = [r \in 0 .. n - 1 |-> fr.regs[r]]
      /\ fr.from = [r \in 0 .. n - 1 |-> fr.from[r]]
      /\ IsVal(O, fr.ret)
      /\ \A r \in 0 .. n - 1 : IsVal(O, fr.regs[r])

\* The call that a frame below another is in, and what it passes.
CallIn(c, fr) == c[fr.key].insns[fr.at - 1]

ArgsTo(c, fr) == [j \in DOMAIN CallIn(c, fr)[3] |-> fr.regs[CallIn(c, fr)[3][j]]]

Args(c, fs, n) == IF n = 1 THEN <<>> ELSE ArgsTo(c, fs[n - 1])

ArgsOK(c, O, args, key) ==
  LET m == c[key]
  IN  /\ \A i : IsVal(O, ArgOrNone(args, i))
      /\ HasReceiver(m) => \A v \in Range(ArgOrNone(args, 0)) : Typed(v, m.class)
      /\ \A j \in 1 .. m.ins : \A v \in Range(ArgOrNone(args, j - 1)), T \in Range(m.types[j]) : Typed(v, T)

InCall(c, O, fr, key) ==
  /\ fr.at - 1 \in DOMAIN c[fr.key].insns
  /\ CallIn(c, fr)[1] = "Invoke" /\ CallIn(c, fr)[2] = key
  /\ fr.ret = <<>>
  /\ ArgsOK(c, O, ArgsTo(c, fr), key)

FramesOK(c, O, fs) ==
  /\ IsPath(fs)
  /\ \A n \in 1 .. Len(fs) : FrameOK(c, O, fs[n])
  /\ Len(fs) > 0 => fs[1].key = "main"
  /\ \A n \in 1 .. Len(fs) - 1 : InCall(c, O, fs[n], fs[n + 1].key)

-----------------------------------------------------------------------------
\* A register that was written where the pass gave it a meaning holds what it means.
Believed(c, P, O, args, fr) ==
  \A r \in 0 .. c[fr.key].registers - 1 :
    LET d == fr.from[r]
    IN  d \in 0 .. Len(c[fr.key].insns) /\ (d = 0 \/ r \in Changes(c, fr.key, d)) =>
          \A v \in Range(fr.regs[r]) : \A l \in Range(Known(At(c, fr.key, d), r)) : Means(P, O, args, v, l)

\* So does the result of a call that is about to be moved.
RetBelieved(c, P, O, args, fr) ==
  c[fr.key].insns[fr.at][1] = "MoveResult" =>
    \A v \in Range(fr.ret) : \A l \in Range(At(c, fr.key, fr.at - 1).ret) : Means(P, O, args, v, l)

\* A method under way is called with what the formals are bound to.
BoundRight(c, g, P, O, args, key) ==
  \A j \in 0 .. c[key].ins - 1 :
    /\ g[<<key, j>>] # <<"Bottom">>
    /\ \A l : g[<<key, j>>] = <<"Val", l>> => \A x \in Range(ArgOrNone(args, j)) : Means(P, O, <<>>, x, l)

FrameTrue(c, g, P, O, args, fr) ==
  /\ Believed(c, P, O, args, fr)
  /\ RetBelieved(c, P, O, args, fr)
  /\ BoundRight(c, g, P, O, args, fr.key)

\* The arguments of a call were read where the pass saw them change last.
Fresh(c, fr) == \A r \in Range(CallIn(c, fr)[3]) : fr.from[r] = SeenLast(c, fr.key, fr.at - 1, r)

FramesTrue(c, g, P, O, fs) ==
  /\ \A n \in 1 .. Len(fs) : FrameTrue(c, g, P, O, Args(c, fs, n), fs[n])
  /\ \A n \in 1 .. Len(fs) - 1 : Fresh(c, fs[n])

-----------------------------------------------------------------------------
LEMMA ValGrows ==
  ASSUME NEW O, NEW N, O \subseteq N, NEW o, IsVal(O, o)
  PROVE  IsVal(N, o)
BY DEF IsVal

LEMMA ArgsGrow ==
  ASSUME NEW c, NEW O, NEW N, O \subseteq N, NEW args, NEW key, ArgsOK(c, O, args, key)
  PROVE  ArgsOK(c, N, args, key)
BY ValGrows DEF ArgsOK

LEMMA FrameGrows ==
  ASSUME NEW c, NEW O, NEW N, O \subseteq N, NEW fr, FrameOK(c, O, fr)
  PROVE  FrameOK(c, N, fr)
BY ValGrows DEF FrameOK

LEMMA TruthGrows ==
  ASSUME NEW c, NEW g, NEW P, NEW Q, NEW O, NEW N, NEW args, NEW fr, P \subseteq Q, O \subseteq N, FrameTrue(c, g, P, O, args, fr)
  PROVE  FrameTrue(c, g, Q, N, args, fr)
<1>1. Believed(c, Q, N, args, fr)
  BY MeansGrows DEF FrameTrue, Believed
<1>2. RetBelieved(c, Q, N, args, fr)
  BY MeansGrows DEF FrameTrue, RetBelieved
<1>3. BoundRight(c, g, Q, N, args, fr.key)
  BY MeansGrows DEF FrameTrue, BoundRight
<1> QED
  BY <1>1, <1>2, <1>3 DEF FrameTrue

LEMMA ArgsAre ==
  ASSUME NEW c, IsCode(c), NEW O, NEW fs, FramesOK(c, O, fs), NEW n \in 1 .. Len(fs)
  PROVE  ArgsOK(c, O, Args(c, fs, n), fs[n].key)
<1>1. CASE n = 1
  <2>1. Args(c, fs, n) = <<>> /\ fs[n].key = "main"
    BY <1>1 DEF Args, FramesOK, IsPath
  <2>2. \A i : ArgOrNone(<<>>, i) = <<>>
    BY DEF ArgOrNone
  <2>3. c["main"].ins = 0 /\ ~ HasReceiver(c["main"])
    BY DEF IsCode, HasReceiver
  <2> QED
    BY <2>1, <2>2, <2>3 DEF ArgsOK, IsVal
<1>2. CASE n # 1
  <2>1. n - 1 \in 1 .. Len(fs) - 1 /\ (n - 1) + 1 = n
    BY <1>2 DEF FramesOK, IsPath
  <2>2. InCall(c, O, fs[n - 1], fs[n].key)
    BY <2>1 DEF FramesOK
  <2> QED
    BY <1>2, <2>2 DEF Args, InCall
<1> QED
  BY <1>1, <1>2

-----------------------------------------------------------------------------
\* The innermost of frames fs is fr in gs.
Topped(c, fs, gs, fr) ==
  /\ Len(fs) \in Nat /\ Len(gs) = Len(fs) /\ Len(fs) \in 1 .. Len(fs) /\ gs[Len(fs)] = fr
  /\ \A n \in 1 .. Len(fs) : n # Len(fs) => gs[n] = fs[n]
  /\ \A n \in 1 .. Len(fs) : Args(c, gs, n) = Args(c, fs, n)

\* The innermost frame moves on.
LEMMA TopMoves ==
  ASSUME NEW c, NEW O, NEW N, O \subseteq N, NEW fs, FramesOK(c, O, fs), fs # <<>>,
         NEW fr, FrameOK(c, N, fr), fr.key = fs[Len(fs)].key, NEW gs, gs = [fs EXCEPT ![Len(fs)] = fr]
  PROVE  FramesOK(c, N, gs) /\ Topped(c, fs, gs, fr)
<1> DEFINE L == Len(fs)
<1>1. PICK S : fs \in Seq(S)
  BY DEF FramesOK, IsPath
<1>2. L \in Nat /\ L > 0 /\ DOMAIN fs = 1 .. L
  BY <1>1
<1>3. gs \in Seq(S \cup {fr}) /\ Len(gs) = L
  <2>1. fs \in Seq(S \cup {fr})
    BY <1>1
  <2> QED
    BY <1>2, <2>1
<1>a. gs = [fs EXCEPT ![L] = fr]
  OBVIOUS
<1> HIDE DEF L
<1>4. gs[L] = fr /\ \A n \in 1 .. L : n # L => gs[n] = fs[n]
  BY <1>a, <1>2
<1>5. \A n \in 1 .. L : gs[n].key = fs[n].key
  BY <1>4 DEF L
<1>6. \A n \in 1 .. L : FrameOK(c, N, gs[n])
  BY <1>4, FrameGrows DEF FramesOK, L
<1>7. ASSUME NEW n \in 1 .. L - 1 PROVE InCall(c, N, gs[n], gs[n + 1].key)
  <2>1. n \in 1 .. L /\ n + 1 \in 1 .. L /\ n # L
    BY <1>2
  <2>2. gs[n] = fs[n] /\ gs[n + 1].key = fs[n + 1].key
    BY <1>4, <1>5, <2>1
  <2>3. InCall(c, O, fs[n], fs[n + 1].key)
    BY DEF FramesOK, L
  <2> QED
    BY <2>2, <2>3, ArgsGrow DEF InCall
<1>8. FramesOK(c, N, gs)
  <2>1. 1 \in 1 .. L
    BY <1>2
  <2> QED
    BY <1>2, <1>3, <1>5, <1>6, <1>7, <2>1 DEF FramesOK, IsPath, L
<1>9. ASSUME NEW n \in 1 .. L PROVE Args(c, gs, n) = Args(c, fs, n)
  <2>1. CASE n = 1
    BY <2>1 DEF Args
  <2>2. CASE n # 1
    <3>1. n - 1 \in 1 .. L /\ n - 1 # L
      BY <1>2, <2>2
    <3>2. gs[n - 1] = fs[n - 1]
      BY <1>4, <3>1
    <3> QED
      BY <3>2 DEF Args
  <2> QED
    BY <2>1, <2>2
<1>10. L \in 1 .. L
  BY <1>2
<1>11. Topped(c, fs, gs, fr)
  BY <1>2, <1>3, <1>4, <1>9, <1>10 DEF L, Topped
<1> QED
  BY <1>8, <1>11

LEMMA TopMovesTruly ==
  ASSUME NEW c, NEW g, NEW P, NEW Q, P \subseteq Q, NEW O, NEW N, O \subseteq N, NEW fs, FramesOK(c, O, fs), fs # <<>>,
         NEW fr, FrameOK(c, N, fr), fr.key = fs[Len(fs)].key, NEW gs, gs = [fs EXCEPT ![Len(fs)] = fr],
         FramesTrue(c, g, P, O, fs), FrameTrue(c, g, Q, N, Args(c, fs, Len(fs)), fr)
  PROVE  FramesTrue(c, g, Q, N, gs)
<1>1. Topped(c, fs, gs, fr)
  BY TopMoves
<1>2. \A n \in 1 .. Len(gs) : FrameTrue(c, g, Q, N, Args(c, gs, n), gs[n])
  BY <1>1, TruthGrows DEF FramesTrue, Topped
<1>3. \A n \in 1 .. Len(gs) - 1 : n \in 1 .. Len(fs) /\ n # Len(fs)
  <2>1. Len(gs) = Len(fs) /\ Len(fs) \in Nat
    BY <1>1 DEF Topped
  <2>2. \A a \in Nat : \A n \in 1 .. a - 1 : n \in 1 .. a /\ n # a
    OBVIOUS
  <2> QED
    BY <2>1, <2>2, Zenon
<1> QED
  BY <1>1, <1>2, <1>3 DEF FramesTrue, Topped

-----------------------------------------------------------------------------
(***************************************************************************)
(* A method is called, and returns.                                        *)
(***************************************************************************)
\* Frame fr lies on frames fs in gs.
Pushed(c, fs, gs, fr) ==
  /\ Len(fs) \in Nat /\ Len(fs) \in 1 .. Len(fs) /\ Len(gs) = Len(fs) + 1 /\ gs[Len(fs) + 1] = fr
  /\ \A n \in 1 .. Len(fs) : gs[n] = fs[n] /\ Args(c, gs, n) = Args(c, fs, n)
  /\ Args(c, gs, Len(fs) + 1) = ArgsTo(c, fs[Len(fs)])

\* Frames gs are all of fs but the innermost.
Popped(c, O, fs, gs) ==
  /\ Len(fs) \in 1 .. Len(fs) /\ Len(gs) = Len(fs) - 1 /\ Len(fs) \in Nat
  /\ \A n \in 1 .. Len(fs) - 1 : gs[n] = fs[n] /\ Args(c, gs, n) = Args(c, fs, n)
  /\ gs # <<>> => /\ Args(c, fs, Len(fs)) = ArgsTo(c, fs[Len(fs) - 1]) /\ Len(fs) - 1 \in 1 .. Len(fs) - 1
                  /\ InCall(c, O, fs[Len(fs) - 1], fs[Len(fs)].key)

LEMMA PushKeeps ==
  ASSUME NEW c, NEW O, NEW fs, FramesOK(c, O, fs), fs # <<>>, NEW fr, FrameOK(c, O, fr),
         InCall(c, O, fs[Len(fs)], fr.key), NEW gs, gs = Append(fs, fr)
  PROVE  FramesOK(c, O, gs) /\ Pushed(c, fs, gs, fr)
<1> DEFINE L == Len(fs)
<1>1. PICK S : fs \in Seq(S)
  BY DEF FramesOK, IsPath
<1>2. L \in Nat /\ L > 0 /\ L \in 1 .. L /\ L + 1 # 1 /\ (L + 1) - 1 = L /\ 1 .. L + 1 = (1 .. L) \cup {L + 1}
  BY <1>1
<1>3. gs \in Seq(S \cup {fr}) /\ Len(gs) = L + 1 /\ gs[L + 1] = fr /\ \A n \in 1 .. L : gs[n] = fs[n]
  BY <1>1
<1> HIDE DEF L
<1>4. IsPath(gs)
  BY <1>3 DEF IsPath
<1>5. \A n \in 1 .. L + 1 : FrameOK(c, O, gs[n])
  BY <1>2, <1>3 DEF FramesOK, L
<1>6. gs[1].key = "main"
  <2>1. 1 \in 1 .. L
    BY <1>2
  <2>2. fs[1].key = "main"
    BY <1>2 DEF FramesOK, L
  <2> QED
    BY <1>3, <2>1, <2>2
<1>7. ASSUME NEW n \in 1 .. (L + 1) - 1 PROVE InCall(c, O, gs[n], gs[n + 1].key)
  <2>1. CASE n = L
    BY <1>2, <1>3, <2>1 DEF L
  <2>2. CASE n # L
    <3>1. n \in 1 .. L - 1 /\ n \in 1 .. L /\ n + 1 \in 1 .. L
      BY <1>2, <2>2
    <3>2. InCall(c, O, fs[n], fs[n + 1].key)
      BY <3>1 DEF FramesOK, L
    <3> QED
      BY <1>3, <3>1, <3>2
  <2> QED
    BY <2>1, <2>2
<1>8. FramesOK(c, O, gs)
  BY <1>3, <1>4, <1>5, <1>6, <1>7 DEF FramesOK
<1>9. ASSUME NEW n \in 1 .. L PROVE Args(c, gs, n) = Args(c, fs, n)
  <2>1. CASE n = 1
    BY <2>1 DEF Args
  <2>2. CASE n # 1
    <3>1. n - 1 \in 1 .. L
      BY <1>2, <2>2
    <3> QED
      BY <1>3, <2>2, <3>1 DEF Args
  <2> QED
    BY <2>1, <2>2
<1>10. Args(c, gs, L + 1) = ArgsTo(c, fs[L])
  BY <1>2, <1>3 DEF Args
<1> QED
  BY <1>2, <1>3, <1>8, <1>9, <1>10 DEF L, Pushed

LEMMA PushKeepsTruth ==
  ASSUME NEW c, NEW g, NEW P, NEW O, NEW fs, FramesOK(c, O, fs), fs # <<>>, NEW fr, FrameOK(c, O, fr),
         NEW gs, Pushed(c, fs, gs, fr),
         FramesTrue(c, g, P, O, fs), Fresh(c, fs[Len(fs)]), FrameTrue(c, g, P, O, ArgsTo(c, fs[Len(fs)]), fr)
  PROVE  FramesTrue(c, g, P, O, gs)
<1> DEFINE L == Len(fs)
           M == Len(gs)
<1>1. /\ L \in Nat /\ M = L + 1 /\ gs[L + 1] = fr
      /\ \A n \in 1 .. L : gs[n] = fs[n] /\ Args(c, gs, n) = Args(c, fs, n)
      /\ Args(c, gs, L + 1) = ArgsTo(c, fs[L])
  BY DEF Pushed
<1> HIDE DEF L, M
<1>2. 1 .. M = (1 .. L) \cup {L + 1} /\ \A n \in 1 .. M - 1 : n \in 1 .. L /\ (n # L => n \in 1 .. L - 1)
  BY <1>1
<1>3. \A n \in 1 .. M : FrameTrue(c, g, P, O, Args(c, gs, n), gs[n])
  BY <1>1, <1>2 DEF FramesTrue, L
<1>4. \A n \in 1 .. M - 1 : Fresh(c, gs[n])
  BY <1>1, <1>2 DEF FramesTrue, L
<1> QED
  BY <1>3, <1>4 DEF FramesTrue, M

LEMMA PopKeeps ==
  ASSUME NEW c, NEW O, NEW fs, FramesOK(c, O, fs), fs # <<>>, NEW gs, gs = Front(fs)
  PROVE  FramesOK(c, O, gs) /\ Popped(c, O, fs, gs)
<1> DEFINE L == Len(fs)
<1>1. PICK S : fs \in Seq(S)
  BY DEF FramesOK, IsPath
<1>2. L \in Nat /\ L > 0 /\ L \in 1 .. L /\ L - 1 \in Nat
  BY <1>1
<1>3. gs \in Seq(S) /\ Len(gs) = L - 1 /\ \A n \in 1 .. L - 1 : gs[n] = fs[n]
  <2>1. gs = [n \in 1 .. L - 1 |-> fs[n]]
    BY <1>1, <1>2 DEF Front
  <2>2. \A n \in 1 .. L - 1 : fs[n] \in S
    BY <1>1, <1>2
  <2> HIDE DEF L
  <2> QED
    BY <1>2, <2>1, <2>2
<1>4. \A n \in 1 .. L - 1 : n \in 1 .. L /\ n - 1 \in 0 .. L - 1 /\ (n # 1 => n - 1 \in 1 .. L - 1)
  BY <1>2
<1> HIDE DEF L
<1>5. \A n \in 1 .. L - 1 : FrameOK(c, O, gs[n])
  BY <1>3, <1>4 DEF FramesOK, L
<1>6. Len(gs) > 0 => gs[1].key = "main"
  <2>1. Len(gs) > 0 => 1 \in 1 .. L - 1
    BY <1>2, <1>3
  <2> QED
    BY <1>2, <1>3, <2>1 DEF FramesOK, L
<1>7. ASSUME NEW n \in 1 .. (L - 1) - 1 PROVE InCall(c, O, gs[n], gs[n + 1].key)
  <2>1. n \in 1 .. L - 1 /\ n + 1 \in 1 .. L - 1
    BY <1>2
  <2> QED
    BY <1>3, <2>1 DEF FramesOK, L
<1>8. FramesOK(c, O, gs)
  BY <1>3, <1>5, <1>6, <1>7 DEF FramesOK, IsPath
<1>9. \A n \in 1 .. L - 1 : Args(c, gs, n) = Args(c, fs, n)
  BY <1>3, <1>4 DEF Args
<1>10. ASSUME gs # <<>> PROVE Args(c, fs, L) = ArgsTo(c, fs[L - 1]) /\ L - 1 \in 1 .. L - 1 /\ InCall(c, O, fs[L - 1], fs[L].key)
  <2>1. L # 1 /\ L - 1 \in 1 .. L - 1 /\ (L - 1) + 1 = L
    BY <1>2, <1>3, <1>10
  <2>2. Args(c, fs, L) = ArgsTo(c, fs[L - 1])
    BY <2>1 DEF Args
  <2>3. \A n \in 1 .. L - 1 : InCall(c, O, fs[n], fs[n + 1].key)
    BY DEF FramesOK, L
  <2>4. InCall(c, O, fs[L - 1], fs[(L - 1) + 1].key)
    BY <2>1, <2>3
  <2> QED
    BY <2>1, <2>2, <2>4
<1> QED
  BY <1>2, <1>3, <1>8, <1>9, <1>10 DEF L, Popped

LEMMA PopKeepsTruth ==
  ASSUME NEW c, NEW g, NEW P, NEW O, NEW fs, NEW gs, Popped(c, O, fs, gs), FramesTrue(c, g, P, O, fs)
  PROVE  FramesTrue(c, g, P, O, gs)
<1> DEFINE L == Len(fs)
           M == Len(gs)
<1>1. L \in Nat /\ M = L - 1 /\ \A n \in 1 .. L - 1 : gs[n] = fs[n] /\ Args(c, gs, n) = Args(c, fs, n)
  BY DEF Popped
<1> HIDE DEF L, M
<1>2. \A n \in 1 .. M : n \in 1 .. L - 1 /\ n \in 1 .. L
  BY <1>1
<1>3. \A n \in 1 .. M - 1 : n \in 1 .. L - 1
  BY <1>1
<1>4. \A n \in 1 .. M : FrameTrue(c, g, P, O, Args(c, gs, n), gs[n])
  BY <1>1, <1>2 DEF FramesTrue, L
<1>5. \A n \in 1 .. M - 1 : Fresh(c, gs[n])
  BY <1>1, <1>3 DEF FramesTrue, L
<1> QED
  BY <1>4, <1>5 DEF FramesTrue, M

-----------------------------------------------------------------------------
(***************************************************************************)
(* One instruction behind another.                                         *)
(***************************************************************************)
\* Execution goes on behind every instruction that does not leave for good,
\* and comes to the result of a call only from the call.
LEMMA NextInsn ==
  ASSUME NEW c, IsCode(c), NEW k \in DOMAIN c, NEW at \in DOMAIN c[k].insns, c[k].insns[at][1] \notin {"Return", "Goto"}
  PROVE  /\ at \in Nat /\ at + 1 \in DOMAIN c[k].insns
         /\ c[k].insns[at][1] # "Invoke" => c[k].insns[at + 1][1] # "MoveResult"
<1> DEFINE N == Len(c[k].insns)
<1>1. N \in Nat /\ DOMAIN c[k].insns = 1 .. N /\ c[k].insns[N][1] \in {"Return", "Goto"}
  BY CodeRuns
<1> HIDE DEF N
<1>2. at # N
  BY <1>1
<1>3. at \in Nat /\ at + 1 \in DOMAIN c[k].insns /\ (at + 1) - 1 = at
  BY <1>1, <1>2
<1>4. ASSUME c[k].insns[at + 1][1] = "MoveResult" PROVE c[k].insns[at][1] = "Invoke"
  <2> DEFINE b == at + 1
  <2>1. b \in DOMAIN c[k].insns /\ b - 1 = at
    BY <1>3
  <2> HIDE DEF b
  <2>2. c[k].insns[b][1] = "MoveResult" => c[k].insns[b - 1][1] = "Invoke"
    BY <2>1, InsnIs
  <2> QED
    BY <1>4, <2>1, <2>2 DEF b
<1> QED
  BY <1>3, <1>4

\* What is read from a register that the pass saw change last where it was written.
LEMMA ReadMeans ==
  ASSUME NEW c, IsCode(c), NEW P, NEW O, NEW args, NEW fr, fr.key \in DOMAIN c, Believed(c, P, O, args, fr),
         NEW at \in DOMAIN c[fr.key].insns, NEW r \in 0 .. c[fr.key].registers - 1, fr.from[r] = SeenLast(c, fr.key, at, r),
         NEW v \in Range(fr.regs[r]), NEW l \in Range(Known(At(c, fr.key, at - 1), r))
  PROVE  Means(P, O, args, v, l)
<1> DEFINE d == fr.from[r]
           N == Len(c[fr.key].insns)
<1>1. /\ d \in 0 .. at - 1 /\ (d = 0 \/ r \in Changes(c, fr.key, d))
      /\ Known(At(c, fr.key, at - 1), r) = Known(At(c, fr.key, d), r)
  BY SeenLastIs
<1>2. N \in Nat /\ at \in 1 .. N
  BY CodeRuns
<1> HIDE DEF d
<1>3. d \in 0 .. N
  BY <1>1, <1>2
<1> QED
  BY <1>1, <1>3 DEF Believed, d, N

\* Frame fr past its instruction, which gave register r0 the value o.
Wrote(fr, r0, o) == [[fr EXCEPT !.regs[r0] = o, !.from[r0] = fr.at] EXCEPT !.at = @ + 1]

Parts(key, at, ret, from, regs) == [key |-> key, at |-> at, ret |-> ret, from |-> from, regs |-> regs]

With(f, x, v) == [f EXCEPT ![x] = v]

LEMMA WroteIs ==
  ASSUME NEW key, NEW at, NEW ret, NEW from, NEW regs, NEW r0, NEW o
  PROVE  Wrote(Parts(key, at, ret, from, regs), r0, o) =
           Parts(key, at + 1, ret, With(from, r0, at), With(regs, r0, o))
<1> DEFINE R(a, w, s) == [key |-> key, at |-> a, ret |-> ret, from |-> w, regs |-> s]
           fr == R(at, from, regs)
<1>1. [fr EXCEPT !.regs[r0] = o] = R(at, from, [regs EXCEPT ![r0] = o])
  OBVIOUS
<1>2. \A s : [R(at, from, s) EXCEPT !.from[r0] = at] = R(at, [from EXCEPT ![r0] = at], s)
  OBVIOUS
<1>3. \A w, s : [R(at, w, s) EXCEPT !.at = @ + 1] = R(at + 1, w, s)
  OBVIOUS
<1>4. fr.at = at
  OBVIOUS
<1> HIDE DEF fr, R
<1>5. Wrote(fr, r0, o) = [[[fr EXCEPT !.regs[r0] = o] EXCEPT !.from[r0] = at] EXCEPT !.at = @ + 1]
  BY <1>4 DEF Wrote
<1> DEFINE s == [regs EXCEPT ![r0] = o]
           w == [from EXCEPT ![r0] = at]
<1>6. [fr EXCEPT !.regs[r0] = o] = R(at, from, s)
  BY <1>1
<1>7. [R(at, from, s) EXCEPT !.from[r0] = at] = R(at, w, s)
  BY <1>2
<1> HIDE DEF s, w
<1>8. [R(at, w, s) EXCEPT !.at = @ + 1] = R(at + 1, w, s)
  BY <1>3
<1>9. Wrote(fr, r0, o) = [[R(at, from, s) EXCEPT !.from[r0] = at] EXCEPT !.at = @ + 1]
  BY <1>5, <1>6
<1>10. Wrote(fr, r0, o) = R(at + 1, w, s)
  BY <1>7, <1>8, <1>9
<1> QED
  BY <1>10 DEF fr, R, w, s, Parts, With

\* Frame h is fr past its instruction.
WentOn(c, N, fr, h, r0, o) ==
  /\ FrameOK(c, N, h) /\ h.key = fr.key /\ h.at = fr.at + 1 /\ h.ret = fr.ret
  /\ h.regs = With(fr.regs, r0, o) /\ h.from = With(fr.from, r0, fr.at)

\* What is moved out of an instruction into register r0, which changes there.
LEMMA WriteKeeps ==
  ASSUME NEW c, IsCode(c), NEW O, NEW N, O \subseteq N, NEW fr, FrameOK(c, O, fr),
         c[fr.key].insns[fr.at][1] \notin {"Return", "Goto"},
         NEW r0 \in 0 .. c[fr.key].registers - 1, NEW o, IsVal(N, o)
  PROVE  WentOn(c, N, fr, Wrote(fr, r0, o), r0, o)
<1> DEFINE regs == With(fr.regs, r0, o)
           from == With(fr.from, r0, fr.at)
           n == c[fr.key].registers
           h == Wrote(fr, r0, o)
<1>1. h = [key |-> fr.key, at |-> fr.at + 1, ret |-> fr.ret, from |-> from, regs |-> regs]
  <2>1. fr = Parts(fr.key, fr.at, fr.ret, fr.from, fr.regs)
    BY DEF FrameOK, Parts
  <2>2. Wrote(Parts(fr.key, fr.at, fr.ret, fr.from, fr.regs), r0, o) = Parts(fr.key, fr.at + 1, fr.ret, from, regs)
    BY WroteIs
  <2>3. h = Parts(fr.key, fr.at + 1, fr.ret, from, regs)
    BY <2>1, <2>2
  <2> HIDE DEF h
  <2> QED
    BY <2>3 DEF Parts
<1>2. fr.key \in DOMAIN c /\ fr.at + 1 \in DOMAIN c[fr.key].insns
  BY NextInsn DEF FrameOK
<1>3. regs = [r \in 0 .. n - 1 |-> regs[r]] /\ from = [r \in 0 .. n - 1 |-> from[r]]
  BY DEF FrameOK, With
<1>4. \A r \in 0 .. n - 1 : regs[r] = IF r = r0 THEN o ELSE fr.regs[r]
  BY DEF FrameOK, With
<1> HIDE DEF regs, from, h
<1>5. /\ h.key = fr.key /\ h.at = fr.at + 1 /\ h.ret = fr.ret /\ h.from = from /\ h.regs = regs
      /\ h = [key |-> h.key, at |-> h.at, ret |-> h.ret, from |-> h.from, regs |-> h.regs]
  BY <1>1
<1>6. \A r \in 0 .. n - 1 : IsVal(N, regs[r])
  BY <1>4, ValGrows DEF FrameOK
<1>7. IsVal(N, fr.ret)
  BY ValGrows DEF FrameOK
<1> HIDE DEF n
<1>8. FrameOK(c, N, h)
  BY <1>2, <1>3, <1>5, <1>6, <1>7 DEF FrameOK, n
<1> QED
  BY <1>5, <1>8 DEF regs, from, WentOn, h

LEMMA WriteKeepsTruth ==
  ASSUME NEW c, IsCode(c), NEW g, NEW P, NEW Q, P \subseteq Q, NEW O, NEW N, O \subseteq N, NEW args, NEW fr, FrameOK(c, O, fr),
         c[fr.key].insns[fr.at][1] \notin {"Return", "Goto", "Invoke"},
         NEW r0 \in 0 .. c[fr.key].registers - 1, NEW o,
         NEW h, h.key = fr.key, h.at = fr.at + 1, h.regs = With(fr.regs, r0, o), h.from = With(fr.from, r0, fr.at),
         r0 \in Changes(c, fr.key, fr.at) =>
           \A v \in Range(o) : \A l \in Range(Known(At(c, fr.key, fr.at), r0)) : Means(Q, N, args, v, l),
         FrameTrue(c, g, P, O, args, fr)
  PROVE  FrameTrue(c, g, Q, N, args, h)
<1> DEFINE n == c[fr.key].registers
           k == fr.key
<1>1. k \in DOMAIN c /\ fr.at \in DOMAIN c[k].insns /\ fr.at \in 1 .. Len(c[k].insns)
  BY CodeRuns DEF FrameOK
<1>2. FrameTrue(c, g, Q, N, args, fr)
  BY TruthGrows
<1>3. RetBelieved(c, Q, N, args, h)
  BY <1>1, NextInsn DEF RetBelieved
<1>4. \A r \in 0 .. n - 1 : /\ h.regs[r] = IF r = r0 THEN o ELSE fr.regs[r]
                            /\ h.from[r] = IF r = r0 THEN fr.at ELSE fr.from[r]
  BY DEF FrameOK, With
<1>5. ASSUME NEW r \in 0 .. n - 1, NEW d, d = h.from[r], d \in 0 .. Len(c[k].insns), d = 0 \/ r \in Changes(c, k, d),
             NEW v \in Range(h.regs[r]), NEW l \in Range(Known(At(c, k, d), r))
      PROVE  Means(Q, N, args, v, l)
  <2>1. CASE r = r0
    <3>1. d = fr.at /\ h.regs[r] = o /\ d # 0
      BY <1>1, <1>4, <1>5, <2>1
    <3> QED
      BY <1>5, <2>1, <3>1
  <2>2. CASE r # r0
    <3>1. d = fr.from[r] /\ h.regs[r] = fr.regs[r]
      BY <1>4, <1>5, <2>2
    <3> QED
      BY <1>2, <1>5, <3>1 DEF FrameTrue, Believed
  <2> QED
    BY <2>1, <2>2
<1> HIDE DEF n, k
<1>6. Believed(c, Q, N, args, h)
  BY <1>5 DEF Believed, n, k
<1> QED
  BY <1>2, <1>3, <1>6 DEF FrameTrue

\* A step that writes no register.
LEMMA StepKeeps ==
  ASSUME NEW c, NEW O, NEW fr, FrameOK(c, O, fr), NEW h,
         h.key = fr.key, h.at \in DOMAIN c[fr.key].insns, h.regs = fr.regs, h.from = fr.from, IsVal(O, h.ret),
         h = [key |-> h.key, at |-> h.at, ret |-> h.ret, from |-> h.from, regs |-> h.regs]
  PROVE  FrameOK(c, O, h)
BY DEF FrameOK

LEMMA StepKeepsTruth ==
  ASSUME NEW c, NEW g, NEW P, NEW O, NEW args, NEW fr, FrameTrue(c, g, P, O, args, fr), NEW h,
         h.key = fr.key, h.regs = fr.regs, h.from = fr.from, RetBelieved(c, P, O, args, h)
  PROVE  FrameTrue(c, g, P, O, args, h)
BY DEF FrameTrue, Believed

\* A frame as the call leaves it.
LEMMA StartKeeps ==
  ASSUME NEW c, IsCode(c), NEW k \in DOMAIN c, NEW O, NEW args, ArgsOK(c, O, args, k), DOMAIN args = 1 .. c[k].ins,
         NEW fr, fr = Frame(c[k], args)
  PROVE  FrameOK(c, O, fr) /\ fr.key = k
<1> DEFINE m == c[k]
           n == m.registers
<1>1. m.key = k /\ 1 \in DOMAIN m.insns /\ n \in Nat /\ m.ins \in 0 .. n
  BY CodeRuns DEF Runs
<1> HIDE DEF m
<1>2. /\ fr.key = k /\ fr.at = 1 /\ fr.ret = <<>>
      /\ fr.from = [r \in 0 .. n - 1 |-> 0]
      /\ fr.regs = [r \in 0 .. n - 1 |-> IF r >= FirstFormal(m) THEN args[r - FirstFormal(m) + 1] ELSE <<>>]
      /\ fr = [key |-> fr.key, at |-> fr.at, ret |-> fr.ret, from |-> fr.from, regs |-> fr.regs]
  BY <1>1 DEF Frame, m
<1>3. ASSUME NEW r \in 0 .. n - 1 PROVE IsVal(O, fr.regs[r])
  <2>1. CASE r >= FirstFormal(m)
    <3> DEFINE i == r - FirstFormal(m)
    <3>1. i + 1 \in 1 .. m.ins
      BY <1>1, <2>1 DEF FirstFormal
    <3>2. fr.regs[r] = args[i + 1]
      BY <1>2, <2>1
    <3> HIDE DEF i
    <3>3. ArgOrNone(args, i) = args[i + 1]
      BY <3>1 DEF ArgOrNone, m
    <3>4. IsVal(O, ArgOrNone(args, i))
      BY DEF ArgsOK
    <3> QED
      BY <3>2, <3>3, <3>4
  <2>2. CASE ~ (r >= FirstFormal(m))
    BY <1>2, <2>2 DEF IsVal
  <2> QED
    BY <2>1, <2>2
<1>4. IsVal(O, <<>>)
  BY DEF IsVal
<1>5. fr.regs = [r \in 0 .. n - 1 |-> fr.regs[r]] /\ fr.from = [r \in 0 .. n - 1 |-> fr.from[r]]
  BY <1>2
<1>6. fr.key = k /\ fr.at = 1 /\ fr.ret = <<>>
      /\ fr = [key |-> fr.key, at |-> fr.at, ret |-> fr.ret, from |-> fr.from, regs |-> fr.regs]
  BY <1>2
<1> QED
  BY <1>1, <1>3, <1>4, <1>5, <1>6 DEF FrameOK, m, n

LEMMA StartIsTrue ==
  ASSUME NEW c, IsCode(c), NEW k \in DOMAIN c, NEW g, NEW P, NEW O, NEW args, DOMAIN args = 1 .. c[k].ins,
         NEW fr, fr = Frame(c[k], args), BoundRight(c, g, P, O, args, k)
  PROVE  FrameTrue(c, g, P, O, args, fr)
<1> DEFINE m == c[k]
           n == m.registers
           F == FirstFormal(m)
<1>1. m.key = k /\ n \in Nat /\ m.ins \in 0 .. n
  BY CodeRuns DEF Runs
<1>a. At(c, k, 0) = Start(m)
  <2>1. 0 \in 0 .. Len(m.insns)
    BY CodeRuns
  <2> QED
    BY <2>1, PassOfCode
<1> HIDE DEF m
<1>2. /\ fr.key = k /\ fr.at = 1 /\ fr.ret = <<>>
      /\ fr.from = [r \in 0 .. n - 1 |-> 0]
      /\ fr.regs = [r \in 0 .. n - 1 |-> IF r >= F THEN args[r - F + 1] ELSE <<>>]
  BY <1>1 DEF Frame, m
<1>3. RetBelieved(c, P, O, args, fr)
  BY <1>2, OptionRange DEF RetBelieved
<1>4. ASSUME NEW r \in 0 .. n - 1, NEW v \in Range(fr.regs[r]), NEW l \in Range(Known(At(c, k, 0), r))
      PROVE  Means(P, O, args, v, l)
  <2> DEFINE i == r - F
  <2>1. r >= F
    BY <1>2, <1>4, OptionRange
  <2>2. i \in 0 .. m.ins - 1 /\ i + 1 \in 1 .. m.ins /\ r \in F .. n - 1
    BY <1>1, <2>1 DEF FirstFormal
  <2>3. fr.regs[r] = args[i + 1]
    BY <1>2, <2>1
  <2>4. l = NewLock(IF HasReceiver(m) /\ r = F THEN <<"This", "this">> ELSE <<"Param", i>>)
    <3>1. Start(m).regs = Formals(m)
      BY DEF Start
    <3>2. r \in DOMAIN Formals(m) /\ Formals(m)[r] = NewLock(IF HasReceiver(m) /\ r = F THEN <<"This", "this">> ELSE <<"Param", i>>)
      BY <2>2 DEF Formals
    <3>3. Known(At(c, k, 0), r) = <<Formals(m)[r]>>
      BY <1>a, <3>1, <3>2 DEF Known
    <3>4. l = Formals(m)[r]
      BY <1>4, <3>3, OptionRange
    <3> QED
      BY <3>2, <3>4
  <2> DEFINE root == IF HasReceiver(m) /\ r = F THEN <<"This", "this">> ELSE <<"Param", i>>
  <2>5. HasReceiver(m) /\ r = F => i = 0
    BY <1>1 DEF FirstFormal
  <2> HIDE DEF i
  <2>6. ArgOrNone(args, i) = args[i + 1]
    BY <2>2 DEF ArgOrNone, m
  <2>7. Origins(O, args, NewLock(root)) = Range(ArgOrNone(args, i))
    <3>1. NewLock(root).root = root
      BY DEF NewLock, Lock
    <3>2. CASE HasReceiver(m) /\ r = F
      BY <2>5, <3>1, <3>2 DEF Origins, Kind
    <3>3. CASE ~ (HasReceiver(m) /\ r = F)
      BY <3>1, <3>3 DEF Origins, Kind
    <3> QED
      BY <3>2, <3>3
  <2> HIDE DEF root
  <2>8. l = NewLock(root)
    BY <2>4 DEF root
  <2>9. v \in Origins(O, args, NewLock(root))
    BY <1>4, <2>3, <2>6, <2>7
  <2> QED
    BY <2>8, <2>9, WholeMeans
<1>5. Believed(c, P, O, args, fr)
  <2>1. \A r \in 0 .. n - 1 : fr.from[r] = 0
    BY <1>2
  <2>2. c[fr.key].registers = n /\ fr.key = k
    BY <1>2 DEF m
  <2> HIDE DEF n
  <2> QED
    BY <1>4, <2>1, <2>2 DEF Believed
<1> QED
  BY <1>2, <1>3, <1>5 DEF FrameTrue

-----------------------------------------------------------------------------
(***************************************************************************)
(* The heap.                                                               *)
(***************************************************************************)
\* An object that was allocated is of the class that its instruction names.
IsObject(c, o) ==
  o[3] # <<>> =>
    \E k \in DOMAIN c : \E at \in DOMAIN c[k].insns :
      c[k].insns[at][1] = "NewInstance" /\ o[3] = <<k, at>> /\ o[1] = c[k].insns[at][3]

\* What was put in a field of an object, or of a class.
IsPut(c, O, q) ==
  /\ q = <<q[1], q[2], q[3]>> /\ q[3] \in O \X Modes /\ IsFieldName(q[2])
  /\ q[2] \in InstanceFields(c) => q[1] \in O \X Modes /\ Typed(q[1], q[2][1])
  /\ q[2] \notin InstanceFields(c) => q[1] = Statics(q[2][1])

HeapOK(c, O, h, P) ==
  /\ \A o \in O : IsObject(c, o)
  /\ \A x \in Operands(c, "ConstClass") : ClassObject(x) \in O
  /\ \A q \in P : IsPut(c, O, q)
  /\ \A w \in DOMAIN h : <<w[1], w[2], h[w]>> \in P

-----------------------------------------------------------------------------
LEMMA OperandIs ==
  ASSUME NEW c, NEW k \in DOMAIN c, NEW at \in DOMAIN c[k].insns, NEW i, i = c[k].insns[at]
  PROVE  /\ \A op : i[1] = op => i[3] \in Operands(c, op)
         /\ i[1] \in {"Iget", "Iput"} => i[4] \in InstanceFields(c)
<1>1. i \in Range(c[k].insns)
  BY DEF Range
<1>2. ASSUME NEW op, i[1] = op PROVE i[3] \in Operands(c, op)
  BY <1>1, <1>2 DEF Operands
<1>3. ASSUME i[1] \in {"Iget", "Iput"} PROVE i[4] \in InstanceFields(c)
  BY <1>1, <1>3 DEF InstanceFields
<1> QED
  BY <1>2, <1>3

\* Nothing is ever put in a field of a view.
LEMMA PutsArePlain ==
  ASSUME NEW c, NEW O, NEW h, NEW P, HeapOK(c, O, h, P)
  PROVE  Plainly(P)
<1>1. ASSUME NEW q \in P PROVE q[1][2] \in {"Plain", "Static"}
  <2>1. IsPut(c, O, q)
    BY DEF HeapOK
  <2>2. CASE q[2] \in InstanceFields(c)
    BY <2>1, <2>2 DEF IsPut, Typed, IsFieldName
  <2>3. CASE q[2] \notin InstanceFields(c)
    BY <2>1, <2>3 DEF IsPut, Statics
  <2> QED
    BY <2>2, <2>3
<1> QED
  BY <1>1 DEF Plainly

\* What is read from the heap was put there.
LEMMA HeapIsPut ==
  ASSUME NEW c, HeapOK(c, objs, heap, put), NEW owner, NEW f
  PROVE  /\ IsVal(objs, Heap(owner, f))
         /\ \A v \in Range(Heap(owner, f)) : <<owner, f, v>> \in put
<1>1. CASE <<owner, f>> \in DOMAIN heap
  <2> DEFINE v == heap[<<owner, f>>]
             w == <<owner, f>>
  <2>1. <<w[1], w[2], heap[w]>> \in put
    BY <1>1 DEF HeapOK
  <2>2. <<owner, f, v>> \in put
    BY <2>1
  <2> HIDE DEF w
  <2>3. IsPut(c, objs, <<owner, f, v>>)
    BY <2>2 DEF HeapOK
  <2>4. v \in objs \X Modes
    BY <2>3 DEF IsPut
  <2>5. Heap(owner, f) = <<v>>
    BY <1>1 DEF Heap
  <2> HIDE DEF v
  <2> QED
    BY <2>2, <2>4, <2>5, OptionRange DEF IsVal
<1>2. CASE <<owner, f>> \notin DOMAIN heap
  <2>1. Heap(owner, f) = <<>>
    BY <1>2 DEF Heap
  <2> QED
    BY <2>1, OptionRange DEF IsVal
<1> QED
  BY <1>1, <1>2

-----------------------------------------------------------------------------
\* The innermost frame, and the register that its instruction writes.
LEMMA TopIs ==
  ASSUME IsCode(code), FramesOK(code, objs, frames), frames # <<>>
  PROVE  /\ Top = frames[Len(frames)] /\ Len(frames) \in 1 .. Len(frames) /\ Len(frames) \in Nat
         /\ FrameOK(code, objs, Top)
         /\ Top.key \in DOMAIN code /\ Top.at \in DOMAIN code[Top.key].insns
         /\ ArgsOK(code, objs, Args(code, frames, Len(frames)), Top.key)
         /\ \A r \in 0 .. code[Top.key].registers - 1 : IsVal(objs, Reg(r))
<1>1. Len(frames) \in Nat /\ Len(frames) # 0
  BY DEF FramesOK, IsPath
<1>2. Top = frames[Len(frames)]
  BY DEF Top, Last
<1>3. Len(frames) \in 1 .. Len(frames)
  BY <1>1
<1>4. FrameOK(code, objs, Top)
  BY <1>2, <1>3 DEF FramesOK
<1>5. ArgsOK(code, objs, Args(code, frames, Len(frames)), Top.key)
  BY <1>2, <1>3, ArgsAre
<1> QED
  BY <1>1, <1>2, <1>3, <1>4, <1>5 DEF FrameOK, Reg

\* What an instruction gives its destination is a value.
LEMMA ResultIsVal ==
  ASSUME IsCode(code), HeapOK(code, objs, heap, put), FramesOK(code, objs, frames), frames # <<>>,
         Insn[1] \in {"Sget", "Iget", "Move", "MoveResult", "ConstClass", "Def", "Other"}, NEW o \in Results
  PROVE  IsVal(objs, o)
<1> DEFINE k == Top.key
           at == Top.at
           i == Insn
<1>1. k \in DOMAIN code /\ at \in DOMAIN code[k].insns /\ i = code[k].insns[at]
  BY TopIs DEF Insn
<1>2. \A r \in 0 .. code[k].registers - 1 : IsVal(objs, Reg(r))
  BY TopIs
<1>3. i[1] \in {"Move"} => i[3] \in 0 .. code[k].registers - 1
  BY <1>1, InsnIs
<1>4. IsVal(objs, Top.ret)
  BY TopIs DEF FrameOK
<1>5. i[1] = "ConstClass" => ClassObject(i[3]) \in objs
  BY <1>1, OperandIs DEF HeapOK
<1>6. "Plain" \in Modes
  BY DEF Modes
<1> HIDE DEF k, at
<1>7. CASE i[1] = "Sget"
  BY <1>7, HeapIsPut DEF Results
<1>8. CASE i[1] = "Iget"
  <2>1. PICK b : o = Heap(b, i[4])
    BY <1>8 DEF Results
  <2> QED
    BY <2>1, HeapIsPut
<1>9. CASE i[1] = "Move"
  <2>1. o = Reg(i[3])
    BY <1>9 DEF Results
  <2> QED
    BY <1>2, <1>3, <1>9, <2>1
<1>10. CASE i[1] = "MoveResult"
  BY <1>4, <1>10 DEF Results
<1>11. CASE i[1] = "ConstClass"
  <2>1. o = <<Of(ClassObject(i[3]))>>
    BY <1>11 DEF Results
  <2> QED
    BY <1>5, <1>6, <1>11, <2>1 DEF IsVal, Of
<1>12. CASE i[1] \in {"Def", "Other"}
  <2>1. o \in {<<>>} \cup {<<Of(x)>> : x \in objs}
    BY <1>12 DEF Results
  <2> QED
    BY <1>6, <2>1 DEF IsVal, Of
<1> QED
  BY <1>7, <1>8, <1>9, <1>10, <1>11, <1>12

-----------------------------------------------------------------------------
(***************************************************************************)
(* What an instruction leaves in a register is what the pass takes it for. *)
(***************************************************************************)
LEMMA ReadHere ==
  ASSUME IsCode(code), found = Summaries(code), FramesOK(code, objs, frames), frames # <<>>, ~ Astray, NEW r \in Reads(Insn)
  PROVE  Top.from[r] = SeenLast(code, Top.key, Top.at, r)
<1>1. Top.from[r] = LastSeen(Top.key, Top.at, r)
  BY DEF Astray
<1>2. Top.key \in DOMAIN code /\ Top.at \in DOMAIN code[Top.key].insns
  BY TopIs
<1> QED
  BY <1>1, <1>2, LastSeenIs

\* What a register is from an instruction on that changes its meaning.
LEMMA ChangedIs ==
  ASSUME NEW c, IsCode(c), NEW k \in DOMAIN c, NEW at \in DOMAIN c[k].insns, NEW r \in Changes(c, k, at)
  PROVE  /\ Known(At(c, k, at), r) = Left(c[k], At(c, k, at - 1), at, c[k].insns[at]) /\ r = c[k].insns[at][2]
         /\ c[k].insns[at][1] \in Defines \/ Renamed(c[k], At(c, k, at - 1), at)
<1>1. at \in 0 .. Len(c[k].insns) /\ at > 0
  BY CodeRuns
<1>2. StepGives(c[k], Getters(c), At(c, k, at - 1), at, At(c, k, at))
  BY <1>1, PassOfCode
<1>3. r \in Rewritten(c[k], At(c, k, at - 1), at)
  BY DEF Changes
<1>4. Known(At(c, k, at), r) = Left(c[k], At(c, k, at - 1), at, c[k].insns[at])
  BY <1>2, <1>3 DEF StepGives
<1> QED
  BY <1>3, <1>4 DEF Rewritten

\* What an instruction gives its destination is what the pass made of it.
LEMMA ResultMeans ==
  ASSUME IsCode(code), found = Summaries(code), HeapOK(code, objs, heap, put), FramesOK(code, objs, frames), frames # <<>>,
         Insn[1] \in {"Sget", "Iget", "Move", "MoveResult", "ConstClass", "Def", "Other"}, NEW o \in Results, ~ Astray,
         NEW args, Believed(code, put, objs, args, Top), RetBelieved(code, put, objs, args, Top),
         Insn[2] \in Changes(code, Top.key, Top.at),
         NEW v \in Range(o), NEW l \in Range(Known(At(code, Top.key, Top.at), Insn[2]))
  PROVE  Means(put, objs, args, v, l)
<1> DEFINE k == Top.key
           at == Top.at
           i == Insn
           s == At(code, k, at - 1)
<1>1. k \in DOMAIN code /\ at \in DOMAIN code[k].insns /\ i = code[k].insns[at]
  BY TopIs DEF Insn
<1>2. l \in Range(Left(code[k], s, at, i))
  BY <1>1, ChangedIs
<1>3. i[1] \in Defines
  <2>1. i[1] \in Defines \/ Renamed(code[k], s, at)
    BY <1>1, ChangedIs
  <2> QED
    BY <1>1, <2>1 DEF Renamed
<1>4. \A r \in Reads(i) : Top.from[r] = SeenLast(code, k, at, r)
  BY ReadHere
<1>5. code[k].key = k
  BY <1>1, CodeRuns
<1>6. FrameOK(code, objs, Top)
  BY TopIs
<1>7. CASE i[1] = "Sget"
  <2>1. l = FieldLock(<<"Static", i[3][1]>>, i[3][2])
    BY <1>2, <1>7, OptionRange DEF Left
  <2>2. o = Heap(Statics(i[3][1]), i[3])
    BY <1>7 DEF Results
  <2>3. <<Statics(i[3][1]), i[3], v>> \in put
    BY <2>2, HeapIsPut
  <2>4. Origins(objs, args, NewLock(<<"Static", i[3][1]>>)) = {Statics(i[3][1])}
    BY DEF Origins, Kind, NewLock, Lock
  <2> DEFINE q == <<Statics(i[3][1]), i[3], v>>
  <2>5. q[1] \in Origins(objs, args, NewLock(<<"Static", i[3][1]>>)) /\ q[2][2] = i[3][2] /\ q[3] = v /\ q \in put
    BY <2>3, <2>4
  <2> HIDE DEF q
  <2> QED
    BY <2>1, <2>5, FieldMeans
<1>8. CASE i[1] = "Iget"
  <2>1. l = FieldLock(<<"Recv", i[4][1]>>, i[4][2])
    BY <1>2, <1>8, OptionRange DEF Left
  <2>2. PICK b \in Owner(Reg(i[3]), i[4]) : o = Heap(b, i[4])
    BY <1>8 DEF Results
  <2>3. <<b, i[4], v>> \in put
    BY <2>2, HeapIsPut
  <2>4. b \in Range(Reg(i[3])) /\ Typed(b, i[4][1])
    BY <2>2 DEF Owner
  <2>5. i[3] \in 0 .. code[k].registers - 1
    BY <1>1, <1>8, InsnIs
  <2>6. IsVal(objs, Reg(i[3]))
    BY <2>5, TopIs
  <2>7. b \in objs \X Modes
    BY <2>4, <2>6, OptionRange DEF IsVal
  <2>8. Origins(objs, args, NewLock(<<"Recv", i[4][1]>>)) = {x \in objs \X Modes : Typed(x, i[4][1])}
    BY DEF Origins, Kind, NewLock, Lock
  <2> DEFINE q == <<b, i[4], v>>
  <2>9. q[1] \in Origins(objs, args, NewLock(<<"Recv", i[4][1]>>)) /\ q[2][2] = i[4][2] /\ q[3] = v /\ q \in put
    BY <2>3, <2>4, <2>7, <2>8
  <2> HIDE DEF q
  <2> QED
    BY <2>1, <2>9, FieldMeans
<1>9. CASE i[1] = "Move"
  <2>1. l \in Range(Known(s, i[3]))
    BY <1>2, <1>9 DEF Left
  <2>2. o = Top.regs[i[3]]
    BY <1>9 DEF Results, Reg
  <2>3. i[3] \in Reads(i)
    BY <1>9 DEF Reads
  <2>4. i[3] \in 0 .. code[k].registers - 1
    BY <1>1, <1>9, InsnIs
  <2>5. Top.from[i[3]] = SeenLast(code, k, at, i[3])
    BY <1>4, <2>3
  <2> QED
    BY <1>1, <2>1, <2>2, <2>4, <2>5, ReadMeans
<1>10. CASE i[1] = "MoveResult"
  <2>1. l \in Range(s.ret)
    BY <1>2, <1>10 DEF Left
  <2>2. o = Top.ret
    BY <1>10 DEF Results
  <2> QED
    BY <1>1, <1>10, <2>1, <2>2 DEF RetBelieved
<1>11. CASE i[1] = "ConstClass"
  <2>1. l = NewLock(<<"ClassConst", i[3]>>)
    BY <1>2, <1>11, OptionRange DEF Left
  <2>2. o = <<Of(ClassObject(i[3]))>>
    BY <1>11 DEF Results
  <2>3. Origins(objs, args, NewLock(<<"ClassConst", i[3]>>)) = {Of(ClassObject(i[3]))}
    BY DEF Origins, Kind, NewLock, Lock
  <2>4. v = Of(ClassObject(i[3]))
    BY <2>2, OptionRange
  <2> QED
    BY <2>1, <2>3, <2>4, WholeMeans
<1>12. CASE i[1] = "Def"
  <2>1. Left(code[k], s, at, i) = <<>>
    BY <1>12 DEF Left
  <2> QED
    BY <1>2, <2>1, OptionRange
<1> QED
  BY <1>3, <1>7, <1>8, <1>9, <1>10, <1>11, <1>12 DEF Defines

-----------------------------------------------------------------------------
(***************************************************************************)
(* The innermost frame goes on.                                            *)
(***************************************************************************)
\* What holds of the machine in every program.
Steady ==
  /\ IsCode(code) /\ found = Summaries(code)
  /\ HeapOK(code, objs, heap, put)
  /\ FramesOK(code, objs, frames)

\* What the pass made of the methods under way is true of them.
Truth == FramesTrue(code, sol, put, objs, frames)

TopArgs == Args(code, frames, Len(frames))

LEMMA TopTrue ==
  ASSUME Steady, frames # <<>>, Truth
  PROVE  FrameTrue(code, sol, put, objs, TopArgs, Top)
<1>1. Top = frames[Len(frames)] /\ Len(frames) \in 1 .. Len(frames)
  BY TopIs DEF Steady
<1> QED
  BY <1>1 DEF Truth, FramesTrue, TopArgs

\* Frame fr past its instruction.
Past(fr) == [fr EXCEPT !.at = @ + 1]

LEMMA PastIs ==
  ASSUME NEW c, NEW O, NEW fr, FrameOK(c, O, fr), NEW ret
  PROVE  /\ Past(fr) = Parts(fr.key, fr.at + 1, fr.ret, fr.from, fr.regs)
         /\ Past([fr EXCEPT !.ret = ret]) = Parts(fr.key, fr.at + 1, ret, fr.from, fr.regs)
         /\ [fr EXCEPT !.ret = ret] = Parts(fr.key, fr.at, ret, fr.from, fr.regs)
<1>1. fr = Parts(fr.key, fr.at, fr.ret, fr.from, fr.regs)
  BY DEF FrameOK, Parts
<1>2. \A k, a, t, w, s : Past(Parts(k, a, t, w, s)) = Parts(k, a + 1, t, w, s)
  BY DEF Parts, Past
<1>3. \A k, a, t, w, s : [Parts(k, a, t, w, s) EXCEPT !.ret = ret] = Parts(k, a, ret, w, s)
  BY DEF Parts
<1> DEFINE k == fr.key
           a == fr.at
           t == fr.ret
           w == fr.from
           s == fr.regs
<1> HIDE DEF k, a, t, w, s
<1>4. fr = Parts(k, a, t, w, s)
  BY <1>1 DEF k, a, t, w, s
<1>5. [fr EXCEPT !.ret = ret] = Parts(k, a, ret, w, s)
  BY <1>3, <1>4
<1>6. Past(fr) = Parts(k, a + 1, t, w, s)
  BY <1>2, <1>4
<1>7. Past([fr EXCEPT !.ret = ret]) = Parts(k, a + 1, ret, w, s)
  BY <1>2, <1>5
<1> QED
  BY <1>5, <1>6, <1>7 DEF k, a, t, w, s

LEMMA PartsAre ==
  ASSUME NEW k, NEW a, NEW t, NEW w, NEW s, NEW h, h = Parts(k, a, t, w, s)
  PROVE  /\ h.key = k /\ h.at = a /\ h.ret = t /\ h.from = w /\ h.regs = s
         /\ h = [key |-> h.key, at |-> h.at, ret |-> h.ret, from |-> h.from, regs |-> h.regs]
BY DEF Parts

-----------------------------------------------------------------------------
\* Frames fs are those of now but for the innermost, which gave register r0 the value o.
TopWrote(fs, r0, o) == fs = [frames EXCEPT ![Len(frames)] = Wrote(Top, r0, o)]

LEMMA AdvancedWritten ==
  ASSUME NEW r0, NEW o
  PROVE  TopWrote(Advanced(Written(r0, o)), r0, o)
BY DEF TopWrote, Advanced, Written, Wrote

LEMMA TopWrites ==
  ASSUME Steady, frames # <<>>, Insn[1] \notin {"Return", "Goto", "Invoke"},
         NEW N, objs \subseteq N, NEW Q, put \subseteq Q,
         NEW r0 \in 0 .. code[Top.key].registers - 1, NEW o, IsVal(N, o), NEW fs, TopWrote(fs, r0, o)
  PROVE  /\ FramesOK(code, N, fs)
         /\ Truth /\ (r0 \in Changes(code, Top.key, Top.at) =>
                        \A v \in Range(o) : \A l \in Range(Known(At(code, Top.key, Top.at), r0)) : Means(Q, N, TopArgs, v, l))
              => FramesTrue(code, sol, Q, N, fs)
<1>1. /\ Top = frames[Len(frames)] /\ FrameOK(code, objs, Top)
      /\ Top.key \in DOMAIN code /\ Top.at \in DOMAIN code[Top.key].insns
  BY TopIs DEF Steady
<1>2. IsCode(code) /\ FramesOK(code, objs, frames)
  BY DEF Steady
<1>3. code[Top.key].insns[Top.at][1] \notin {"Return", "Goto", "Invoke"}
  BY DEF Insn
<1> DEFINE h == Wrote(Top, r0, o)
<1>4. fs = [frames EXCEPT ![Len(frames)] = h]
  BY DEF TopWrote
<1> HIDE DEF h
<1>5. /\ FrameOK(code, N, h) /\ h.key = Top.key /\ h.at = Top.at + 1 /\ h.ret = Top.ret
      /\ h.regs = With(Top.regs, r0, o) /\ h.from = With(Top.from, r0, Top.at)
  <2>1. WentOn(code, N, Top, h, r0, o)
    BY <1>1, <1>2, <1>3, WriteKeeps DEF h
  <2> QED
    BY <2>1 DEF WentOn
<1>6. h.key = frames[Len(frames)].key
  BY <1>1, <1>5
<1>7. FramesOK(code, N, fs)
  BY <1>2, <1>4, <1>5, <1>6, TopMoves
<1>8. ASSUME Truth,
             r0 \in Changes(code, Top.key, Top.at) =>
               \A v \in Range(o) : \A l \in Range(Known(At(code, Top.key, Top.at), r0)) : Means(Q, N, TopArgs, v, l)
      PROVE  FramesTrue(code, sol, Q, N, fs)
  <2>1. FrameTrue(code, sol, put, objs, TopArgs, Top)
    BY <1>8, TopTrue
  <2>2. FrameTrue(code, sol, Q, N, TopArgs, h)
    BY <1>1, <1>2, <1>3, <1>5, <1>8, <2>1, WriteKeepsTruth
  <2>3. FramesTrue(code, sol, put, objs, frames)
    BY <1>8 DEF Truth
  <2> QED
    BY <1>2, <1>4, <1>5, <1>6, <2>2, <2>3, TopMovesTruly DEF TopArgs
<1> QED
  BY <1>7, <1>8

\* Frames fs are those of now but for the innermost, which goes on at another
\* instruction and perhaps with a result.
TopWent(fs, at, ret) ==
  fs = [frames EXCEPT ![Len(frames)] = Parts(Top.key, at, ret, Top.from, Top.regs)]

LEMMA TopGoes ==
  ASSUME Steady, frames # <<>>, NEW Q, put \subseteq Q,
         NEW at \in DOMAIN code[Top.key].insns, NEW ret, IsVal(objs, ret), NEW fs, TopWent(fs, at, ret)
  PROVE  /\ FramesOK(code, objs, fs)
         /\ Truth /\ (code[Top.key].insns[at][1] = "MoveResult" =>
                        \A v \in Range(ret) : \A l \in Range(At(code, Top.key, at - 1).ret) : Means(Q, objs, TopArgs, v, l))
              => FramesTrue(code, sol, Q, objs, fs)
<1>1. Top = frames[Len(frames)] /\ FrameOK(code, objs, Top)
  BY TopIs DEF Steady
<1>2. IsCode(code) /\ FramesOK(code, objs, frames)
  BY DEF Steady
<1> DEFINE h == Parts(Top.key, at, ret, Top.from, Top.regs)
<1>3. fs = [frames EXCEPT ![Len(frames)] = h]
  BY DEF TopWent
<1>4. /\ h.key = Top.key /\ h.at = at /\ h.ret = ret /\ h.from = Top.from /\ h.regs = Top.regs
      /\ h = [key |-> h.key, at |-> h.at, ret |-> h.ret, from |-> h.from, regs |-> h.regs]
  BY PartsAre
<1> HIDE DEF h
<1>5. FrameOK(code, objs, h)
  BY <1>1, <1>4, StepKeeps
<1>6. h.key = frames[Len(frames)].key
  BY <1>1, <1>4
<1>7. FramesOK(code, objs, fs)
  BY <1>2, <1>3, <1>5, <1>6, TopMoves
<1>8. ASSUME Truth,
             code[Top.key].insns[at][1] = "MoveResult" =>
               \A v \in Range(ret) : \A l \in Range(At(code, Top.key, at - 1).ret) : Means(Q, objs, TopArgs, v, l)
      PROVE  FramesTrue(code, sol, Q, objs, fs)
  <2>1. FrameTrue(code, sol, put, objs, TopArgs, Top)
    BY <1>8, TopTrue
  <2>2. FrameTrue(code, sol, Q, objs, TopArgs, Top)
    BY <2>1, TruthGrows
  <2>3. RetBelieved(code, Q, objs, TopArgs, h)
    BY <1>4, <1>8 DEF RetBelieved
  <2>4. FrameTrue(code, sol, Q, objs, TopArgs, h)
    BY <1>4, <2>2, <2>3, StepKeepsTruth
  <2>5. FramesTrue(code, sol, put, objs, frames)
    BY <1>8 DEF Truth
  <2> QED
    BY <1>2, <1>3, <1>5, <1>6, <2>4, <2>5, TopMovesTruly DEF TopArgs
<1> QED
  BY <1>7, <1>8

\* The innermost frame goes on behind its instruction.
LEMMA AdvancedTop ==
  ASSUME Steady, frames # <<>>, NEW ret
  PROVE  /\ TopWent(Advanced(Top), Top.at + 1, Top.ret)
         /\ TopWent(Advanced([Top EXCEPT !.ret = ret]), Top.at + 1, ret)
<1>1. FrameOK(code, objs, Top)
  BY TopIs DEF Steady
<1>2. /\ Past(Top) = Parts(Top.key, Top.at + 1, Top.ret, Top.from, Top.regs)
      /\ Past([Top EXCEPT !.ret = ret]) = Parts(Top.key, Top.at + 1, ret, Top.from, Top.regs)
  BY <1>1, PastIs
<1>3. \A fr : Advanced(fr) = [frames EXCEPT ![Len(frames)] = Past(fr)]
  BY DEF Advanced, Past
<1>4. Advanced(Top) = [frames EXCEPT ![Len(frames)] = Past(Top)]
  BY <1>3
<1>5. Advanced([Top EXCEPT !.ret = ret]) = [frames EXCEPT ![Len(frames)] = Past([Top EXCEPT !.ret = ret])]
  BY <1>3
<1> QED
  BY <1>2, <1>4, <1>5 DEF TopWent

-----------------------------------------------------------------------------
(***************************************************************************)
(* Every instruction keeps the truth: what assigns, allocates, takes, gives*)
(* and jumps.                                                              *)
(***************************************************************************)
\* A step of the machine keeps what holds of it, and the truth if it was straight on.
MachineKept ==
  /\ HeapOK(code, objs', heap', put')
  /\ FramesOK(code, objs', frames')
  /\ Truth /\ ~ Astray => FramesTrue(code, sol, put', objs', frames')

\* The instruction at hand.
LEMMA InsnHere ==
  ASSUME Steady, frames # <<>>
  PROVE  /\ Top.key \in DOMAIN code /\ Top.at \in DOMAIN code[Top.key].insns /\ Insn = code[Top.key].insns[Top.at]
         /\ IsCode(code) /\ code[Top.key].key = Top.key
<1>1. IsCode(code) /\ FramesOK(code, objs, frames)
  BY DEF Steady
<1>2. Top.key \in DOMAIN code /\ Top.at \in DOMAIN code[Top.key].insns
  BY <1>1, TopIs
<1> QED
  BY <1>1, <1>2, CodeRuns DEF Insn

LEMMA LabelIs ==
  ASSUME NEW c, IsCode(c), NEW k \in DOMAIN c, NEW at \in DOMAIN c[k].insns, NEW m, m = c[k], NEW i, i = m.insns[at],
         i[1] \in {"Goto", "Branch"}
  PROVE  i[2] \in DOMAIN m.insns /\ m.insns[i[2]][1] # "MoveResult"
<1>1. /\ i[1] = "Goto" => i[2] \in DOMAIN m.insns /\ m.insns[i[2]][1] # "MoveResult"
      /\ i[1] = "Branch" => i[2] \in DOMAIN m.insns /\ m.insns[i[2]][1] # "MoveResult"
  BY InsnIs
<1> QED
  BY <1>1

LEMMA OperandsHere ==
  ASSUME Steady, frames # <<>>
  PROVE  LET m == code[Top.key]
             i == Insn
         IN  /\ i[1] \in {"Sget", "Iget", "Iput", "Sput", "Move", "MoveResult", "ConstClass", "NewInstance", "Def", "Other", "Enter", "Exit"}
                  => i[2] \in 0 .. m.registers - 1
             /\ i[1] \in {"Iget", "Iput", "Move"} => i[3] \in 0 .. m.registers - 1
             /\ i[1] \in {"Iget", "Iput"} => IsFieldName(i[4])
             /\ i[1] \in {"Sget", "Sput"} => IsFieldName(i[3]) /\ i[3] \notin InstanceFields(code)
             /\ i[1] = "Return" => Len(i) = 1 \/ i[2] \in 0 .. m.registers - 1
             /\ i[1] = "Invoke" => i[3] \in Seq(0 .. m.registers - 1) /\ IsCallOf(code, i)
             /\ i[1] \in {"Goto", "Branch"} => i[2] \in DOMAIN m.insns /\ m.insns[i[2]][1] # "MoveResult"
<1>1. /\ IsCode(code) /\ Top.key \in DOMAIN code /\ Top.at \in DOMAIN code[Top.key].insns
      /\ Insn = code[Top.key].insns[Top.at]
  BY InsnHere
<1> DEFINE m == code[Top.key]
           i == Insn
<1>2. m = code[Top.key] /\ i = m.insns[Top.at] /\ Top.at \in DOMAIN m.insns
  BY <1>1
<1> HIDE DEF m, i
<1>3. i[1] \in {"Sget", "Iget", "Iput", "Sput", "Move", "MoveResult", "ConstClass", "NewInstance", "Def", "Other", "Enter", "Exit"}
        => i[2] \in 0 .. m.registers - 1
  BY <1>1, <1>2, InsnIs
<1>4. i[1] \in {"Iget", "Iput", "Move"} => i[3] \in 0 .. m.registers - 1
  BY <1>1, <1>2, InsnIs
<1>5. /\ i[1] \in {"Iget", "Iput"} => IsFieldName(i[4])
      /\ i[1] \in {"Sget", "Sput"} => IsFieldName(i[3]) /\ i[3] \notin InstanceFields(code)
  BY <1>1, <1>2, InsnIs
<1>6. i[1] = "Return" => Len(i) = 1 \/ i[2] \in 0 .. m.registers - 1
  BY <1>1, <1>2, InsnIs
<1>7. i[1] = "Invoke" => i[3] \in Seq(0 .. m.registers - 1) /\ IsCallOf(code, i)
  BY <1>1, <1>2, InsnIs
<1>8. i[1] \in {"Goto", "Branch"} => i[2] \in DOMAIN m.insns /\ m.insns[i[2]][1] # "MoveResult"
  BY <1>1, <1>2, LabelIs
<1> QED
  BY <1>3, <1>4, <1>5, <1>6, <1>7, <1>8 DEF m, i

LEMMA AssignKeeps ==
  ASSUME Steady, Assign
  PROVE  MachineKept
<1>1. /\ frames # <<>> /\ Insn[1] \in {"Sget", "Iget", "Move", "MoveResult", "ConstClass", "Def", "Other"}
      /\ objs' = objs /\ heap' = heap /\ put' = put
  BY DEF Assign, Running
<1>2. PICK o \in Results : frames' = Advanced(Written(Insn[2], o))
  BY DEF Assign
<1>3. TopWrote(frames', Insn[2], o)
  BY <1>2, AdvancedWritten
<1>4. Insn[2] \in 0 .. code[Top.key].registers - 1
  BY <1>1, OperandsHere
<1>5. IsVal(objs, o)
  BY <1>1, ResultIsVal DEF Steady
<1>6. Insn[1] \notin {"Return", "Goto", "Invoke"} /\ objs \subseteq objs /\ put \subseteq put
  BY <1>1
<1>7. FramesOK(code, objs, frames')
  BY <1>1, <1>3, <1>4, <1>5, <1>6, TopWrites
<1>8. ASSUME Truth, ~ Astray PROVE FramesTrue(code, sol, put, objs, frames')
  <2>1. Believed(code, put, objs, TopArgs, Top) /\ RetBelieved(code, put, objs, TopArgs, Top)
    BY <1>1, <1>8, TopTrue DEF FrameTrue
  <2>2. Insn[2] \in Changes(code, Top.key, Top.at) =>
          \A v \in Range(o) : \A l \in Range(Known(At(code, Top.key, Top.at), Insn[2])) : Means(put, objs, TopArgs, v, l)
    BY <1>1, <1>8, <2>1, ResultMeans DEF Steady
  <2> QED
    BY <1>1, <1>3, <1>4, <1>5, <1>6, <1>8, <2>2, TopWrites
<1>9. HeapOK(code, objs, heap, put)
  BY DEF Steady
<1> QED
  BY <1>1, <1>7, <1>8, <1>9 DEF MachineKept

LEMMA PutGrows ==
  ASSUME NEW c, NEW O, NEW N, O \subseteq N, NEW q, IsPut(c, O, q)
  PROVE  IsPut(c, N, q)
BY DEF IsPut

LEMMA AllocateKeeps ==
  ASSUME Steady, Allocate
  PROVE  MachineKept
<1> DEFINE o == <<Insn[3], Cardinality(objs), <<Top.key, Top.at>>>>
           k == Top.key
           at == Top.at
<1>1. /\ frames # <<>> /\ Insn[1] = "NewInstance" /\ heap' = heap /\ put' = put
      /\ objs' = objs \cup {o} /\ frames' = Advanced(Written(Insn[2], <<Of(o)>>))
  BY DEF Allocate, Running
<1>2. o[1] = Insn[3] /\ o[3] = <<k, at>>
  OBVIOUS
<1> HIDE DEF o
<1>3. TopWrote(frames', Insn[2], <<Of(o)>>)
  BY <1>1, AdvancedWritten
<1>4. Insn[2] \in 0 .. code[k].registers - 1
  BY <1>1, OperandsHere
<1>5. IsVal(objs', <<Of(o)>>)
  BY <1>1 DEF IsVal, Of, Modes
<1>6. Insn[1] \notin {"Return", "Goto", "Invoke"} /\ objs \subseteq objs' /\ put \subseteq put
  BY <1>1
<1>7. FramesOK(code, objs', frames')
  BY <1>1, <1>3, <1>4, <1>5, <1>6, TopWrites
<1>8. ASSUME Truth PROVE FramesTrue(code, sol, put, objs', frames')
  <2>1. ASSUME Insn[2] \in Changes(code, k, at), NEW v \in Range(<<Of(o)>>), NEW l \in Range(Known(At(code, k, at), Insn[2]))
        PROVE  Means(put, objs', TopArgs, v, l)
    <3>1. l \in Range(Left(code[k], At(code, k, at - 1), at, Insn))
      BY <1>1, <2>1, InsnHere, ChangedIs
    <3>2. l = NewLock(<<"Alloc", <<k, at>>>>)
      BY <1>1, <3>1, InsnHere, OptionRange DEF Left
    <3>3. v = Of(o)
      BY <2>1, OptionRange
    <3>4. Origins(objs', TopArgs, NewLock(<<"Alloc", <<k, at>>>>)) = {Of(x) : x \in {y \in objs' : y[3] = <<k, at>>}}
      BY DEF Origins, Kind, NewLock, Lock
    <3>5. v \in Origins(objs', TopArgs, NewLock(<<"Alloc", <<k, at>>>>))
      BY <1>1, <1>2, <3>3, <3>4
    <3> QED
      BY <3>2, <3>5, WholeMeans
  <2> QED
    BY <1>1, <1>3, <1>4, <1>5, <1>6, <1>8, <2>1, TopWrites
<1>9. HeapOK(code, objs', heap, put)
  <2>1. HeapOK(code, objs, heap, put)
    BY DEF Steady
  <2>2. IsObject(code, o)
    BY <1>1, <1>2, InsnHere DEF IsObject
  <2>3. \A q \in put : IsPut(code, objs', q)
    BY <1>6, <2>1, PutGrows DEF HeapOK
  <2>4. \A x \in objs' : IsObject(code, x)
    BY <1>1, <2>1, <2>2 DEF HeapOK
  <2> QED
    BY <1>6, <2>1, <2>3, <2>4 DEF HeapOK
<1> QED
  BY <1>1, <1>7, <1>8, <1>9 DEF MachineKept

-----------------------------------------------------------------------------
\* What the pass takes for the result of a call.
LEMMA RetOfCall ==
  ASSUME NEW c, IsCode(c), NEW k \in DOMAIN c, NEW at \in DOMAIN c[k].insns, NEW i, i = c[k].insns[at], i[1] = "Invoke"
  PROVE  At(c, k, at).ret = Returned(Getters(c), At(c, k, at - 1), i[2], i[3])
<1>1. at \in 0 .. Len(c[k].insns) /\ at > 0
  BY CodeRuns
<1>2. StepGives(c[k], Getters(c), At(c, k, at - 1), at, At(c, k, at))
  BY <1>1, PassOfCode
<1> QED
  BY <1>2 DEF StepGives, RetAfter

LEMMA LibraryReturns ==
  ASSUME NEW g, NEW s, NEW callee \in Acquires \cup Releases, NEW args
  PROVE  Returned(g, s, callee, args) = <<>> /\ callee \in Library /\ callee \notin DOMAIN Views
<1>1. callee \in Library
  BY DEF Library
<1>2. callee \notin DOMAIN Views
  BY ViewsAre DEF Acquires, Releases
<1> QED
  BY <1>1, <1>2 DEF Returned

\* The frame goes on behind an instruction that returns nothing that the pass knows.
LEMMA GoesOn ==
  ASSUME Steady, frames # <<>>, Insn[1] \notin {"Return", "Goto"},
         Insn[1] = "Invoke" => Insn[2] \in Acquires \cup Releases,
         frames' = Advanced(Top), objs' = objs, put \subseteq put', HeapOK(code, objs, heap', put')
  PROVE  MachineKept
<1> DEFINE k == Top.key
           at == Top.at
<1>1. TopWent(frames', at + 1, Top.ret)
  BY AdvancedTop
<1>2. IsCode(code) /\ k \in DOMAIN code /\ at \in DOMAIN code[k].insns /\ Insn = code[k].insns[at]
  BY InsnHere
<1>3. at \in Nat /\ at + 1 \in DOMAIN code[k].insns /\ (Insn[1] # "Invoke" => code[k].insns[at + 1][1] # "MoveResult")
  BY <1>2, NextInsn
<1>4. IsVal(objs, Top.ret)
  BY TopIs DEF Steady, FrameOK
<1>5. ASSUME code[k].insns[at + 1][1] = "MoveResult" PROVE Range(At(code, k, (at + 1) - 1).ret) = {}
  <2>1. Insn[1] = "Invoke" /\ (at + 1) - 1 = at
    BY <1>3, <1>5
  <2>2. At(code, k, at).ret = Returned(Getters(code), At(code, k, at - 1), Insn[2], Insn[3])
    BY <1>2, <2>1, RetOfCall
  <2>3. At(code, k, at).ret = <<>>
    BY <2>1, <2>2, LibraryReturns
  <2> QED
    BY <2>1, <2>3, OptionRange
<1> HIDE DEF k, at
<1>7. FramesOK(code, objs, frames')
  BY <1>1, <1>3, <1>4, TopGoes DEF k, at
<1>8. Truth => FramesTrue(code, sol, put', objs, frames')
  BY <1>1, <1>3, <1>4, <1>5, TopGoes DEF k, at
<1> QED
  BY <1>7, <1>8 DEF MachineKept

LEMMA TakeKeeps ==
  ASSUME Steady, Take
  PROVE  MachineKept
<1>1. /\ frames # <<>> /\ frames' = Advanced(Top) /\ objs' = objs /\ heap' = heap /\ put' = put
      /\ Insn[1] \in {"Enter", "Invoke"} /\ (Insn[1] = "Invoke" => Insn[2] \in Acquires)
  BY DEF Take, Running
<1>2. HeapOK(code, objs, heap', put')
  BY <1>1 DEF Steady
<1> QED
  BY <1>1, <1>2, GoesOn

LEMMA GiveKeeps ==
  ASSUME Steady, Give
  PROVE  MachineKept
<1>1. /\ frames # <<>> /\ frames' = Advanced(Top) /\ objs' = objs /\ heap' = heap /\ put' = put
      /\ Insn[1] \in {"Exit", "Invoke"} /\ (Insn[1] = "Invoke" => Insn[2] \in Releases)
  BY DEF Give, Running
<1>2. HeapOK(code, objs, heap', put')
  BY <1>1 DEF Steady
<1> QED
  BY <1>1, <1>2, GoesOn

LEMMA JumpKeeps ==
  ASSUME Steady, Jump
  PROVE  MachineKept
<1>1. /\ frames # <<>> /\ objs' = objs /\ heap' = heap /\ put' = put /\ Insn[1] \in {"Goto", "Branch"}
  BY DEF Jump, Running
<1>2. CASE Insn[1] = "Branch" /\ frames' = Advanced(Top)
  <2>1. HeapOK(code, objs, heap', put')
    BY <1>1 DEF Steady
  <2> QED
    BY <1>1, <1>2, <2>1, GoesOn
<1>3. CASE frames' = [frames EXCEPT ![Len(frames)].at = Insn[2]]
  <2>1. Top = frames[Len(frames)] /\ FrameOK(code, objs, Top)
    BY <1>1, TopIs DEF Steady
  <2>2. Top = Parts(Top.key, Top.at, Top.ret, Top.from, Top.regs)
    BY <2>1 DEF FrameOK, Parts
  <2>3. \A k, a, t, w, s, x : [Parts(k, a, t, w, s) EXCEPT !.at = x] = Parts(k, x, t, w, s)
    BY DEF Parts
  <2>4. [Top EXCEPT !.at = Insn[2]] = Parts(Top.key, Insn[2], Top.ret, Top.from, Top.regs)
    BY <2>2, <2>3
  <2>5. frames' = [frames EXCEPT ![Len(frames)] = [Top EXCEPT !.at = Insn[2]]]
    BY <1>3, <2>1
  <2>6. TopWent(frames', Insn[2], Top.ret)
    BY <2>4, <2>5 DEF TopWent
  <2>7. Insn[2] \in DOMAIN code[Top.key].insns /\ code[Top.key].insns[Insn[2]][1] # "MoveResult"
    BY <1>1, OperandsHere
  <2>8. IsVal(objs, Top.ret)
    BY <2>1 DEF FrameOK
  <2>9. put \subseteq put
    OBVIOUS
  <2>10. FramesOK(code, objs, frames') /\ (Truth => FramesTrue(code, sol, put, objs, frames'))
    BY <1>1, <2>6, <2>7, <2>8, <2>9, TopGoes
  <2>11. HeapOK(code, objs, heap, put)
    BY DEF Steady
  <2> QED
    BY <1>1, <2>10, <2>11 DEF MachineKept
<1> QED
  BY <1>2, <1>3 DEF Jump

-----------------------------------------------------------------------------
(***************************************************************************)
(* Views of a lock, and static fields.                                     *)
(***************************************************************************)
\* A view of a lock is a view of what the lock stands for.
LEMMA ViewMeans ==
  ASSUME NEW P, NEW O, NEW args, NEW x, NEW l, Means(P, O, args, x, l), NEW mode, mode # "Plain", IsLock(l)
  PROVE  Means(P, O, args, <<x[1], mode>>, WithMode(l, mode))
<1> DEFINE w == WithMode(l, mode)
<1>1. w.root = l.root /\ w.fields = l.fields /\ w.mode = mode
  BY DEF WithMode, IsLock, Lock
<1> HIDE DEF w
<1>2. CASE IsOpaque(l)
  BY <1>1, <1>2 DEF Means, IsOpaque, Kind, w
<1>3. CASE ~ IsOpaque(l)
  <2>1. PICK y : Reaches(P, Origins(O, args, l), l.fields, y) /\ x = As(y, l.mode)
    BY <1>3 DEF Means
  <2>2. <<x[1], mode>> = As(y, mode)
    BY <2>1 DEF As
  <2>3. Origins(O, args, w) = Origins(O, args, l)
    BY <1>1, OriginsOfRoot
  <2>4. Means(P, O, args, <<x[1], mode>>, w)
    BY <1>1, <2>1, <2>2, <2>3 DEF Means
  <2> QED
    BY <2>4 DEF w
<1> QED
  BY <1>2, <1>3

\* The option that the pass knows for register r when the instruction at hand is met.
HereKnown(r) == Known(At(code, Top.key, Top.at - 1), r)

\* What is read from a register is what the pass knows of it.
LEMMA HereMeans ==
  ASSUME Steady, frames # <<>>, Truth, ~ Astray, NEW r \in Reads(Insn), r \in 0 .. code[Top.key].registers - 1,
         NEW v \in Range(Reg(r)), NEW l \in Range(HereKnown(r))
  PROVE  Means(put, objs, TopArgs, v, l)
<1>1. /\ IsCode(code) /\ Top.key \in DOMAIN code /\ Top.at \in DOMAIN code[Top.key].insns
  BY InsnHere
<1>2. Believed(code, put, objs, TopArgs, Top)
  BY TopTrue DEF FrameTrue
<1>3. Top.from[r] = SeenLast(code, Top.key, Top.at, r)
  BY ReadHere DEF Steady
<1> QED
  BY <1>1, <1>2, <1>3, ReadMeans DEF HereKnown, Reg

\* The locks that the pass knows are well made.
LEMMA HereFine ==
  ASSUME Steady, frames # <<>>, NEW r, NEW l \in Range(HereKnown(r))
  PROVE  Fine(code[Top.key], l)
<1>1. /\ IsCode(code) /\ Top.key \in DOMAIN code /\ Top.at \in DOMAIN code[Top.key].insns
  BY InsnHere
<1>2. Top.at - 1 \in 0 .. Len(code[Top.key].insns)
  BY <1>1, CodeRuns
<1>3. AllFine(code[Top.key], At(code, Top.key, Top.at - 1))
  BY <1>1, <1>2, PassOfCode
<1> QED
  BY <1>3 DEF AllFine, HereKnown

LEMMA ViewKeeps ==
  ASSUME Steady, View
  PROVE  MachineKept
<1> DEFINE k == Top.key
           at == Top.at
           r == Insn[3][1]
           mode == Views[Insn[2]]
           x == Reg(r)[1]
           ret == <<<<x[1], mode>>>>
<1>1. /\ frames # <<>> /\ Insn[1] = "Invoke" /\ Insn[2] \in DOMAIN Views /\ Reg(r) # <<>>
      /\ frames' = Advanced([Top EXCEPT !.ret = ret])
      /\ objs' = objs /\ heap' = heap /\ put' = put
  BY DEF View, Running
<1>2. TopWent(frames', at + 1, ret)
  BY <1>1, AdvancedTop
<1>3. IsCode(code) /\ k \in DOMAIN code /\ at \in DOMAIN code[k].insns /\ Insn = code[k].insns[at]
  BY <1>1, InsnHere
<1>4. at \in Nat /\ at + 1 \in DOMAIN code[k].insns
  BY <1>1, <1>3, NextInsn
<1>5. Insn[3] \in Seq(0 .. code[k].registers - 1) /\ Len(Insn[3]) > 0
  <2>1. IsCallOf(code, Insn) /\ Insn[3] \in Seq(0 .. code[k].registers - 1)
    BY <1>1, OperandsHere
  <2>2. Insn[2] \in Library
    BY <1>1 DEF Library
  <2> QED
    BY <2>1, <2>2 DEF IsCallOf
<1>6. r \in 0 .. code[k].registers - 1 /\ r \in Range(Insn[3]) /\ 1 \in DOMAIN Insn[3]
  <2>1. \A S : \A s \in Seq(S) : Len(s) > 0 => s[1] \in S /\ 1 \in DOMAIN s
    OBVIOUS
  <2>2. r \in 0 .. code[k].registers - 1 /\ 1 \in DOMAIN Insn[3]
    BY <1>5, <2>1
  <2> QED
    BY <2>2 DEF Range
<1>7. mode \in {"Read", "Write"}
  BY <1>1, ViewsAre
<1>8. IsVal(objs, Reg(r))
  BY <1>1, <1>6, TopIs DEF Steady
<1>9. x \in objs \X Modes /\ Range(Reg(r)) = {x}
  <2>1. Reg(r) = <<x>> /\ x \in objs \X Modes
    BY <1>1, <1>8 DEF IsVal
  <2> HIDE DEF x
  <2> QED
    BY <2>1, OptionRange
<1> HIDE DEF mode, x
<1>10. IsVal(objs, ret)
  BY <1>7, <1>9 DEF IsVal, Modes
<1>11. ASSUME Truth, ~ Astray, NEW v \in Range(ret), NEW l \in Range(At(code, k, (at + 1) - 1).ret)
       PROVE  Means(put, objs, TopArgs, v, l)
  <2>1. v = <<x[1], mode>>
    BY <1>11, OptionRange
  <2>2. At(code, k, at).ret = Returned(Getters(code), At(code, k, at - 1), Insn[2], Insn[3]) /\ (at + 1) - 1 = at
    BY <1>1, <1>3, <1>4, RetOfCall
  <2>3. At(code, k, at).ret = IF HereKnown(r) = <<>> THEN <<>> ELSE <<WithMode(HereKnown(r)[1], mode)>>
    BY <1>1, <1>6, <2>2 DEF Returned, HereKnown, mode
  <2>4. HereKnown(r) # <<>> /\ l = WithMode(HereKnown(r)[1], mode)
    BY <1>11, <2>2, <2>3, OptionRange
  <2> DEFINE a == HereKnown(r)[1]
  <2>5. a \in Range(HereKnown(r))
    <3>1. HereKnown(r) = <<a>>
      BY <2>4, KnownIsOption DEF HereKnown, IsOption
    <3> HIDE DEF a
    <3> QED
      BY <3>1, OptionRange
  <2>6. Reads(Insn) = Range(Insn[3])
    BY <1>1 DEF Reads
  <2>7. Means(put, objs, TopArgs, x, a)
    BY <1>1, <1>6, <1>9, <1>11, <2>5, <2>6, HereMeans
  <2>8. IsLock(a)
    BY <1>1, <2>5, HereFine DEF Fine, Proper
  <2> QED
    BY <1>7, <2>1, <2>4, <2>7, <2>8, ViewMeans
<1> HIDE DEF k, at, ret, r
<1>12. put \subseteq put
  OBVIOUS
<1>13. FramesOK(code, objs, frames')
  BY <1>1, <1>2, <1>4, <1>10, <1>12, TopGoes DEF k
<1>14. Truth /\ ~ Astray => FramesTrue(code, sol, put, objs, frames')
  BY <1>1, <1>2, <1>4, <1>10, <1>11, <1>12, TopGoes DEF k
<1>15. HeapOK(code, objs, heap, put)
  BY DEF Steady
<1> QED
  BY <1>1, <1>13, <1>14, <1>15 DEF MachineKept

-----------------------------------------------------------------------------
\* The heap after o is stored in field f of the owner.
HeapAfter(h, owner, f, o) ==
  IF o = <<>> THEN [w \in DOMAIN h \ {<<owner, f>>} |-> h[w]] ELSE Bind(h, <<owner, f>>, o[1])

PutAfter(P, owner, f, o) == P \cup {<<owner, f, v>> : v \in Range(o)}

LEMMA HeapAfterIs ==
  ASSUME NEW h, NEW owner, NEW f, NEW o, NEW w \in DOMAIN HeapAfter(h, owner, f, o)
  PROVE  \/ w \in DOMAIN h /\ HeapAfter(h, owner, f, o)[w] = h[w]
         \/ o # <<>> /\ w = <<owner, f>> /\ HeapAfter(h, owner, f, o)[w] = o[1]
<1>1. CASE o = <<>>
  BY <1>1 DEF HeapAfter
<1>2. CASE o # <<>>
  <2>1. HeapAfter(h, owner, f, o) = Bind(h, <<owner, f>>, o[1])
    BY <1>2 DEF HeapAfter
  <2> DEFINE x == <<owner, f>>
  <2> HIDE DEF x
  <2>2. w \in DOMAIN Bind(h, x, o[1])
    BY <2>1 DEF x
  <2>3. (w \in DOMAIN h /\ Bind(h, x, o[1])[w] = h[w]) \/ (w = x /\ Bind(h, x, o[1])[w] = o[1])
    <3>1. w \in DOMAIN h \cup {x} /\ Bind(h, x, o[1])[w] = IF w = x THEN o[1] ELSE h[w]
      BY <2>2 DEF Bind
    <3> QED
      BY <3>1
  <2> QED
    BY <1>2, <2>1, <2>3 DEF x
<1> QED
  BY <1>1, <1>2

LEMMA PutKeepsHeap ==
  ASSUME NEW c, NEW O, NEW h, NEW P, HeapOK(c, O, h, P), NEW owner, NEW f, NEW o, IsVal(O, o),
         \A v \in O \X Modes : IsPut(c, O, <<owner, f, v>>)
  PROVE  HeapOK(c, O, HeapAfter(h, owner, f, o), PutAfter(P, owner, f, o))
<1> DEFINE Q == PutAfter(P, owner, f, o)
           g == HeapAfter(h, owner, f, o)
<1>1. \A v \in Range(o) : v \in O \X Modes /\ <<owner, f, v>> \in Q
  BY OptionRange DEF IsVal, PutAfter
<1>2. \A q \in Q : IsPut(c, O, q)
  BY <1>1 DEF HeapOK, PutAfter
<1>3. P \subseteq Q
  BY DEF PutAfter
<1>4. ASSUME NEW w \in DOMAIN g PROVE <<w[1], w[2], g[w]>> \in Q
  <2>1. CASE w \in DOMAIN h /\ g[w] = h[w]
    <3>1. <<w[1], w[2], h[w]>> \in P
      BY <2>1 DEF HeapOK
    <3> QED
      BY <1>3, <2>1, <3>1
  <2>2. CASE o # <<>> /\ w = <<owner, f>> /\ g[w] = o[1]
    <3>1. o[1] \in Range(o)
      BY <2>2, OptionRange DEF IsVal
    <3>2. w[1] = owner /\ w[2] = f
      BY <2>2
    <3> QED
      BY <1>1, <2>2, <3>1, <3>2
  <2> QED
    BY <2>1, <2>2, HeapAfterIs
<1> HIDE DEF Q, g
<1>5. HeapOK(c, O, g, Q)
  BY <1>2, <1>4 DEF HeapOK
<1> QED
  BY <1>5 DEF g, Q

LEMMA PutStaticKeeps ==
  ASSUME Steady, PutStatic
  PROVE  MachineKept
<1> DEFINE f == Insn[3]
           o == Reg(Insn[2])
<1>1. frames # <<>> /\ Insn[1] = "Sput" /\ Put(Statics(f[1]), f, o)
  BY DEF PutStatic, Running
<1>2. Insn[2] \in 0 .. code[Top.key].registers - 1 /\ IsFieldName(f) /\ f \notin InstanceFields(code)
  BY <1>1, OperandsHere
<1>3. IsVal(objs, o)
  BY <1>1, <1>2, TopIs DEF Steady
<1>4. \A v \in objs \X Modes : IsPut(code, objs, <<Statics(f[1]), f, v>>)
  BY <1>2 DEF IsPut
<1> HIDE DEF f, o
<1>5. /\ heap' = HeapAfter(heap, Statics(f[1]), f, o)
      /\ put' = PutAfter(put, Statics(f[1]), f, o) /\ objs' = objs
      /\ Top.at \notin found[Top.key].became => frames' = Advanced(Top)
  BY <1>1 DEF Put, HeapAfter, PutAfter
<1>6. HeapOK(code, objs, heap', put')
  BY <1>3, <1>4, <1>5, PutKeepsHeap DEF Steady
<1>7. Top.at \notin found[Top.key].became
  <2>1. IsCode(code) /\ Top.key \in DOMAIN code /\ Top.at \in DOMAIN code[Top.key].insns /\ Insn = code[Top.key].insns[Top.at]
    BY <1>1, InsnHere
  <2>2. ~ Renamed(code[Top.key], At(code, Top.key, Top.at - 1), Top.at)
    BY <1>1, <2>1 DEF Renamed
  <2>3. found = Summaries(code)
    BY DEF Steady
  <2> QED
    BY <2>1, <2>2, <2>3, BecameIs
<1>8. put \subseteq put'
  BY <1>5 DEF PutAfter
<1> QED
  BY <1>1, <1>5, <1>6, <1>7, <1>8, GoesOn

-----------------------------------------------------------------------------
(***************************************************************************)
(* Fields of objects.                                                      *)
(***************************************************************************)
\* The option that a read register holds, when it holds something.
LEMMA HeldIs ==
  ASSUME NEW O, NEW o, IsVal(O, o), o # <<>>
  PROVE  o = <<o[1]>> /\ o[1] \in O \X Modes /\ Range(o) = {o[1]}
<1>1. o = <<o[1]>> /\ o[1] \in O \X Modes
  BY DEF IsVal
<1> DEFINE x == o[1]
<1>2. o = <<x>>
  BY <1>1
<1> HIDE DEF x
<1>3. Range(o) = {x}
  BY <1>2, OptionRange
<1> QED
  BY <1>1, <1>3 DEF x

\* What OwnAllocations says of the store at hand.
LEMMA OwnBase ==
  ASSUME Steady, frames # <<>>, OwnAllocations, Insn[1] = "Iput", Top.at \in found[Top.key].became
  PROVE  HereKnown(Insn[3]) = <<NewLock(<<"This", "this">>)>>
<1> DEFINE k == Top.key
           at == Top.at
           m == code[k]
           s == CHOOSE x \in Summaries(code)[k].stores : x.at = at
<1>1. IsCode(code) /\ k \in DOMAIN code /\ at \in DOMAIN m.insns /\ Insn = m.insns[at] /\ found = Summaries(code)
  BY InsnHere DEF Steady
<1>2. m.insns[at][1] = "Iput" /\ m = code[k]
  BY <1>1
<1>3. s \in Summaries(code)[k].stores /\ s = StoreOf(At(code, k, at - 1), at, m.insns[at])
  BY <1>1, <1>2, StoreIs
<1> HIDE DEF s
<1>4. s.at = at /\ s.base = Known(At(code, k, at - 1), Insn[3])
  BY <1>1, <1>3 DEF StoreOf
<1>5. s \in StoresIn(k) /\ s.at \in found[k].became
  BY <1>1, <1>3, <1>4 DEF StoresIn
<1>6. s.base = <<NewLock(<<"This", "this">>)>>
  BY <1>1, <1>5 DEF OwnAllocations
<1> QED
  BY <1>4, <1>6 DEF HereKnown

LEMMA PutFieldKeeps ==
  ASSUME Steady, PutField
  PROVE  /\ HeapOK(code, objs', heap', put')
         /\ FramesOK(code, objs', frames')
         /\ Truth /\ ~ Astray /\ OwnAllocations => FramesTrue(code, sol, put', objs', frames')
<1> DEFINE f == Insn[4]
           o == Reg(Insn[2])
           b == Reg(Insn[3])
           owner == b[1]
<1>1. frames # <<>> /\ Insn[1] = "Iput" /\ Owner(b, f) # {} /\ Put(owner, f, o)
  BY DEF PutField, Running
<1>2. /\ Insn[2] \in 0 .. code[Top.key].registers - 1 /\ Insn[3] \in 0 .. code[Top.key].registers - 1
      /\ IsFieldName(f)
  BY <1>1, OperandsHere
<1>3. IsVal(objs, o) /\ IsVal(objs, b)
  BY <1>1, <1>2, TopIs DEF Steady
<1>4. IsCode(code) /\ Top.key \in DOMAIN code /\ Top.at \in DOMAIN code[Top.key].insns /\ Insn = code[Top.key].insns[Top.at]
  BY <1>1, InsnHere
<1>5. f \in InstanceFields(code)
  BY <1>1, <1>4, OperandIs
<1>6. b # <<>>
  BY <1>1, OptionRange DEF Owner
<1>7. owner \in objs \X Modes /\ Range(b) = {owner} /\ Typed(owner, f[1])
  <2>1. owner \in objs \X Modes /\ Range(b) = {owner}
    BY <1>3, <1>6, HeldIs
  <2>2. PICK v \in Range(b) : Typed(v, f[1])
    BY <1>1 DEF Owner
  <2> QED
    BY <2>1, <2>2
<1>8. \A v \in objs \X Modes : IsPut(code, objs, <<owner, f, v>>)
  BY <1>2, <1>5, <1>7 DEF IsPut
<1>9. Reads(Insn) = {Insn[2], Insn[3]}
  BY <1>1 DEF Reads
<1> HIDE DEF f, o, b, owner
<1>10. /\ heap' = HeapAfter(heap, owner, f, o)
       /\ put' = PutAfter(put, owner, f, o) /\ objs' = objs
       /\ frames' = Advanced(IF Top.at \in found[Top.key].became THEN Written(Insn[2], Reg(Insn[2])) ELSE Top)
  BY <1>1 DEF Put, HeapAfter, PutAfter
<1>11. HeapOK(code, objs, heap', put')
  BY <1>3, <1>8, <1>10, PutKeepsHeap DEF Steady
<1>12. put \subseteq put' /\ \A v \in Range(o) : <<owner, f, v>> \in put'
  BY <1>10 DEF PutAfter
<1>13. CASE Top.at \notin found[Top.key].became
  <2>1. frames' = Advanced(Top)
    BY <1>10, <1>13
  <2>2. MachineKept
    BY <1>1, <1>10, <1>11, <1>12, <2>1, GoesOn
  <2> QED
    BY <2>2 DEF MachineKept
<1>14. CASE Top.at \in found[Top.key].became
  <2>1. frames' = Advanced(Written(Insn[2], o))
    BY <1>10, <1>14 DEF o
  <2>2. TopWrote(frames', Insn[2], o)
    BY <2>1, AdvancedWritten
  <2>3. Insn[1] \notin {"Return", "Goto", "Invoke"} /\ objs \subseteq objs
    BY <1>1
  <2>4. FramesOK(code, objs, frames')
    BY <1>1, <1>2, <1>3, <1>12, <2>2, <2>3, TopWrites
  <2>5. ASSUME Truth, ~ Astray, OwnAllocations PROVE FramesTrue(code, sol, put', objs, frames')
    <3>1. HereKnown(Insn[3]) = <<NewLock(<<"This", "this">>)>>
      BY <1>1, <1>14, <2>5, OwnBase
    <3> DEFINE this == NewLock(<<"This", "this">>)
    <3>2. this \in Range(HereKnown(Insn[3]))
      BY <3>1, OptionRange
    <3>3. Insn[3] \in Reads(Insn) /\ owner \in Range(Reg(Insn[3]))
      BY <1>7, <1>9 DEF b
    <3>4. Means(put, objs, TopArgs, owner, this)
      BY <1>1, <1>2, <2>5, <3>2, <3>3, HereMeans
    <3>5. owner \in Origins(objs, TopArgs, this)
      <4>1. <<"This", "this">>[1] # "Opaque"
        OBVIOUS
      <4> QED
        BY <3>4, <4>1, WholeMeans
    <3>6. ASSUME Insn[2] \in Changes(code, Top.key, Top.at), NEW v \in Range(o), NEW l \in Range(Known(At(code, Top.key, Top.at), Insn[2]))
          PROVE  Means(put', objs, TopArgs, v, l)
      <4>1. Known(At(code, Top.key, Top.at), Insn[2]) = Left(code[Top.key], At(code, Top.key, Top.at - 1), Top.at, Insn)
        BY <1>4, <3>6, ChangedIs
      <4>2. Left(code[Top.key], At(code, Top.key, Top.at - 1), Top.at, Insn) = <<FieldLock(<<"This", "this">>, f[2])>>
        BY <1>1 DEF Left, f
      <4>3. l = FieldLock(<<"This", "this">>, f[2])
        BY <3>6, <4>1, <4>2, OptionRange
      <4> DEFINE q == <<owner, f, v>>
      <4>4. q \in put' /\ q[1] = owner /\ q[2][2] = f[2] /\ q[3] = v
        BY <1>12, <3>6
      <4> HIDE DEF q
      <4>5. Means(put', objs, TopArgs, q[3], FieldLock(<<"This", "this">>, f[2]))
        BY <3>5, <4>4, FieldMeans
      <4> QED
        BY <4>3, <4>4, <4>5
    <3> QED
      BY <1>1, <1>2, <1>3, <1>12, <2>2, <2>3, <2>5, <3>6, TopWrites
  <2> QED
    BY <1>10, <1>11, <2>4, <2>5
<1> QED
  BY <1>13, <1>14

-----------------------------------------------------------------------------
(***************************************************************************)
(* What a call passes, and what the formals are bound to.                  *)
(***************************************************************************)
\* What a call of method k passes with the actual a, if the formals of k are bound to g.
Reckoned(g, k, a) ==
  IF a = <<>> THEN <<"Top">>
  ELSE IF Kind(a[1]) = "Param"
    THEN LET r == g[<<k, a[1].root[2]>>]
         IN  IF r \in {<<"Bottom">>, <<"Top">>} THEN r ELSE <<"Val", Extend(r[2], a[1].fields, a[1].mode)>>
  ELSE IF Kind(Ground(a[1], ClassOf[k], k)) \in Grounded THEN <<"Val", Ground(a[1], ClassOf[k], k)>>
  ELSE <<"Top">>

IsBound(r) == r = <<"Bottom">> \/ r = <<"Top">> \/ (\E l : r = <<"Val", l>> /\ Proper(l) /\ ~ IsParametric(l))

\* Formal j of the callee is no other than what the call at instruction `at` of method k passes.
Agrees(c, g, k, at, j) ==
  LET i == c[k].insns[at]
      w == Reckoned(g, k, Known(At(c, k, at - 1), i[3][j + 1]))
      r == g[<<i[2], j>>]
  IN  r = <<"Top">> \/ w = <<"Bottom">> \/ r = w

SolFits(c, g) ==
  \A k \in DOMAIN c : \A at \in DOMAIN c[k].insns :
    c[k].insns[at][1] = "Invoke" /\ c[k].insns[at][2] \in DOMAIN c =>
      \A j \in 0 .. c[c[k].insns[at][2]].ins - 1 : Agrees(c, g, k, at, j)

SolTyped(c, g) == \A k \in DOMAIN c : \A j \in 0 .. c[k].ins - 1 : IsBound(g[<<k, j>>])

-----------------------------------------------------------------------------
\* What a lock of a formal is, is what lies along the lock that the formal is bound to.
LEMMA ParamMeans ==
  ASSUME NEW c, NEW g, NEW P, NEW O, NEW args, NEW k, BoundRight(c, g, P, O, args, k), Plainly(P),
         NEW a, Fine(c[k], a), Kind(a) = "Param", NEW l, g[<<k, a.root[2]>>] = <<"Val", l>>, Proper(l),
         NEW x, Means(P, O, args, x, a)
  PROVE  Means(P, O, <<>>, x, Extend(l, a.fields, a.mode))
<1> DEFINE p == a.root[2]
<1>1. p \in 0 .. c[k].ins - 1 /\ a.mode \in Modes /\ IsPath(a.fields)
  BY DEF Fine, Proper
<1>2. \A y \in Range(ArgOrNone(args, p)) : Means(P, O, <<>>, y, l)
  BY <1>1 DEF BoundRight
<1>3. Origins(O, args, a) = Range(ArgOrNone(args, p))
  BY DEF Origins
<1>4. PICK y : Reaches(P, Origins(O, args, a), a.fields, y) /\ x = As(y, a.mode)
  BY DEF Means, IsOpaque, Kind
<1>5. PICK z \in Origins(O, args, a) : Reaches(P, {z}, a.fields, y)
  BY <1>4, ReachesFrom
<1>6. Means(P, O, <<>>, z, l)
  BY <1>2, <1>3, <1>5
<1> QED
  BY <1>1, <1>4, <1>5, <1>6, ExtendMeans

\* What a lock of a frame is, it is in the whole program.
LEMMA GroundHere ==
  ASSUME NEW c, IsCode(c), NEW k \in DOMAIN c, NEW P, NEW O, NEW args, ArgsOK(c, O, args, k),
         NEW a, Fine(c[k], a), NEW x, Means(P, O, args, x, a), NEW method
  PROVE  Means(P, O, <<>>, x, Ground(a, ClassOf[k], method))
<1>1. c[k].class = ClassOf[k]
  BY CodeRuns
<1>2. ASSUME Kind(a) = "This", NEW v \in Range(ArgOrNone(args, 0)) PROVE v \in O \X Modes /\ Typed(v, ClassOf[k])
  <2>1. HasReceiver(c[k])
    BY <1>2 DEF Fine
  <2>2. Typed(v, ClassOf[k]) /\ IsVal(O, ArgOrNone(args, 0))
    BY <1>1, <1>2, <2>1 DEF ArgsOK
  <2> QED
    BY <1>2, <2>2, HeldIs, OptionRange
<1>3. Proper(a)
  BY DEF Fine
<1> QED
  BY <1>2, <1>3, GroundMeans

\* A call passes what the formals of the callee are bound to.
LEMMA PassedIs ==
  ASSUME NEW c, IsCode(c), NEW g, SolTyped(c, g), NEW k \in DOMAIN c, NEW P, NEW O, NEW args, ArgsOK(c, O, args, k),
         BoundRight(c, g, P, O, args, k), Plainly(P), NEW a, a # <<>> => Fine(c[k], a[1]),
         NEW x, a # <<>> => Means(P, O, args, x, a[1])
  PROVE  /\ Reckoned(g, k, a) # <<"Bottom">>
         /\ \A l : Reckoned(g, k, a) = <<"Val", l>> => Means(P, O, <<>>, x, l)
<1>1. CASE a = <<>>
  BY <1>1 DEF Reckoned
<1>2. CASE a # <<>> /\ Kind(a[1]) = "Param"
  <2> DEFINE r == g[<<k, a[1].root[2]>>]
  <2>1. a[1].root[2] \in 0 .. c[k].ins - 1
    BY <1>2 DEF Fine
  <2>2. IsBound(r) /\ r # <<"Bottom">>
    BY <2>1 DEF SolTyped, BoundRight
  <2>3. CASE r = <<"Top">>
    BY <1>2, <2>3 DEF Reckoned
  <2>4. CASE r # <<"Top">>
    <3>1. PICK l : r = <<"Val", l>> /\ Proper(l)
      BY <2>2, <2>4 DEF IsBound
    <3>2. Reckoned(g, k, a) = <<"Val", Extend(l, a[1].fields, a[1].mode)>>
      BY <1>2, <3>1 DEF Reckoned
    <3>3. Means(P, O, <<>>, x, Extend(l, a[1].fields, a[1].mode))
      BY <1>2, <3>1, ParamMeans
    <3> QED
      BY <3>2, <3>3
  <2> QED
    BY <2>3, <2>4
<1>3. CASE a # <<>> /\ Kind(a[1]) # "Param"
  <2>1. Means(P, O, <<>>, x, Ground(a[1], ClassOf[k], k))
    BY <1>3, GroundHere
  <2>2. \/ Reckoned(g, k, a) = <<"Top">>
        \/ Reckoned(g, k, a) = <<"Val", Ground(a[1], ClassOf[k], k)>>
    BY <1>3 DEF Reckoned
  <2> QED
    BY <2>1, <2>2
<1> QED
  BY <1>1, <1>2, <1>3

-----------------------------------------------------------------------------
\* The arguments of the call at hand.
ArgsHere == [j \in DOMAIN Insn[3] |-> Reg(Insn[3][j])]

LEMMA CallIsTyped ==
  ASSUME Steady, Call
  PROVE  /\ ArgsOK(code, objs, ArgsHere, Insn[2])
         /\ DOMAIN ArgsHere = 1 .. code[Insn[2]].ins /\ code[Insn[2]].ins \in Nat
         /\ \A j \in 1 .. code[Insn[2]].ins :
              Insn[3][j] \in 0 .. code[Top.key].registers - 1 /\ Insn[3][j] \in Reads(Insn) /\ ArgsHere[j] = Reg(Insn[3][j])
         /\ Insn[3] \in Seq(0 .. code[Top.key].registers - 1)
<1> DEFINE e == Insn[2]
           regs == Insn[3]
           m == code[e]
           args == ArgsHere
<1>1. /\ frames # <<>> /\ Insn[1] = "Invoke" /\ e \in DOMAIN code
      /\ HasReceiver(m) => \E v \in Range(args[1]) : Typed(v, m.class)
      /\ \A j \in DOMAIN args : \A v \in Range(args[j]), T \in Range(m.types[j]) : Typed(v, T)
  BY DEF Call, Running, ArgsHere
<1>2. regs \in Seq(0 .. code[Top.key].registers - 1) /\ IsCallOf(code, Insn)
  BY <1>1, OperandsHere
<1>3. Len(regs) = m.ins
  BY <1>1, <1>2 DEF IsCallOf
<1>4. \A S : \A s \in Seq(S) : Len(s) \in Nat /\ DOMAIN s = 1 .. Len(s) /\ \A j \in 1 .. Len(s) : s[j] \in S /\ s[j] \in Range(s)
  BY DEF Range
<1>5. DOMAIN regs = 1 .. m.ins /\ m.ins \in Nat /\ \A j \in 1 .. m.ins : regs[j] \in 0 .. code[Top.key].registers - 1 /\ regs[j] \in Range(regs)
  BY <1>2, <1>3, <1>4
<1>6. Reads(Insn) = Range(regs)
  BY <1>1 DEF Reads
<1>7. DOMAIN args = 1 .. m.ins /\ \A j \in 1 .. m.ins : args[j] = Reg(regs[j])
  BY <1>5 DEF ArgsHere
<1>8. \A r \in 0 .. code[Top.key].registers - 1 : IsVal(objs, Reg(r))
  BY <1>1, TopIs DEF Steady
<1> HIDE DEF e, regs, m, args
<1>9. \A j \in 1 .. m.ins : IsVal(objs, args[j])
  BY <1>5, <1>7, <1>8
<1>10. ASSUME NEW i PROVE IsVal(objs, ArgOrNone(args, i))
  BY <1>7, <1>9 DEF ArgOrNone, IsVal
<1>11. ASSUME HasReceiver(m), NEW v \in Range(ArgOrNone(args, 0)) PROVE Typed(v, m.class)
  <2>1. m.ins > 0 /\ 0 + 1 = 1 /\ 1 \in 1 .. m.ins
    BY <1>5, <1>11 DEF HasReceiver
  <2>2. ArgOrNone(args, 0) = args[1]
    BY <1>7, <2>1 DEF ArgOrNone
  <2>3. PICK x \in Range(args[1]) : Typed(x, m.class)
    BY <1>1, <1>11
  <2>4. IsVal(objs, args[1])
    BY <1>9, <2>1
  <2>5. x = v
    BY <1>11, <2>2, <2>3, <2>4, HeldIs, OptionRange
  <2> QED
    BY <2>3, <2>5
<1>12. ASSUME NEW j \in 1 .. m.ins, NEW v \in Range(ArgOrNone(args, j - 1)), NEW T \in Range(m.types[j]) PROVE Typed(v, T)
  <2>1. (j - 1) + 1 = j
    BY <1>5
  <2>2. ArgOrNone(args, j - 1) = args[j]
    BY <1>7, <2>1 DEF ArgOrNone
  <2> QED
    BY <1>1, <1>7, <1>12, <2>2
<1>13. ArgsOK(code, objs, args, e)
  BY <1>10, <1>11, <1>12 DEF ArgsOK, m
<1> QED
  BY <1>2, <1>5, <1>6, <1>7, <1>13 DEF e, m, args, regs

\* The callee is given what its formals are bound to.
LEMMA CallIsBound ==
  ASSUME Steady, Call, Truth, ~ Astray, SolFits(code, sol), SolTyped(code, sol)
  PROVE  BoundRight(code, sol, put, objs, ArgsHere, Insn[2])
<1> DEFINE k == Top.key
           at == Top.at
           e == Insn[2]
<1>1. frames # <<>> /\ Insn[1] = "Invoke" /\ e \in DOMAIN code
  BY DEF Call, Running
<1>2. IsCode(code) /\ k \in DOMAIN code /\ at \in DOMAIN code[k].insns /\ Insn = code[k].insns[at]
  BY <1>1, InsnHere
<1>3. BoundRight(code, sol, put, objs, TopArgs, k)
  BY <1>1, TopTrue DEF FrameTrue
<1>4. ArgsOK(code, objs, TopArgs, k)
  BY <1>1, TopIs DEF Steady, TopArgs
<1>5. Plainly(put)
  BY PutsArePlain DEF Steady
<1>6. ASSUME NEW j \in 0 .. code[e].ins - 1
      PROVE  /\ sol[<<e, j>>] # <<"Bottom">>
             /\ \A l : sol[<<e, j>>] = <<"Val", l>> => \A x \in Range(ArgOrNone(ArgsHere, j)) : Means(put, objs, <<>>, x, l)
  <2> DEFINE r == Insn[3][j + 1]
             a == HereKnown(r)
  <2>1. j + 1 \in 1 .. code[e].ins
    BY CallIsTyped
  <2>2. ArgOrNone(ArgsHere, j) = Reg(r) /\ r \in 0 .. code[k].registers - 1 /\ r \in Reads(Insn)
    BY <2>1, CallIsTyped DEF ArgOrNone
  <2> HIDE DEF r
  <2>3. a # <<>> => a[1] \in Range(a)
    <3>1. IsOption(a)
      BY KnownIsOption DEF HereKnown
    <3>2. \A o : o = <<o[1]>> => o[1] \in Range(o)
      BY DEF Range
    <3> QED
      BY <3>1, <3>2 DEF IsOption
  <2>4. a # <<>> => Fine(code[k], a[1])
    BY <1>1, <2>3, HereFine
  <2>5. \A x \in Range(Reg(r)) : a # <<>> => Means(put, objs, TopArgs, x, a[1])
    BY <1>1, <2>2, <2>3, HereMeans
  <2>6. Agrees(code, sol, k, at, j)
    BY <1>1, <1>2 DEF SolFits
  <2>7. \/ sol[<<e, j>>] = <<"Top">>
        \/ Reckoned(sol, k, a) = <<"Bottom">>
        \/ sol[<<e, j>>] = Reckoned(sol, k, a)
    BY <1>2, <2>6 DEF Agrees, HereKnown, r
  <2> HIDE DEF a, k, e
  <2>8. \A x \in Range(Reg(r)) : /\ Reckoned(sol, k, a) # <<"Bottom">>
                                /\ \A l : Reckoned(sol, k, a) = <<"Val", l>> => Means(put, objs, <<>>, x, l)
    BY <1>2, <1>3, <1>4, <1>5, <2>4, <2>5, PassedIs
  <2>9. Reckoned(sol, k, a) # <<"Bottom">>
    BY <1>2, <1>3, <2>4 DEF Reckoned, Fine, BoundRight
  <2>10. <<"Top">> # <<"Bottom">> /\ \A l : <<"Top">> # <<"Val", l>>
    OBVIOUS
  <2>11. sol[<<e, j>>] # <<"Bottom">>
    BY <2>7, <2>9, <2>10
  <2>12. ASSUME NEW l, sol[<<e, j>>] = <<"Val", l>>, NEW x \in Range(ArgOrNone(ArgsHere, j)) PROVE Means(put, objs, <<>>, x, l)
    <3>1. Reckoned(sol, k, a) = <<"Val", l>>
      BY <2>7, <2>9, <2>10, <2>12
    <3> QED
      BY <2>2, <2>8, <2>12, <3>1
  <2> QED
    BY <2>11, <2>12
<1> QED
  BY <1>6 DEF BoundRight

-----------------------------------------------------------------------------
(***************************************************************************)
(* Calls.                                                                  *)
(***************************************************************************)
\* What a frame passes in the call it is in, if it is the frame of now gone on behind the call.
LEMMA ArgsToHere ==
  ASSUME Steady, frames # <<>>, Insn[1] = "Invoke", NEW h, NEW ret,
         h = Parts(Top.key, Top.at + 1, ret, Top.from, Top.regs)
  PROVE  /\ CallIn(code, h) = Insn /\ ArgsTo(code, h) = ArgsHere /\ h.at - 1 = Top.at /\ h.key = Top.key
         /\ h.ret = ret /\ h.from = Top.from
<1>1. /\ Top.key \in DOMAIN code /\ Top.at \in DOMAIN code[Top.key].insns /\ Insn = code[Top.key].insns[Top.at]
      /\ IsCode(code)
  BY InsnHere
<1>2. Top.at \in Nat
  BY <1>1, NextInsn
<1>3. h.key = Top.key /\ h.at = Top.at + 1 /\ h.ret = ret /\ h.from = Top.from /\ h.regs = Top.regs
  BY PartsAre
<1>4. h.at - 1 = Top.at
  BY <1>2, <1>3
<1>5. CallIn(code, h) = Insn
  BY <1>1, <1>3, <1>4 DEF CallIn
<1>6. ArgsTo(code, h) = ArgsHere
  BY <1>3, <1>5 DEF ArgsTo, ArgsHere, Reg
<1> QED
  BY <1>3, <1>4, <1>5, <1>6

LEMMA CallKeeps ==
  ASSUME Steady, Call
  PROVE  /\ HeapOK(code, objs', heap', put')
         /\ FramesOK(code, objs', frames')
         /\ Truth /\ ~ Astray /\ SolFits(code, sol) /\ SolTyped(code, sol)
              => FramesTrue(code, sol, put', objs', frames')
<1> DEFINE e == Insn[2]
           at == Top.at
           none == <<>>
           fs == Advanced([Top EXCEPT !.ret = none])
           h == Parts(Top.key, at + 1, none, Top.from, Top.regs)
           fr == Frame(code[e], ArgsHere)
<1>1. /\ frames # <<>> /\ Insn[1] = "Invoke" /\ e \in DOMAIN code /\ objs' = objs /\ heap' = heap /\ put' = put
      /\ frames' = Append(fs, fr)
  BY DEF Call, Running, ArgsHere
<1>2. IsCode(code) /\ Top.key \in DOMAIN code /\ at \in DOMAIN code[Top.key].insns /\ Insn = code[Top.key].insns[at]
  BY <1>1, InsnHere
<1>3. TopWent(fs, at + 1, none)
  BY <1>1, AdvancedTop
<1>4. at \in Nat /\ at + 1 \in DOMAIN code[Top.key].insns
  BY <1>1, <1>2, NextInsn
<1>5. IsVal(objs, none) /\ Range(none) = {}
  BY OptionRange DEF IsVal
<1>6. put \subseteq put
  OBVIOUS
<1> HIDE DEF fs, fr, none
<1>7. FramesOK(code, objs, fs)
  BY <1>1, <1>3, <1>4, <1>5, <1>6, TopGoes DEF at
<1>8. Truth => FramesTrue(code, sol, put, objs, fs)
  BY <1>1, <1>3, <1>4, <1>5, <1>6, TopGoes DEF at
<1>9. fs # <<>> /\ fs[Len(fs)] = h
  <2>1. fs = [frames EXCEPT ![Len(frames)] = h]
    BY <1>3 DEF TopWent
  <2>2. IsPath(frames) /\ Len(frames) \in 1 .. Len(frames)
    BY <1>1, TopIs DEF Steady, FramesOK
  <2> HIDE DEF h
  <2>3. PICK S : frames \in Seq(S)
    BY <2>2 DEF IsPath
  <2>4. frames \in Seq(S \cup {h}) /\ Len(frames) \in Nat /\ Len(frames) > 0
    BY <2>2, <2>3
  <2>5. fs \in Seq(S \cup {h}) /\ Len(fs) = Len(frames) /\ fs[Len(frames)] = h
    BY <2>1, <2>4
  <2> QED
    BY <2>4, <2>5
<1>10. CallIn(code, h) = Insn /\ ArgsTo(code, h) = ArgsHere /\ h.at - 1 = at /\ h.key = Top.key /\ h.ret = none /\ h.from = Top.from
  BY <1>1, ArgsToHere
<1>11. ArgsOK(code, objs, ArgsHere, e) /\ DOMAIN ArgsHere = 1 .. code[e].ins
  BY CallIsTyped
<1>12. FrameOK(code, objs, fr) /\ fr.key = e
  BY <1>1, <1>2, <1>11, StartKeeps DEF fr
<1>13. InCall(code, objs, fs[Len(fs)], fr.key)
  BY <1>1, <1>2, <1>9, <1>10, <1>11, <1>12 DEF InCall, none
<1>14. FramesOK(code, objs, frames') /\ Pushed(code, fs, frames', fr)
  BY <1>1, <1>7, <1>9, <1>12, <1>13, PushKeeps
<1>15. ASSUME Truth, ~ Astray, SolFits(code, sol), SolTyped(code, sol)
       PROVE  FramesTrue(code, sol, put, objs, frames')
  <2>1. BoundRight(code, sol, put, objs, ArgsHere, e)
    BY <1>15, CallIsBound
  <2>2. FrameTrue(code, sol, put, objs, ArgsHere, fr)
    BY <1>1, <1>2, <1>11, <2>1, StartIsTrue DEF fr
  <2>3. ArgsTo(code, fs[Len(fs)]) = ArgsHere
    BY <1>9, <1>10
  <2>4. Fresh(code, fs[Len(fs)])
    <3>1. Reads(Insn) = Range(Insn[3])
      BY <1>1 DEF Reads
    <3>2. \A r \in Range(Insn[3]) : Top.from[r] = SeenLast(code, Top.key, at, r)
      BY <1>1, <1>2, <1>15, <3>1, ReadHere DEF Steady
    <3> QED
      BY <1>9, <1>10, <3>2 DEF Fresh
  <2> QED
    BY <1>7, <1>8, <1>9, <1>12, <1>14, <1>15, <2>2, <2>3, <2>4, PushKeepsTruth
<1> QED
  BY <1>1, <1>14, <1>15 DEF Steady

-----------------------------------------------------------------------------
\* Frame n of fs goes on with the result of the call it was in.
LEMMA ReturnedIs ==
  ASSUME NEW c, NEW O, NEW h, FrameOK(c, O, h), NEW o, IsVal(O, o), NEW fr, fr = [h EXCEPT !.ret = o]
  PROVE  FrameOK(c, O, fr) /\ fr.key = h.key /\ fr.at = h.at /\ fr.ret = o /\ fr.from = h.from /\ fr.regs = h.regs
<1>1. fr = Parts(h.key, h.at, o, h.from, h.regs)
  BY PastIs
<1>2. /\ fr.key = h.key /\ fr.at = h.at /\ fr.ret = o /\ fr.from = h.from /\ fr.regs = h.regs
      /\ fr = [key |-> fr.key, at |-> fr.at, ret |-> fr.ret, from |-> fr.from, regs |-> fr.regs]
  BY <1>1, PartsAre
<1>3. h.at \in DOMAIN c[h.key].insns
  BY DEF FrameOK
<1>4. FrameOK(c, O, fr)
  BY <1>2, <1>3, StepKeeps
<1> QED
  BY <1>2, <1>4

\* What a method returns is what the pass over its caller takes for the result of the call.
LEMMA ResultOfCall ==
  ASSUME NEW c, IsCode(c), NEW P, NEW O, Plainly(P),
         NEW h, FrameOK(c, O, h), h.at - 1 \in DOMAIN c[h.key].insns, CallIn(c, h)[1] = "Invoke",
         NEW k, k = CallIn(c, h)[2], k \in DOMAIN c, NEW outer, Believed(c, P, O, outer, h), Fresh(c, h),
         k \in DOMAIN Getters(c) => Proper(Getters(c)[k]),
         NEW v, k \in DOMAIN Getters(c) => Means(P, O, ArgsTo(c, h), v, Getters(c)[k]),
         NEW l \in Range(At(c, h.key, h.at - 1).ret)
  PROVE  Means(P, O, outer, v, l)
<1> DEFINE at == h.at - 1
           i == CallIn(c, h)
           s == At(c, h.key, at - 1)
           actuals == [j \in DOMAIN i[3] |-> Known(s, i[3][j])]
<1>1. at \in DOMAIN c[h.key].insns /\ i = c[h.key].insns[at] /\ h.key \in DOMAIN c
  BY DEF CallIn, FrameOK
<1>2. At(c, h.key, at).ret = Returned(Getters(c), s, k, i[3])
  BY <1>1, RetOfCall
<1>3. k \notin Library
  BY DEF IsCode
<1>4. k \notin DOMAIN Views
  BY <1>3 DEF Library
<1>5. k \in DOMAIN Getters(c) /\ Returned(Getters(c), s, k, i[3]) = Subst(Getters(c)[k], actuals)
  <2>1. CASE k \in DOMAIN Getters(c)
    BY <1>3, <1>4, <2>1 DEF Returned
  <2>2. CASE k \notin DOMAIN Getters(c)
    <3>1. Returned(Getters(c), s, k, i[3]) = <<>>
      BY <1>4, <2>2 DEF Returned
    <3> QED
      BY <1>2, <3>1, OptionRange
  <2> QED
    BY <2>1, <2>2
<1>6. i[3] \in Seq(0 .. c[h.key].registers - 1)
  <2>1. i[1] = "Invoke"
    OBVIOUS
  <2> DEFINE m == c[h.key]
  <2>2. m = c[h.key] /\ at \in DOMAIN m.insns /\ i = m.insns[at]
    BY <1>1
  <2> HIDE DEF m, i, at
  <2>3. i[1] = "Invoke" => i[3] \in Seq(0 .. m.registers - 1)
    BY <1>1, <2>2, InsnIs
  <2> QED
    BY <2>1, <2>2, <2>3 DEF i
<1>7. Passes(P, O, outer, ArgsTo(c, h), actuals)
  <2> SUFFICES ASSUME NEW n \in Nat, NEW x \in Range(ArgOrNone(ArgsTo(c, h), n)), ArgOrNone(actuals, n) # <<>>
               PROVE  Proper(ArgOrNone(actuals, n)[1]) /\ Means(P, O, outer, x, ArgOrNone(actuals, n)[1])
    BY DEF Passes
  <2> DEFINE r == i[3][n + 1]
  <2>1. n + 1 \in DOMAIN i[3]
    BY DEF ArgOrNone
  <2>2. ArgOrNone(actuals, n) = Known(s, r) /\ ArgOrNone(ArgsTo(c, h), n) = h.regs[r]
    BY <2>1 DEF ArgOrNone, ArgsTo
  <2>3. r \in 0 .. c[h.key].registers - 1 /\ r \in Range(i[3])
    <3>1. \A S : \A q \in Seq(S) : \A y \in DOMAIN q : q[y] \in S /\ q[y] \in Range(q)
      BY DEF Range
    <3> DEFINE q == i[3]
               S == 0 .. c[h.key].registers - 1
    <3>2. q \in Seq(S) /\ n + 1 \in DOMAIN q /\ r = q[n + 1]
      BY <1>6, <2>1
    <3> HIDE DEF q, S
    <3>3. q[n + 1] \in S /\ q[n + 1] \in Range(q)
      BY <3>1, <3>2
    <3> QED
      BY <3>2, <3>3 DEF q, S
  <2> HIDE DEF r
  <2>4. h.from[r] = SeenLast(c, h.key, at, r)
    BY <2>3 DEF Fresh
  <2> DEFINE a == Known(s, r)[1]
  <2>5. a \in Range(Known(s, r))
    <3>1. Known(s, r) = <<a>>
      BY <2>2, KnownIsOption DEF IsOption
    <3> HIDE DEF a
    <3> QED
      BY <3>1, OptionRange
  <2>6. Means(P, O, outer, x, a)
    BY <1>1, <2>2, <2>3, <2>4, <2>5, ReadMeans
  <2>7. Fine(c[h.key], a)
    <3>1. at - 1 \in 0 .. Len(c[h.key].insns)
      BY <1>1, CodeRuns
    <3>2. AllFine(c[h.key], s)
      BY <1>1, <3>1, PassOfCode
    <3> QED
      BY <2>5, <3>2 DEF AllFine
  <2> QED
    BY <2>2, <2>6, <2>7 DEF Fine
<1> DEFINE b == Getters(c)[k]
<1>8. Proper(b) /\ Means(P, O, ArgsTo(c, h), v, b)
  BY <1>5
<1> HIDE DEF actuals, b
<1>9. Subst(b, actuals) = <<l>>
  <2>1. l \in Range(Subst(b, actuals))
    BY <1>2, <1>5 DEF b
  <2>2. Subst(b, actuals) # <<>>
    BY <2>1, OptionRange
  <2>3. \E y : Subst(b, actuals) = <<y>>
    BY <2>2 DEF Subst, Bound
  <2> QED
    BY <2>1, <2>3, OptionRange
<1> QED
  BY <1>7, <1>8, <1>9, SubstMeans

-----------------------------------------------------------------------------
(***************************************************************************)
(* Returns.                                                                *)
(***************************************************************************)
\* What a getter returns is what the pass found that it returns.
LEMMA GetterReturns ==
  ASSUME Steady, Return, Truth, ~ Astray, GettersAgree, Top.key \in DOMAIN Getters(code),
         NEW v \in Range(IF Len(Insn) = 1 THEN <<>> ELSE Reg(Insn[2]))
  PROVE  Means(put, objs, TopArgs, v, Getters(code)[Top.key])
<1> DEFINE k == Top.key
           at == Top.at
           G == Getters(code)[k]
           s == At(code, k, at - 1)
<1>1. frames # <<>> /\ Insn[1] = "Return"
  BY DEF Return, Running
<1>2. IsCode(code) /\ k \in DOMAIN code /\ at \in DOMAIN code[k].insns /\ Insn = code[k].insns[at]
  BY <1>1, InsnHere
<1>3. found = Summaries(code) /\ found[k].returns = {<<G>>}
  BY DEF Steady, GettersAgree
<1>4. at \in 1 .. Len(code[k].insns)
  BY <1>2, CodeRuns
<1>5. ReturnsAt(code[k], s, at) = {Result(s, Insn)}
  BY <1>1, <1>2 DEF ReturnsAt
<1>6. Result(s, Insn) \in found[k].returns
  <2> DEFINE N == Len(code[k].insns)
             r == Result(s, Insn)
             S == Summaries(code)[k].returns
  <2>1. r \in ReturnsAt(code[k], s, at)
    BY <1>5
  <2>2. \A x : x \in S <=> \E d \in 1 .. N : x \in ReturnsAt(code[k], At(code, k, d - 1), d)
    BY <1>2, SummaryIs
  <2> HIDE DEF r, S
  <2>3. r \in S
    BY <1>4, <2>1, <2>2
  <2> QED
    BY <1>3, <2>3 DEF r, S
<1> HIDE DEF G
<1>7. Result(s, Insn) = <<G>>
  BY <1>3, <1>6
<1>8. Len(Insn) # 1
  BY OptionRange
<1>9. HereKnown(Insn[2]) = <<G>>
  BY <1>7, <1>8 DEF Result, HereKnown
<1>10. G \in Range(HereKnown(Insn[2]))
  BY <1>9, OptionRange
<1>11. Insn[2] \in Reads(Insn) /\ Insn[2] \in 0 .. code[k].registers - 1
  BY <1>1, <1>8, OperandsHere DEF Reads
<1> QED
  BY <1>1, <1>8, <1>10, <1>11, HereMeans DEF G

LEMMA ReturnKeeps ==
  ASSUME Steady, Return
  PROVE  /\ HeapOK(code, objs', heap', put')
         /\ FramesOK(code, objs', frames')
         /\ Truth /\ ~ Astray /\ GettersAgree => FramesTrue(code, sol, put', objs', frames')
<1> DEFINE o == IF Len(Insn) = 1 THEN <<>> ELSE Reg(Insn[2])
           outer == Front(frames)
           L == Len(outer)
           h == outer[L]
           fr == [h EXCEPT !.ret = o]
<1>1. /\ frames # <<>> /\ Insn[1] = "Return" /\ objs' = objs /\ heap' = heap /\ put' = put
      /\ frames' = IF outer = <<>> THEN <<>> ELSE [outer EXCEPT ![L].ret = o]
  BY DEF Return, Running
<1>2. HeapOK(code, objs', heap', put')
  BY <1>1 DEF Steady
<1>3. IsVal(objs, o)
  <2>1. Len(Insn) = 1 \/ Insn[2] \in 0 .. code[Top.key].registers - 1
    BY <1>1, OperandsHere
  <2>2. \A r \in 0 .. code[Top.key].registers - 1 : IsVal(objs, Reg(r))
    BY <1>1, TopIs DEF Steady
  <2>3. IsVal(objs, <<>>)
    BY DEF IsVal
  <2> QED
    BY <2>1, <2>2, <2>3
<1>4. IsCode(code) /\ FramesOK(code, objs, frames)
  BY DEF Steady
<1>5. GettersAgree /\ Truth /\ ~ Astray /\ Top.key \in DOMAIN Getters(code) =>
        \A v \in Range(o) : Means(put, objs, TopArgs, v, Getters(code)[Top.key])
  BY GetterReturns
<1> HIDE DEF o
<1>6. FramesOK(code, objs, outer) /\ Popped(code, objs, frames, outer)
  BY <1>1, <1>4, PopKeeps
<1>7. Truth => FramesTrue(code, sol, put, objs, outer)
  BY <1>6, PopKeepsTruth DEF Truth
<1>8. CASE outer = <<>>
  <2>1. frames' = <<>>
    BY <1>1, <1>8
  <2>2. FramesOK(code, objs, <<>>) /\ FramesTrue(code, sol, put, objs, <<>>)
    BY NoPath DEF FramesOK, FramesTrue
  <2> QED
    BY <1>1, <1>2, <2>1, <2>2
<1>9. CASE outer # <<>>
  <2>1. frames' = [outer EXCEPT ![L] = fr]
    BY <1>1, <1>9
  <2>2. L \in 1 .. L /\ InCall(code, objs, h, Top.key) /\ TopArgs = ArgsTo(code, h) /\ Args(code, frames, Len(frames)) = ArgsTo(code, h)
        /\ L \in 1 .. Len(frames) - 1 /\ L = Len(frames) - 1
    <3>1. /\ Args(code, frames, Len(frames)) = ArgsTo(code, frames[Len(frames) - 1]) /\ Len(frames) - 1 \in 1 .. Len(frames) - 1
          /\ InCall(code, objs, frames[Len(frames) - 1], frames[Len(frames)].key)
          /\ L = Len(frames) - 1
          /\ \A n \in 1 .. Len(frames) - 1 : outer[n] = frames[n]
      BY <1>6, <1>9 DEF Popped
    <3>2. h = frames[Len(frames) - 1]
      BY <3>1
    <3>3. Top = frames[Len(frames)]
      BY <1>1, <1>4, TopIs
    <3> QED
      BY <3>1, <3>2, <3>3 DEF TopArgs
  <2>3. FrameOK(code, objs, h)
    BY <1>6, <2>2 DEF FramesOK
  <2>4. /\ FrameOK(code, objs, fr) /\ fr.key = h.key /\ fr.at = h.at /\ fr.ret = o /\ fr.from = h.from /\ fr.regs = h.regs
    BY <1>3, <2>3, ReturnedIs
  <2> HIDE DEF fr
  <2> DEFINE gs == frames'
  <2>a. /\ objs \subseteq objs /\ put \subseteq put /\ fr.key = outer[Len(outer)].key /\ gs = [outer EXCEPT ![Len(outer)] = fr]
        /\ FramesOK(code, objs, outer) /\ outer # <<>> /\ FrameOK(code, objs, fr)
    BY <1>6, <1>9, <2>1, <2>4
  <2> HIDE DEF outer, gs
  <2>b. FramesOK(code, objs, gs)
    BY <2>a, TopMoves
  <2>5. FramesOK(code, objs, frames')
    BY <2>b DEF gs
  <2>6. ASSUME Truth, ~ Astray, GettersAgree PROVE FramesTrue(code, sol, put, objs, frames')
    <3> DEFINE ctx == Args(code, outer, L)
               k == Top.key
    <3>1. FrameTrue(code, sol, put, objs, ctx, h)
      BY <1>7, <2>2, <2>6 DEF FramesTrue, outer
    <3>2. Fresh(code, h)
      <4>1. \A n \in 1 .. Len(frames) - 1 : Fresh(code, frames[n])
        BY <2>6 DEF Truth, FramesTrue
      <4>2. h = frames[L]
        BY <1>6, <2>2 DEF Popped
      <4> QED
        BY <2>2, <4>1, <4>2
    <3>3. /\ h.at - 1 \in DOMAIN code[h.key].insns /\ CallIn(code, h)[1] = "Invoke" /\ k = CallIn(code, h)[2]
      BY <2>2 DEF InCall
    <3>4. k \in DOMAIN code
      BY <1>1, InsnHere
    <3>5. Plainly(put)
      BY PutsArePlain DEF Steady
    <3>6. k \in DOMAIN Getters(code) => Proper(Getters(code)[k])
      BY <1>4, GettersAre DEF Getting
    <3>7. Believed(code, put, objs, ctx, h)
      BY <3>1 DEF FrameTrue
    <3>8. \A v \in Range(o) : k \in DOMAIN Getters(code) => Means(put, objs, ArgsTo(code, h), v, Getters(code)[k])
      BY <1>5, <2>2, <2>6
    <3> HIDE DEF ctx, k, h
    <3>9. ASSUME NEW v \in Range(o), NEW l \in Range(At(code, h.key, h.at - 1).ret) PROVE Means(put, objs, ctx, v, l)
      <4>1. k \in DOMAIN Getters(code) => Means(put, objs, ArgsTo(code, h), v, Getters(code)[k])
        BY <3>8
      <4> QED
        BY <1>4, <2>3, <3>2, <3>3, <3>4, <3>5, <3>6, <3>7, <4>1, ResultOfCall
    <3>10. RetBelieved(code, put, objs, ctx, fr)
      BY <2>4, <3>9 DEF RetBelieved
    <3>11. FrameTrue(code, sol, put, objs, ctx, fr)
      BY <2>4, <3>1, <3>10, StepKeepsTruth
    <3>12. FrameTrue(code, sol, put, objs, Args(code, outer, Len(outer)), fr) /\ FramesTrue(code, sol, put, objs, outer)
      BY <1>7, <2>6, <3>11 DEF ctx
    <3>13. FramesTrue(code, sol, put, objs, gs)
      BY <2>a, <3>12, TopMovesTruly
    <3> QED
      BY <3>13 DEF gs
  <2> QED
    BY <1>1, <1>2, <2>5, <2>6
<1> QED
  BY <1>8, <1>9

-----------------------------------------------------------------------------
(***************************************************************************)
(* The solution of the formals fits every call.                            *)
(***************************************************************************)
\* The solution is made of what the passes found.
SolvedHere == IsCode(code) /\ found = Summaries(code) /\ facts = Gathered

\* Call c is the one at instruction `at` of method k.
CallAt(c, k, at) ==
  /\ k \in DOMAIN code /\ at \in DOMAIN code[k].insns /\ code[k].insns[at][1] = "Invoke"
  /\ c = CallOf(code[k], At(code, k, at - 1), code[k].insns[at])
  /\ c.caller = k /\ c.callee = code[k].insns[at][2] /\ c.callee \in DOMAIN code

LEMMA CallsAre ==
  ASSUME SolvedHere
  PROVE  /\ \A c \in facts.calls : \E k, at : CallAt(c, k, at)
         /\ \A k, at : \A c : CallAt(c, k, at) => c \in facts.calls
<1>1. facts.calls = Bindings
  BY DEF SolvedHere, Gathered
<1>2. ASSUME NEW k \in DOMAIN code
      PROVE  \A c : c \in found[k].calls <=> \E d \in DOMAIN code[k].insns : c \in CallsAt(code[k], At(code, k, d - 1), d)
  <2> DEFINE S == Summaries(code)[k].calls
             N == Len(code[k].insns)
  <2>1. \A c : c \in S <=> \E d \in 1 .. N : c \in CallsAt(code[k], At(code, k, d - 1), d)
    BY <1>2, SummaryIs DEF SolvedHere
  <2>2. DOMAIN code[k].insns = 1 .. N
    BY <1>2, CodeRuns DEF SolvedHere
  <2>3. found[k].calls = S
    BY DEF SolvedHere
  <2> HIDE DEF S, N
  <2> QED
    BY <2>1, <2>2, <2>3
<1>3. \A c : c \in facts.calls <=> (c.callee \in DOMAIN code /\ \E k \in DOMAIN code : c \in found[k].calls)
  BY <1>1 DEF Bindings
<1>4. ASSUME NEW k \in DOMAIN code, NEW d \in DOMAIN code[k].insns, NEW c, c.callee \in DOMAIN code
      PROVE  c \in CallsAt(code[k], At(code, k, d - 1), d) <=> CallAt(c, k, d)
  <2>1. code[k].key = k
    BY CodeRuns DEF SolvedHere
  <2>2. CallOf(code[k], At(code, k, d - 1), code[k].insns[d]).caller = k
        /\ CallOf(code[k], At(code, k, d - 1), code[k].insns[d]).callee = code[k].insns[d][2]
    BY <2>1 DEF CallOf
  <2>3. CASE code[k].insns[d][1] = "Invoke"
    <3>1. CallsAt(code[k], At(code, k, d - 1), d) = {CallOf(code[k], At(code, k, d - 1), code[k].insns[d])}
      BY <2>3 DEF CallsAt
    <3> QED
      BY <1>4, <2>2, <2>3, <3>1 DEF CallAt
  <2>4. CASE code[k].insns[d][1] # "Invoke"
    BY <2>4 DEF CallsAt, CallAt
  <2> QED
    BY <2>3, <2>4
<1>5. ASSUME NEW c \in facts.calls PROVE \E k, at : CallAt(c, k, at)
  BY <1>2, <1>3, <1>4
<1>6. ASSUME NEW k, NEW at, NEW c, CallAt(c, k, at) PROVE c \in facts.calls
  <2>1. k \in DOMAIN code /\ at \in DOMAIN code[k].insns /\ c.callee \in DOMAIN code
    BY <1>6 DEF CallAt
  <2> QED
    BY <1>2, <1>3, <1>4, <1>6, <2>1
<1> QED
  BY <1>5, <1>6

\* An actual of a call is what the pass knew of the register passed.
LEMMA ActualsAre ==
  ASSUME SolvedHere, NEW k, NEW at, NEW c, CallAt(c, k, at), NEW j \in Nat, NEW a, a = ArgOrNone(c.actuals, j)
  PROVE  /\ IsOption(a) /\ (a # <<>> => Fine(code[k], a[1]))
         /\ j < code[c.callee].ins => a = Known(At(code, k, at - 1), code[k].insns[at][3][j + 1])
<1> DEFINE i == code[k].insns[at]
           s == At(code, k, at - 1)
           r == i[3][j + 1]
<1>1. IsCode(code) /\ k \in DOMAIN code /\ at \in DOMAIN code[k].insns /\ i[1] = "Invoke" /\ c.callee = i[2] /\ i[2] \in DOMAIN code
  BY DEF SolvedHere, CallAt
<1>2. c.actuals = [n \in DOMAIN i[3] |-> Known(s, i[3][n])]
  BY DEF CallAt, CallOf
<1>3. AllFine(code[k], s)
  <2>1. at - 1 \in 0 .. Len(code[k].insns)
    BY <1>1, CodeRuns
  <2> QED
    BY <1>1, <2>1, PassOfCode
<1>4. a = IF j + 1 \in DOMAIN i[3] THEN Known(s, r) ELSE <<>>
  BY <1>2 DEF ArgOrNone
<1>5. j < code[i[2]].ins => j + 1 \in DOMAIN i[3]
  <2> DEFINE m == code[k]
             ii == m.insns[at]
  <2>1. m = code[k] /\ at \in DOMAIN m.insns /\ ii = m.insns[at] /\ ii[1] = "Invoke" /\ ii = i
    BY <1>1
  <2> HIDE DEF m, ii
  <2>2. ii[3] \in Seq(0 .. m.registers - 1) /\ IsCallOf(code, ii)
    BY <1>1, <2>1, InsnIs
  <2> HIDE DEF i
  <2>3. Len(i[3]) = code[i[2]].ins
    BY <1>1, <2>1, <2>2 DEF IsCallOf
  <2>4. \A S : \A q \in Seq(S) : Len(q) \in Nat /\ DOMAIN q = 1 .. Len(q)
    OBVIOUS
  <2>5. DOMAIN i[3] = 1 .. Len(i[3]) /\ Len(i[3]) \in Nat
    BY <2>1, <2>2, <2>4
  <2> QED
    BY <2>3, <2>5
<1> HIDE DEF i, s, r
<1>6. IsOption(Known(s, r)) /\ (Known(s, r) # <<>> => Fine(code[k], Known(s, r)[1]))
  <2>1. IsOption(Known(s, r))
    BY KnownIsOption
  <2>2. \A o : o = <<o[1]>> => o[1] \in Range(o)
    BY DEF Range
  <2> QED
    BY <1>3, <2>1, <2>2 DEF IsOption, AllFine
<1>7. IsOption(a) /\ (a # <<>> => Fine(code[k], a[1]))
  BY <1>4, <1>6 DEF IsOption
<1>8. j < code[c.callee].ins => a = Known(s, r)
  BY <1>1, <1>4, <1>5
<1> QED
  BY <1>7, <1>8 DEF s, r, i

\* The solver names locks as everything else does.
LEMMA SameLocks ==
  /\ \A l : Inj!Kind(l) = Kind(l)
  /\ Inj!Grounded = Grounded
  /\ \A args, i : Inj!ArgOrNone(args, i) = ArgOrNone(args, i)
  /\ \A l, more, mode : Inj!Extend(l, more, mode) = Extend(l, more, mode)
  /\ \A l, class, method : Inj!Ground(l, class, method) = Ground(l, class, method)
<1>1. \A l : Inj!Kind(l) = Kind(l)
  BY DEF Inj!Kind, Kind
<1>2. Inj!Grounded = Grounded
  BY DEF Inj!Grounded, Grounded
<1>3. \A args, i : Inj!ArgOrNone(args, i) = ArgOrNone(args, i)
  BY DEF Inj!ArgOrNone, ArgOrNone
<1>4. \A root, fields, mode : Inj!Lock(root, fields, mode) = Lock(root, fields, mode)
  BY DEF Inj!Lock, Lock
<1>5. \A root : Inj!NewLock(root) = NewLock(root)
  BY <1>4 DEF Inj!NewLock, NewLock
<1>6. \A mine, other : Inj!ExtendedMode(mine, other) = ExtendedMode(mine, other)
  BY DEF Inj!ExtendedMode, ExtendedMode
<1>7. \A l : Inj!Truncated(l) = Truncated(l)
  BY <1>5 DEF Inj!Truncated, Truncated
<1>8. \A l, more, mode : Inj!Extend(l, more, mode) = Extend(l, more, mode)
  BY <1>4, <1>6, <1>7 DEF Inj!Extend, Extend
<1>9. \A l, class, method : Inj!Ground(l, class, method) = Ground(l, class, method)
  BY <1>1, <1>5 DEF Inj!Ground, Ground
<1> QED
  BY <1>1, <1>2, <1>3, <1>8, <1>9

\* The solver reckons with an actual as Reckoned does.
LEMMA EvalIs ==
  ASSUME SolvedHere, NEW g, AllFormals \subseteq DOMAIN g, NEW k, NEW at, NEW c, CallAt(c, k, at), NEW j \in Nat
  PROVE  Inj!Eval(c, j, g) = Reckoned(g, k, ArgOrNone(c.actuals, j))
<1> DEFINE a == ArgOrNone(c.actuals, j)
<1>1. IsOption(a) /\ (a # <<>> => Fine(code[k], a[1])) /\ c.caller = k /\ k \in DOMAIN code
  BY ActualsAre DEF CallAt
<1>2. Inj!ActualOf(c, j) = a
  BY SameLocks DEF Inj!ActualOf
<1> HIDE DEF a
<1>3. CASE a = <<>>
  BY <1>2, <1>3 DEF Inj!Eval, Reckoned, Inj!Top, a
<1>4. CASE a # <<>> /\ Kind(a[1]) = "Param"
  <2>1. <<k, a[1].root[2]>> \in AllFormals
    BY <1>1, <1>4 DEF Fine, AllFormals
  <2>2. Inj!ValueOf(g, <<k, a[1].root[2]>>) = g[<<k, a[1].root[2]>>]
    BY <2>1 DEF Inj!ValueOf
  <2> QED
    BY <1>1, <1>2, <1>4, <2>2, SameLocks DEF Inj!Eval, Reckoned, Inj!Top, Inj!Bottom, Inj!Val, a
<1>5. CASE a # <<>> /\ Kind(a[1]) # "Param"
  BY <1>1, <1>2, <1>5, SameLocks DEF Inj!Eval, Reckoned, Inj!Top, Inj!Val, a
<1> QED
  BY <1>3, <1>4, <1>5

LEMMA ReckonedIsBound ==
  ASSUME NEW c, NEW g, NEW k, k \in DOMAIN c, SolTyped(c, g), NEW a, a # <<>> => Fine(c[k], a[1])
  PROVE  IsBound(Reckoned(g, k, a))
<1>1. CASE a = <<>>
  BY <1>1 DEF Reckoned, IsBound
<1>2. CASE a # <<>> /\ Kind(a[1]) = "Param"
  <2> DEFINE r == g[<<k, a[1].root[2]>>]
  <2>1. a[1].root[2] \in 0 .. c[k].ins - 1 /\ a[1].mode \in Modes /\ IsPath(a[1].fields)
    BY <1>2 DEF Fine, Proper
  <2>2. IsBound(r)
    BY <2>1 DEF SolTyped
  <2>3. CASE r \in {<<"Bottom">>, <<"Top">>}
    BY <1>2, <2>2, <2>3 DEF Reckoned
  <2>4. CASE r \notin {<<"Bottom">>, <<"Top">>}
    <3>1. PICK l : r = <<"Val", l>> /\ Proper(l) /\ ~ IsParametric(l)
      BY <2>2, <2>4 DEF IsBound
    <3>2. Reckoned(g, k, a) = <<"Val", Extend(l, a[1].fields, a[1].mode)>>
      BY <1>2, <3>1 DEF Reckoned
    <3>3. Proper(Extend(l, a[1].fields, a[1].mode)) /\ ~ IsParametric(Extend(l, a[1].fields, a[1].mode))
      BY <2>1, <3>1, ExtendIsProper
    <3> QED
      BY <3>2, <3>3 DEF IsBound
  <2> QED
    BY <2>3, <2>4
<1>3. CASE a # <<>> /\ Kind(a[1]) # "Param"
  <2>1. Proper(Ground(a[1], ClassOf[k], k)) /\ ~ IsParametric(Ground(a[1], ClassOf[k], k))
    BY <1>3, GroundIsProper DEF Fine
  <2> QED
    BY <1>3, <2>1 DEF Reckoned, IsBound
<1> QED
  BY <1>1, <1>2, <1>3

-----------------------------------------------------------------------------
\* Every round binds the formals to whole locks.
Rounded(g) == DOMAIN g = AllFormals /\ SolTyped(code, g)

LEMMA RoundIsTyped ==
  ASSUME SolvedHere, NEW g, Rounded(g)
  PROVE  Rounded(Round(g))
<1>1. DOMAIN Round(g) = AllFormals
  BY DEF Round
<1>2. ASSUME NEW k \in DOMAIN code, NEW j \in 0 .. code[k].ins - 1 PROVE IsBound(Round(g)[<<k, j>>])
  <2>1. <<k, j>> \in AllFormals
    BY DEF AllFormals
  <2> DEFINE v == <<k, j>>
  <2>2. Round(g)[v] = Inj!Transfer(v, g) /\ v[1] = k /\ v[2] = j
    BY <2>1 DEF Round
  <2> HIDE DEF v
  <2>3. ASSUME NEW c \in Inj!Sites(k) PROVE IsBound(Inj!Eval(c, j, g))
    <3>1. c \in facts.calls
      BY DEF Inj!Sites
    <3>2. PICK e, at : CallAt(c, e, at)
      BY <3>1, CallsAre
    <3>3. Inj!Eval(c, j, g) = Reckoned(g, e, ArgOrNone(c.actuals, j))
      BY <3>2, EvalIs DEF Rounded
    <3>4. e \in DOMAIN code /\ (ArgOrNone(c.actuals, j) # <<>> => Fine(code[e], ArgOrNone(c.actuals, j)[1]))
      BY <3>2, ActualsAre DEF CallAt
    <3> QED
      BY <3>3, <3>4, ReckonedIsBound DEF Rounded
  <2> DEFINE S == {Inj!Eval(c, j, g) : c \in Inj!Sites(k)}
  <2>4. \A r \in S : IsBound(r)
    BY <2>3
  <2>5. Inj!Transfer(v, g) = IF Inj!Sites(k) = {} THEN <<"Top">> ELSE Inj!MeetAll(S)
    BY <2>2 DEF Inj!Transfer, Inj!Top
  <2> HIDE DEF S
  <2>6. IsBound(<<"Top">>) /\ IsBound(<<"Bottom">>)
    BY DEF IsBound
  <2>7. IsBound(Inj!MeetAll(S))
    <3> DEFINE known == S \ {<<"Bottom">>}
    <3>1. CASE known = {}
      BY <2>6, <3>1 DEF Inj!MeetAll, Inj!Bottom
    <3>2. CASE known # {} /\ \E r \in known : known = {r}
      <4>1. Inj!MeetAll(S) = CHOOSE r \in known : TRUE
        BY <3>2 DEF Inj!MeetAll, Inj!Bottom
      <4>2. (CHOOSE r \in known : TRUE) \in known
        BY <3>2
      <4> QED
        BY <2>4, <4>1, <4>2
    <3>3. CASE known # {} /\ ~ \E r \in known : known = {r}
      BY <2>6, <3>3 DEF Inj!MeetAll, Inj!Bottom, Inj!Top
    <3> QED
      BY <3>1, <3>2, <3>3
  <2> QED
    BY <2>2, <2>5, <2>6, <2>7 DEF v
<1>3. SolTyped(code, Round(g))
  BY <1>2 DEF SolTyped
<1> QED
  BY <1>1, <1>3 DEF Rounded

LEMMA SolutionIsTyped ==
  ASSUME SolvedHere, NEW g \in Solutions
  PROVE  Rounded(g) /\ Round(g) = g
<1> DEFINE First == [v \in AllFormals |-> <<"Bottom">>]
           N == MaxRounds
           Upto(b, h) == h = [n \in 0 .. b |-> IF n = 0 THEN First ELSE Round(h[n - 1])]
           Good == {b \in 0 .. N : \E h : Upto(b, h)}
<1>0. N \in Nat
  BY MaxRoundsAssumption
<1> DEFINE s == CHOOSE h : Upto(N, h)
<1>a. Solutions = {x \in {s[n] : n \in 0 .. N} : Round(x) = x}
  BY DEF Solutions, Inj!Bottom
<1> HIDE DEF First, N
<1>1. 0 \in Good
  <2> DEFINE h == [n \in 0 .. 0 |-> First]
  <2>1. Upto(0, h)
    OBVIOUS
  <2> HIDE DEF Upto, h
  <2> QED
    BY <1>0, <2>1
<1>2. ASSUME NEW b \in Good, b \in 0 .. N - 1 PROVE b + 1 \in Good
  <2>1. PICK h : Upto(b, h)
    OBVIOUS
  <2> DEFINE k == [n \in 0 .. b + 1 |-> IF n = b + 1 THEN Round(h[b]) ELSE h[n]]
  <2>2. b \in Nat /\ b + 1 \in 0 .. N
    BY <1>0, <1>2
  <2>3. ASSUME NEW n \in 0 .. b + 1 PROVE k[n] = IF n = 0 THEN First ELSE Round(k[n - 1])
    <3>1. CASE n = 0
      <4>1. h[0] = First /\ k[0] = h[0]
        BY <2>1, <2>2
      <4> QED
        BY <3>1, <4>1
    <3>2. CASE n = b + 1
      <4>1. k[n] = Round(h[b]) /\ k[n - 1] = h[b]
        BY <2>2, <3>2
      <4> HIDE DEF k
      <4> QED
        BY <2>2, <3>2, <4>1
    <3>3. CASE n # 0 /\ n # b + 1
      <4>1. n \in 0 .. b /\ n - 1 \in 0 .. b
        BY <2>2, <3>3
      <4>2. k[n] = h[n] /\ k[n - 1] = h[n - 1]
        BY <2>2, <3>3, <4>1
      <4>3. h[n] = Round(h[n - 1])
        BY <2>1, <3>3, <4>1
      <4> HIDE DEF k, Upto
      <4> QED
        BY <3>3, <4>2, <4>3
    <3> QED
      BY <3>1, <3>2, <3>3
  <2>4. k = [n \in 0 .. b + 1 |-> k[n]]
    OBVIOUS
  <2> HIDE DEF k
  <2>5. Upto(b + 1, k)
    BY <2>3, <2>4
  <2> HIDE DEF Upto
  <2> QED
    BY <2>2, <2>5
<1>3. 0 .. N \subseteq Good
  <2> HIDE DEF Good
  <2> QED
    BY <1>0, <1>1, <1>2, IntervalInduction
<1>4. Upto(N, s)
  <2> HIDE DEF Upto
  <2>1. \E h : Upto(N, h)
    BY <1>0, <1>3
  <2> QED
    BY <2>1
<1> HIDE DEF s, Good
<1>5. s[0] = First /\ \A n \in 1 .. N : s[n] = Round(s[n - 1])
  <2>1. \A n \in 0 .. N : s[n] = IF n = 0 THEN First ELSE Round(s[n - 1])
    BY <1>4
  <2> HIDE DEF Upto
  <2>2. 0 \in 0 .. N /\ \A n \in 1 .. N : n \in 0 .. N /\ n # 0
    BY <1>0
  <2> QED
    BY <2>1, <2>2
<1> HIDE DEF Upto
<1> DEFINE Typed0 == {n \in 0 .. N : Rounded(s[n])}
<1>6. 0 \in Typed0
  <2>1. SolTyped(code, First) /\ DOMAIN First = AllFormals
    BY DEF SolTyped, First, AllFormals, IsBound
  <2> QED
    BY <1>0, <1>5, <2>1 DEF Rounded
<1>7. ASSUME NEW b \in Typed0, b \in 0 .. N - 1 PROVE b + 1 \in Typed0
  <2>1. b + 1 \in 1 .. N /\ (b + 1) - 1 = b /\ b + 1 \in 0 .. N
    BY <1>0, <1>7
  <2>2. s[b + 1] = Round(s[b])
    BY <1>5, <2>1
  <2>3. Rounded(Round(s[b]))
    BY <1>7, RoundIsTyped
  <2> QED
    BY <2>1, <2>2, <2>3
<1> HIDE DEF Typed0
<1>8. 0 .. N \subseteq Typed0
  BY <1>0, <1>6, <1>7, IntervalInduction
<1>9. PICK n \in 0 .. N : g = s[n] /\ Round(g) = g
  BY <1>a
<1> QED
  BY <1>8, <1>9 DEF Typed0

\* In a regular program the calls pass what the formals are bound to.
LEMMA SolutionFits ==
  ASSUME SolvedHere, sol \in Solutions, Inj!NoHiddenCaller
  PROVE  SolFits(code, sol)
<1>1. Rounded(sol) /\ Round(sol) = sol
  BY SolutionIsTyped
<1> SUFFICES ASSUME NEW k \in DOMAIN code, NEW at \in DOMAIN code[k].insns, code[k].insns[at][1] = "Invoke",
                    NEW e, e = code[k].insns[at][2], e \in DOMAIN code, NEW j \in 0 .. code[e].ins - 1
             PROVE  Agrees(code, sol, k, at, j)
  BY DEF SolFits
<1> DEFINE c == CallOf(code[k], At(code, k, at - 1), code[k].insns[at])
           w == Inj!Eval(c, j, sol)
           S == {Inj!Eval(x, j, sol) : x \in Inj!Sites(e)}
<1>2. CallAt(c, k, at)
  <2>1. code[k].key = k
    BY CodeRuns DEF SolvedHere
  <2>2. c.caller = k /\ c.callee = e
    BY <2>1 DEF CallOf
  <2> HIDE DEF c
  <2>3. c = CallOf(code[k], At(code, k, at - 1), code[k].insns[at])
    BY DEF c
  <2> QED
    BY <2>2, <2>3 DEF CallAt
<1> HIDE DEF c
<1>3. c \in facts.calls /\ c.callee = e
  BY <1>2, CallsAre DEF CallAt
<1>4. w = Reckoned(sol, k, Known(At(code, k, at - 1), code[k].insns[at][3][j + 1]))
  <2>1. w = Reckoned(sol, k, ArgOrNone(c.actuals, j))
    BY <1>1, <1>2, EvalIs DEF Rounded
  <2>2. j \in Nat /\ j < code[c.callee].ins
    BY <1>3, CodeRuns DEF SolvedHere, Runs
  <2>3. ArgOrNone(c.actuals, j) = Known(At(code, k, at - 1), code[k].insns[at][3][j + 1])
    BY <1>2, <2>2, ActualsAre
  <2> QED
    BY <2>1, <2>3
<1>5. sol[<<e, j>>] = IF Inj!Sites(e) = {} THEN <<"Top">> ELSE Inj!MeetAll(S)
  <2>1. <<e, j>> \in AllFormals
    BY DEF AllFormals
  <2> DEFINE v == <<e, j>>
  <2>2. Round(sol)[v] = Inj!Transfer(v, sol) /\ v[1] = e /\ v[2] = j
    BY <2>1 DEF Round
  <2> HIDE DEF v
  <2>3. Inj!Transfer(v, sol) = IF Inj!Sites(e) = {} THEN <<"Top">> ELSE Inj!MeetAll(S)
    BY <2>2 DEF Inj!Transfer, Inj!Top
  <2> QED
    BY <1>1, <2>2, <2>3 DEF v
<1>6. CASE Inj!Sites(e) = {}
  BY <1>5, <1>6 DEF Agrees
<1>7. CASE Inj!Sites(e) # {}
  <2>1. Inj!Recorded(c)
    BY <1>3, <1>7 DEF Inj!NoHiddenCaller
  <2>2. c \in Inj!Sites(e)
    BY <1>3, <2>1 DEF Inj!Sites
  <2>3. w \in S
    BY <2>2
  <2> HIDE DEF w, S
  <2> DEFINE r == sol[<<e, j>>]
             known == S \ {<<"Bottom">>}
  <2>4. r = Inj!MeetAll(S)
    BY <1>5, <1>7
  <2> HIDE DEF r
  <2>5. r = <<"Top">> \/ w = <<"Bottom">> \/ r = w
    <3>1. CASE w = <<"Bottom">>
      BY <3>1
    <3>2. CASE w # <<"Bottom">> /\ \E x \in known : known = {x}
      <4>1. known = {w}
        BY <2>3, <3>2
      <4>2. Inj!MeetAll(S) = CHOOSE x \in known : TRUE
        BY <3>2, <4>1 DEF Inj!MeetAll, Inj!Bottom
      <4> QED
        BY <2>4, <4>1, <4>2
    <3>3. CASE w # <<"Bottom">> /\ ~ \E x \in known : known = {x}
      <4>1. known # {}
        BY <2>3, <3>3
      <4> QED
        BY <2>4, <3>3, <4>1 DEF Inj!MeetAll, Inj!Bottom, Inj!Top
    <3> QED
      BY <3>1, <3>2, <3>3
  <2> QED
    BY <1>4, <2>5 DEF Agrees, r
<1> QED
  BY <1>6, <1>7

-----------------------------------------------------------------------------
(***************************************************************************)
(* The stores, as the alias passes are told of them.                       *)
(***************************************************************************)
\* A store as the pass notes it.
StoreWell(k, s) ==
  /\ IsOption(s.source) /\ IsOption(s.base)
  /\ s.source # <<>> => Fine(code[k], s.source[1])
  /\ IsFieldName(s.field) /\ s.field \in InstanceFields(code)

LEMMA StoresAre ==
  ASSUME IsCode(code), found = Summaries(code), NEW k \in DOMAIN code, NEW s \in StoresIn(k)
  PROVE  StoreWell(k, s)
<1> DEFINE m == code[k]
           N == Len(m.insns)
           S == Summaries(code)[k].stores
<1>1. \A x : x \in S <=> \E d \in 1 .. N : x \in StoresAt(m, At(code, k, d - 1), d)
  <2> DEFINE F == Summaries(code)[k]
  <2>1. F = Summaries(code)[k] /\ m = code[k] /\ N = Len(m.insns) /\ S = F.stores
    OBVIOUS
  <2> HIDE DEF F, N, m, S
  <2>2. \A x : x \in F.stores <=> \E d \in 1 .. N : x \in StoresAt(m, At(code, k, d - 1), d)
    BY <2>1, SummaryIs
  <2> QED
    BY <2>1, <2>2
<1>2. s \in S
  BY DEF StoresIn
<1> HIDE DEF S
<1>3. PICK d \in 1 .. N : s \in StoresAt(m, At(code, k, d - 1), d)
  BY <1>1, <1>2
<1>4. m.insns[d][1] = "Iput" /\ s = StoreOf(At(code, k, d - 1), d, m.insns[d])
  BY <1>3 DEF StoresAt
<1> DEFINE p == At(code, k, d - 1)
           i == m.insns[d]
<1>5. d \in DOMAIN m.insns /\ d - 1 \in 0 .. N
  BY CodeRuns
<1>6. AllFine(m, p)
  BY <1>5, PassOfCode
<1>7. IsFieldName(i[4]) /\ i[4] \in InstanceFields(code)
  <2>1. d \in DOMAIN code[k].insns /\ i = code[k].insns[d] /\ i[1] = "Iput" /\ m = code[k] /\ i = m.insns[d]
    BY <1>4, <1>5
  <2> HIDE DEF i, m
  <2>2. IsFieldName(i[4])
    BY <1>5, <2>1, InsnIs
  <2>3. i[4] \in InstanceFields(code)
    BY <2>1, OperandIs
  <2> QED
    BY <2>2, <2>3
<1>8. s.field = i[4] /\ s.base = Known(p, i[3]) /\ s.source = Known(p, i[2])
  BY <1>4 DEF StoreOf
<1> HIDE DEF i, p, m
<1>9. IsOption(s.source) /\ IsOption(s.base)
  BY <1>8, KnownIsOption
<1>10. s.source # <<>> => Fine(m, s.source[1])
  <2>1. \A o : o = <<o[1]>> => o[1] \in Range(o)
    BY DEF Range
  <2> QED
    BY <1>6, <1>8, <1>9, <2>1 DEF IsOption, AllFine
<1> QED
  BY <1>7, <1>8, <1>9, <1>10 DEF StoreWell, m

\* The value of a store, case by case.
ValueIs(k, s, w) ==
  \/ HasRoot(s.source, {"Alloc"}) /\ w = <<"fresh", found[k].allocated[s.source[1].root]>>
  \/ FormalStored(s) /\ w = <<"formal", PassedFor(k, s.source[1].root[2])>>
  \/ s.source # <<>> /\ w = <<"lock", s.source[1]>>
  \/ w = <<"unknown">>

LEMMA StoredValueIs ==
  ASSUME NEW k, NEW s
  PROVE  ValueIs(k, s, StoredValue(k, s))
<1>1. CASE HasRoot(s.source, {"Alloc"})
  <2>1. ~ FormalStored(s) /\ HasRoot(s.source, {"Alloc", "Param"})
    BY <1>1 DEF FormalStored, HasRoot
  <2> QED
    BY <1>1, <2>1 DEF ValueIs, StoredValue
<1>2. CASE FormalStored(s)
  <2>1. ~ HasRoot(s.source, {"Alloc"}) /\ HasRoot(s.source, {"Alloc", "Param"})
    BY <1>2 DEF FormalStored, HasRoot
  <2> QED
    BY <1>2, <2>1 DEF ValueIs, StoredValue
<1>3. CASE ~ HasRoot(s.source, {"Alloc"}) /\ ~ FormalStored(s)
  BY <1>3 DEF ValueIs, StoredValue
<1> QED
  BY <1>1, <1>2, <1>3

\* What is passed for a formal, if it is one object.
LEMMA PassedForIs ==
  ASSUME SolTyped(code, sol), NEW k \in DOMAIN code, NEW j \in 0 .. code[k].ins - 1, NEW o \in PassedFor(k, j)
  PROVE  sol[<<k, j>>] = <<"Val", o>> /\ Proper(o) /\ ~ IsParametric(o)
<1> DEFINE r == sol[<<k, j>>]
<1>1. IsBound(r)
  BY DEF SolTyped
<1>2. o = r[2] /\ r \notin {<<"Bottom">>, <<"Top">>}
  BY DEF PassedFor, Inj!Bottom, Inj!Top
<1> HIDE DEF r
<1>3. PICK l : r = <<"Val", l>> /\ Proper(l) /\ ~ IsParametric(l)
  BY <1>1, <1>2 DEF IsBound
<1> QED
  BY <1>2, <1>3 DEF r

LEMMA NamedIsProgram ==
  ASSUME IsCode(code), found = Summaries(code), SolTyped(code, sol)
  PROVE  IsProgram(Named)
<1>1. ASSUME NEW k \in DOMAIN code, NEW s \in StoresIn(k) PROVE IsStore(Seen(k, s))
  <2> DEFINE w == StoredValue(k, s)
             t == Seen(k, s)
  <2>1. StoreWell(k, s)
    BY <1>1, StoresAre
  <2>2. /\ t = [field |-> t.field, class |-> t.class, onThis |-> t.onThis, value |-> t.value]
        /\ t.field = s.field /\ t.onThis \in BOOLEAN /\ t.value = w
    BY DEF Seen, OnThis, HasRoot
  <2>3. ValueIs(k, s, w)
    BY StoredValueIs
  <2> HIDE DEF w, t
  <2>4. /\ w[1] \in {"lock", "fresh", "formal", "unknown"}
        /\ w[1] = "lock" => IsLock(w[2])
        /\ w[1] = "formal" => \A o \in w[2] : IsLock(o) /\ ~ IsParametric(o)
    <3>1. CASE HasRoot(s.source, {"Alloc"}) /\ w = <<"fresh", found[k].allocated[s.source[1].root]>>
      BY <3>1
    <3>2. CASE FormalStored(s) /\ w = <<"formal", PassedFor(k, s.source[1].root[2])>>
      <4>1. s.source[1].root[2] \in 0 .. code[k].ins - 1
        BY <2>1, <3>2 DEF FormalStored, HasRoot, StoreWell, Fine
      <4>2. \A o \in PassedFor(k, s.source[1].root[2]) : IsLock(o) /\ ~ IsParametric(o)
        BY <4>1, PassedForIs DEF Proper
      <4> QED
        BY <3>2, <4>2
    <3>3. CASE s.source # <<>> /\ w = <<"lock", s.source[1]>>
      BY <2>1, <3>3 DEF StoreWell, Fine, Proper
    <3>4. CASE w = <<"unknown">>
      BY <3>4
    <3> QED
      BY <2>3, <3>1, <3>2, <3>3, <3>4 DEF ValueIs
  <2>5. t.field = <<t.field[1], t.field[2]>>
    BY <2>1, <2>2 DEF StoreWell, IsFieldName
  <2>6. IsStore(t)
    BY <2>2, <2>4, <2>5 DEF IsStore
  <2> QED
    BY <2>6 DEF t
<1>2. \A s \in Named.stores : IsStore(s)
  BY <1>1 DEF Named
<1>3. Named = [stores |-> Named.stores, selfSync |-> Named.selfSync]
  BY DEF Named
<1> HIDE DEF Named
<1> QED
  BY <1>2, <1>3 DEF IsProgram

\* The fields of the stores that Naming knows are instance fields.
LEMMA StoredFields ==
  ASSUME IsCode(code), found = Summaries(code), prog = Named, NEW t \in prog.stores
  PROVE  t.field \in InstanceFields(code) /\ IsFieldName(t.field) /\ \E k \in DOMAIN code : t.class = ClassOf[k]
<1>1. PICK k \in DOMAIN code : \E s \in StoresIn(k) : t = Seen(k, s)
  BY DEF Named
<1>2. PICK s \in StoresIn(k) : t = Seen(k, s)
  BY <1>1
<1>3. t.field = s.field /\ t.class = code[k].class
  BY <1>2 DEF Seen
<1>4. StoreWell(k, s)
  BY <1>2, StoresAre
<1>5. code[k].class = ClassOf[k]
  BY CodeRuns
<1> QED
  BY <1>3, <1>4, <1>5 DEF StoreWell

-----------------------------------------------------------------------------
\* The value stored by the instruction at hand is what the pass made of it.
LEMMA StoredMeans ==
  ASSUME Steady, frames # <<>>, Insn[1] = "Iput", Reg(Insn[2]) # <<>>, Truth, ~ Astray, SolTyped(code, sol), WholeStores,
         NEW w, w = StoreHere.value, NEW v, v = Reg(Insn[2])[1]
  PROVE  /\ v \in objs \X Modes
         /\ w[1] = "lock" => Means(put, objs, <<>>, v, StoredLock(StoreHere))
         /\ w[1] = "formal" => \A o \in w[2] : Means(put, objs, <<>>, v, o) /\ Proper(o) /\ ~ IsParametric(o)
         /\ w[1] = "fresh" => v[2] = "Plain" /\ v[1][1] = w[2]
         /\ \E k \in DOMAIN code : \E s \in StoresIn(k) : StoreHere = Seen(k, s)
         /\ StoreHere.field = Insn[4] /\ StoreHere.class = ClassOf[Top.key]
<1> DEFINE k == Top.key
           at == Top.at
           m == code[k]
           p == At(code, k, at - 1)
           s == CHOOSE x \in Summaries(code)[k].stores : x.at = at
<1>1. IsCode(code) /\ k \in DOMAIN code /\ at \in DOMAIN m.insns /\ Insn = m.insns[at] /\ found = Summaries(code) /\ code[k].key = k
  BY InsnHere DEF Steady
<1>2. m.insns[at][1] = "Iput" /\ m = code[k]
  BY <1>1
<1>3. s \in StoresIn(k) /\ s = StoreOf(p, at, m.insns[at])
  BY <1>1, <1>2, StoreIs DEF StoresIn
<1>4. StoreHere = Seen(k, s)
  BY <1>1 DEF StoreHere, StoresIn
<1> HIDE DEF s
<1>5. s.source = HereKnown(Insn[2]) /\ s.field = Insn[4]
  BY <1>1, <1>3 DEF StoreOf, HereKnown
<1>6. w = StoredValue(k, s) /\ StoreHere.field = Insn[4] /\ StoreHere.class = ClassOf[k]
  BY <1>1, <1>4, <1>5, CodeRuns DEF Seen
<1>7. Insn[2] \in 0 .. m.registers - 1 /\ Insn[2] \in Reads(Insn)
  BY OperandsHere DEF Reads
<1>8. v \in objs \X Modes /\ v \in Range(Reg(Insn[2]))
  <2>1. IsVal(objs, Reg(Insn[2]))
    BY <1>7, TopIs DEF Steady
  <2> QED
    BY <2>1, HeldIs
<1>9. StoreWell(k, s)
  BY <1>1, <1>3, StoresAre
<1>10. s.source # <<>> => s.source[1] \in Range(HereKnown(Insn[2]))
  <2>1. \A o : o = <<o[1]>> => o[1] \in Range(o)
    BY DEF Range
  <2> QED
    BY <1>5, <1>9, <2>1 DEF StoreWell, IsOption
<1> DEFINE l == s.source[1]
<1>11. s.source # <<>> => Means(put, objs, TopArgs, v, l) /\ Fine(m, l)
  BY <1>7, <1>8, <1>9, <1>10, HereMeans DEF StoreWell
<1>12. ArgsOK(code, objs, TopArgs, k)
  BY TopIs DEF Steady, TopArgs
<1>13. ValueIs(k, s, w)
  BY <1>6, StoredValueIs
<1> HIDE DEF l
<1>14. CASE s.source # <<>> /\ w = <<"lock", s.source[1]>>
  <2> DEFINE d == Ground(l, ClassOf[k], <<"method of", ClassOf[k]>>)
  <2>1. Means(put, objs, <<>>, v, d)
    BY <1>1, <1>11, <1>12, <1>14, GroundHere
  <2>2. StoredLock(StoreHere) = d
    BY <1>6, <1>14 DEF StoredLock, l
  <2>3. w[1] = "lock"
    BY <1>14
  <2> QED
    BY <1>3, <1>4, <1>6, <1>8, <1>1, <2>1, <2>2, <2>3
<1>15. CASE FormalStored(s) /\ w = <<"formal", PassedFor(k, s.source[1].root[2])>>
  <2> DEFINE j == l.root[2]
  <2>1. s.source # <<>> /\ l.root[1] = "Param" /\ j \in 0 .. m.ins - 1
    BY <1>11, <1>15 DEF FormalStored, HasRoot, Fine, Kind, l
  <2>2. l = NewLock(l.root)
    <3>1. s.source = <<NewLock(s.source[1].root)>>
      BY <1>1, <1>3, <1>15 DEF WholeStores
    <3> DEFINE x == NewLock(s.source[1].root)
    <3>2. <<x>>[1] = x
      OBVIOUS
    <3> QED
      BY <3>1, <3>2 DEF l
  <2>3. v \in Origins(objs, TopArgs, NewLock(l.root))
    BY <1>11, <2>1, <2>2, WholeMeans
  <2>4. v \in Range(ArgOrNone(TopArgs, j))
    BY <2>1, <2>2, <2>3 DEF Origins, Kind
  <2>5. BoundRight(code, sol, put, objs, TopArgs, k)
    BY TopTrue DEF FrameTrue
  <2>6. ASSUME NEW o \in PassedFor(k, j) PROVE Means(put, objs, <<>>, v, o) /\ Proper(o) /\ ~ IsParametric(o)
    <3>1. sol[<<k, j>>] = <<"Val", o>> /\ Proper(o) /\ ~ IsParametric(o)
      BY <1>1, <2>1, <2>6, PassedForIs
    <3> QED
      BY <2>1, <2>4, <2>5, <3>1 DEF BoundRight
  <2>7. w[1] = "formal" /\ w[2] = PassedFor(k, j)
    BY <1>15 DEF l
  <2> QED
    BY <1>3, <1>4, <1>6, <1>8, <1>1, <2>6, <2>7
<1>16. CASE HasRoot(s.source, {"Alloc"}) /\ w = <<"fresh", found[k].allocated[s.source[1].root]>>
  <2>1. s.source # <<>> /\ l.root[1] = "Alloc"
    BY <1>16 DEF HasRoot, Kind, l
  <2>2. l = NewLock(l.root)
    <3>1. s.source = <<NewLock(s.source[1].root)>>
      BY <1>1, <1>3, <1>16 DEF WholeStores
    <3> DEFINE x == NewLock(s.source[1].root)
    <3>2. <<x>>[1] = x
      OBVIOUS
    <3> QED
      BY <3>1, <3>2 DEF l
  <2>3. v \in Origins(objs, TopArgs, NewLock(l.root))
    BY <1>11, <2>1, <2>2, WholeMeans
  <2>4. PICK x \in objs : x[3] = l.root[2] /\ v = Of(x)
    BY <2>1, <2>2, <2>3 DEF Origins, Kind
  <2>5. PICK d \in DOMAIN m.insns : m.insns[d][1] = "NewInstance" /\ l.root = <<"Alloc", <<k, d>>>>
    BY <1>1, <1>11, <2>1 DEF Fine, Kind
  <2>6. IsObject(code, x)
    BY DEF Steady, HeapOK
  <2>7. x[3] = <<k, d>> /\ <<k, d>> # <<>>
    BY <2>4, <2>5
  <2>8. PICK k2 \in DOMAIN code : \E a2 \in DOMAIN code[k2].insns : x[3] = <<k2, a2>> /\ x[1] = code[k2].insns[a2][3]
    BY <2>6, <2>7 DEF IsObject
  <2>9. x[1] = m.insns[d][3]
    BY <2>7, <2>8
  <2>10. found[k].allocated[l.root] = m.insns[d][3]
    <3>1. d \in 1 .. Len(code[k].insns)
      BY <1>1, CodeRuns
    <3> DEFINE F == Summaries(code)[k]
               N == Len(m.insns)
    <3>2. F = Summaries(code)[k] /\ N = Len(m.insns) /\ m = code[k] /\ d \in 1 .. N
      BY <3>1
    <3> HIDE DEF F, N, m
    <3>3. \A n \in 1 .. N : m.insns[n][1] = "NewInstance" => F.allocated[<<"Alloc", <<k, n>>>>] = m.insns[n][3]
      BY <1>1, <3>2, SummaryIs
    <3> QED
      BY <1>1, <2>5, <3>2, <3>3
  <2>11. v[2] = "Plain" /\ v[1] = x
    BY <2>4 DEF Of
  <2>12. w[1] = "fresh" /\ w[2] = x[1]
    BY <1>16, <2>9, <2>10 DEF l
  <2> QED
    BY <1>3, <1>4, <1>6, <1>8, <1>1, <2>11, <2>12
<1>17. CASE w = <<"unknown">>
  <2>1. w[1] = "unknown"
    BY <1>17
  <2> QED
    BY <1>3, <1>4, <1>6, <1>8, <1>1, <2>1
<1> QED
  BY <1>13, <1>14, <1>15, <1>16, <1>17 DEF ValueIs

-----------------------------------------------------------------------------
(***************************************************************************)
(* What is settled before the first step.                                  *)
(***************************************************************************)
\* What is passed for a stored formal, or stored from a register, is no lock of one method.
WellStored(s) ==
  /\ s.value[1] = "lock" => Proper(s.value[2])
  /\ s.value[1] = "formal" => \A o \in s.value[2] : Proper(o) /\ ~ IsParametric(o)
  /\ s.field \in InstanceFields(code) /\ IsFieldName(s.field)

LEMMA NamedIsWell ==
  ASSUME IsCode(code), found = Summaries(code), SolTyped(code, sol), NEW t \in Named.stores
  PROVE  WellStored(t)
<1>1. PICK k \in DOMAIN code : \E s \in StoresIn(k) : t = Seen(k, s)
  BY DEF Named
<1>2. PICK s \in StoresIn(k) : t = Seen(k, s)
  BY <1>1
<1> DEFINE w == StoredValue(k, s)
<1>3. StoreWell(k, s)
  BY <1>2, StoresAre
<1>4. t.field = s.field /\ t.value = w
  BY <1>2 DEF Seen
<1>5. ValueIs(k, s, w)
  BY StoredValueIs
<1> HIDE DEF w
<1>6. /\ w[1] = "lock" => Proper(w[2])
      /\ w[1] = "formal" => \A o \in w[2] : Proper(o) /\ ~ IsParametric(o)
  <2>1. CASE HasRoot(s.source, {"Alloc"}) /\ w = <<"fresh", found[k].allocated[s.source[1].root]>>
    BY <2>1
  <2>2. CASE FormalStored(s) /\ w = <<"formal", PassedFor(k, s.source[1].root[2])>>
    <3>1. s.source[1].root[2] \in 0 .. code[k].ins - 1
      BY <1>3, <2>2 DEF FormalStored, HasRoot, StoreWell, Fine
    <3>2. \A o \in PassedFor(k, s.source[1].root[2]) : Proper(o) /\ ~ IsParametric(o)
      BY <3>1, PassedForIs
    <3> QED
      BY <2>2, <3>2
  <2>3. CASE s.source # <<>> /\ w = <<"lock", s.source[1]>>
    BY <1>3, <2>3 DEF StoreWell, Fine
  <2>4. CASE w = <<"unknown">>
    BY <2>4
  <2> QED
    BY <1>5, <2>1, <2>2, <2>3, <2>4 DEF ValueIs
<1> QED
  BY <1>3, <1>4, <1>6 DEF WellStored, StoreWell

-----------------------------------------------------------------------------
\* What the answers depend on, settled before the first step.
Fixed ==
  /\ IsCode(code) /\ found = Summaries(code) /\ SolTyped(code, sol)
  /\ prog = Named
  /\ regular => SolFits(code, sol) /\ WholeStores /\ ViewsResolved /\ OwnAllocations /\ GettersAgree

LEMMA FixedFirst ==
  ASSUME AcqInit
  PROVE  Fixed
<1>1. IsCode(code) /\ found = Summaries(code) /\ facts = Gathered /\ sol \in Solutions /\ prog = Named /\ regular = Regular
  BY CodesAssumption DEF AcqInit
<1>2. SolvedHere
  BY <1>1 DEF SolvedHere
<1>3. SolTyped(code, sol)
  BY <1>1, <1>2, SolutionIsTyped DEF Rounded
<1>4. Inj!NoHiddenCaller => SolFits(code, sol)
  BY <1>1, <1>2, SolutionFits
<1>5. regular => Inj!NoHiddenCaller /\ WholeStores /\ ViewsResolved /\ OwnAllocations /\ GettersAgree
  BY <1>1 DEF Regular
<1> QED
  BY <1>1, <1>3, <1>4, <1>5 DEF Fixed

LEMMA FixedStays ==
  ASSUME Fixed, prog' = prog, UNCHANGED fixed
  PROVE  Fixed'
<1>1. code' = code /\ found' = found /\ sol' = sol /\ regular' = regular
  BY DEF fixed
<1>2. \A k, s : StoredValue(k, s)' = StoredValue(k, s)
  BY <1>1 DEF StoredValue, PassedFor, FormalStored
<1>3. \A k, s : Seen(k, s)' = Seen(k, s)
  BY <1>1, <1>2 DEF Seen
<1>4. \A k : StoresIn(k)' = StoresIn(k) /\ (LocksThis(k)' <=> LocksThis(k))
  BY <1>1 DEF StoresIn, LocksThis
<1>5. Named' = Named
  <2> DEFINE A(k) == {Seen(k, s) : s \in StoresIn(k)}
             B == {n \in DOMAIN code : LocksThis(n)}
  <2>1. \A k : A(k)' = A(k)
    BY <1>3, <1>4
  <2>2. B' = B
    BY <1>1, <1>4
  <2> HIDE DEF A
  <2>3. {A(k) : k \in DOMAIN code}' = {A(k) : k \in DOMAIN code}
    BY <1>1, <2>1
  <2>4. {code[k].class : k \in B}' = {code[k].class : k \in B}
    BY <1>1, <2>2
  <2> QED
    BY <2>3, <2>4 DEF Named, A, B
<1>6. \A k, l : Inj!ResolveParamLock(k, l)' = Inj!ResolveParamLock(k, l)
  BY <1>1 DEF Inj!ResolveParamLock, Inj!ValueOf
<1>7. /\ WholeStores' <=> WholeStores
      /\ OwnAllocations' <=> OwnAllocations
      /\ GettersAgree' <=> GettersAgree
      /\ ViewsResolved' <=> ViewsResolved
  BY <1>1, <1>4, <1>6 DEF WholeStores, OwnAllocations, GettersAgree, ViewsResolved, FormalStored
<1> QED
  BY <1>1, <1>5, <1>7 DEF Fixed

-----------------------------------------------------------------------------
(***************************************************************************)
(* The invariant.                                                          *)
(***************************************************************************)
\* Value v is what store s says that it stores.
StoreTrue(P, O, s, v) ==
  /\ s.value[1] = "lock" => Means(P, O, <<>>, v, StoredLock(s))
  /\ s.value[1] = "formal" => \A o \in s.value[2] : Means(P, O, <<>>, v, o)
  /\ s.value[1] = "fresh" => v[2] = "Plain" /\ v[1][1] = s.value[2]

\* What was put in the field of an object is what a store of program p says.
PutRight(c, p, P, O) ==
  \A q \in P : q[2] \in InstanceFields(c) => \E s \in p.stores : s.field = q[2] /\ StoreTrue(P, O, s, q[3])

\* The lock taken is the one the pass made out, in a frame it is right of.
TakenRight(c, g, P, O, t) ==
  LET k == t[1]
      at == t[2]
      v == t[3]
  IN  t # <<>> =>
        /\ k \in DOMAIN c /\ at \in DOMAIN c[k].insns /\ IsSite(c[k].insns[at]) /\ v \in O \X Modes
        /\ \E args : /\ ArgsOK(c, O, args, k) /\ BoundRight(c, g, P, O, args, k)
                     /\ \A l \in Range(Known(At(c, k, at - 1), Locked(c[k].insns[at]))) : Means(P, O, args, v, l)

LEMMA StoreTrueGrows ==
  ASSUME NEW P, NEW Q, P \subseteq Q, NEW O, NEW N, O \subseteq N, NEW s, NEW v, StoreTrue(P, O, s, v)
  PROVE  StoreTrue(Q, N, s, v)
BY MeansGrows DEF StoreTrue

LEMMA PutRightGrows ==
  ASSUME NEW c, NEW p, NEW P, NEW Q, P \subseteq Q, NEW O, NEW N, O \subseteq N, PutRight(c, p, P, O),
         \A q \in Q \ P : q[2] \in InstanceFields(c) => \E s \in p.stores : s.field = q[2] /\ StoreTrue(Q, N, s, q[3])
  PROVE  PutRight(c, p, Q, N)
<1>1. ASSUME NEW q \in P, q[2] \in InstanceFields(c)
      PROVE  \E s \in p.stores : s.field = q[2] /\ StoreTrue(Q, N, s, q[3])
  <2>1. PICK s \in p.stores : s.field = q[2] /\ StoreTrue(P, O, s, q[3])
    BY <1>1 DEF PutRight
  <2> QED
    BY <2>1, StoreTrueGrows
<1> QED
  BY <1>1 DEF PutRight

LEMMA BoundGrows ==
  ASSUME NEW c, NEW g, NEW P, NEW Q, P \subseteq Q, NEW O, NEW N, O \subseteq N, NEW args, NEW k, BoundRight(c, g, P, O, args, k)
  PROVE  BoundRight(c, g, Q, N, args, k)
BY MeansGrows DEF BoundRight

LEMMA TakenRightGrows ==
  ASSUME NEW c, NEW g, NEW P, NEW Q, P \subseteq Q, NEW O, NEW N, O \subseteq N, NEW t, TakenRight(c, g, P, O, t)
  PROVE  TakenRight(c, g, Q, N, t)
<1> SUFFICES ASSUME t # <<>> PROVE TakenRight(c, g, Q, N, t)
  BY DEF TakenRight
<1> DEFINE k == t[1]
           at == t[2]
           v == t[3]
           L == Range(Known(At(c, k, at - 1), Locked(c[k].insns[at])))
<1>1. k \in DOMAIN c /\ at \in DOMAIN c[k].insns /\ IsSite(c[k].insns[at]) /\ v \in O \X Modes
  BY DEF TakenRight
<1>2. PICK args : ArgsOK(c, O, args, k) /\ BoundRight(c, g, P, O, args, k) /\ \A l \in L : Means(P, O, args, v, l)
  BY DEF TakenRight
<1>3. v \in N \X Modes
  BY <1>1
<1> HIDE DEF L, k, at, v
<1>4. ArgsOK(c, N, args, k) /\ BoundRight(c, g, Q, N, args, k)
  BY <1>2, ArgsGrow, BoundGrows
<1>5. \A l \in L : Means(Q, N, args, v, l)
  BY <1>2, MeansGrows
<1> QED
  BY <1>1, <1>3, <1>4, <1>5 DEF TakenRight, L, k, at, v

-----------------------------------------------------------------------------
Told == Truth /\ PutRight(code, prog, put, objs) /\ TakenRight(code, sol, put, objs, taken)

AcqInv ==
  /\ Fixed /\ TodoOK /\ MapOK
  /\ phase # "done" => last = <<>> /\ taken = <<>>
  /\ Steady
  /\ regular /\ straight => Told

\* The stage that a program starts on.
LEMMA MachineFirst ==
  ASSUME AcqInit, IsCode(code), found = Summaries(code)
  PROVE  Steady /\ Truth
<1> DEFINE m == code["main"]
           fr == Frame(m, <<>>)
<1>1. "main" \in DOMAIN code /\ m.ins = 0
  BY DEF IsCode
<1>2. frames = <<fr>>
  BY DEF AcqInit
<1>3. DOMAIN <<>> = 1 .. m.ins /\ \A i : ArgOrNone(<<>>, i) = <<>>
  BY <1>1 DEF ArgOrNone
<1>4. ArgsOK(code, objs, <<>>, "main")
  BY <1>1, <1>3, OptionRange DEF ArgsOK, IsVal
<1>5. BoundRight(code, sol, put, objs, <<>>, "main")
  <2>1. 0 .. m.ins - 1 = {}
    BY <1>1
  <2> QED
    BY <2>1 DEF BoundRight
<1> HIDE DEF fr
<1>6. FrameOK(code, objs, fr) /\ fr.key = "main"
  BY <1>1, <1>3, <1>4, StartKeeps DEF fr
<1>7. FrameTrue(code, sol, put, objs, <<>>, fr)
  BY <1>1, <1>3, <1>5, StartIsTrue DEF fr
<1>8. Len(frames) = 1 /\ frames[1] = fr /\ IsPath(frames)
  BY <1>2, NoPath
<1>9. FramesOK(code, objs, frames)
  BY <1>6, <1>8 DEF FramesOK
<1>10. Truth
  <2>1. Args(code, frames, 1) = <<>>
    BY DEF Args
  <2> QED
    BY <1>7, <1>8, <2>1 DEF Truth, FramesTrue
<1>11. ASSUME NEW f \in Operands(code, "Sget") PROVE IsFieldName(f) /\ f \notin InstanceFields(code)
  <2>1. PICK k \in DOMAIN code : \E i \in Range(code[k].insns) : i[1] = "Sget" /\ f = i[3]
    BY <1>11 DEF Operands
  <2>2. PICK at \in DOMAIN code[k].insns : code[k].insns[at][1] = "Sget" /\ f = code[k].insns[at][3]
    BY <2>1 DEF Range
  <2> DEFINE n == code[k]
             i == n.insns[at]
  <2>3. n = code[k] /\ at \in DOMAIN n.insns /\ i = n.insns[at] /\ i[1] = "Sget" /\ f = i[3]
    BY <2>2
  <2> HIDE DEF n, i
  <2> QED
    BY <2>3, InsnIs
<1>12. HeapOK(code, objs, heap, put)
  <2>1. /\ objs = {Given(f) : f \in Operands(code, "Sget")} \cup {ClassObject(c) : c \in Operands(code, "ConstClass")}
        /\ put = {<<Statics(f[1]), f, Of(Given(f))>> : f \in Operands(code, "Sget")}
        /\ heap = [w \in {<<p[1], p[2]>> : p \in put} |-> Of(Given(w[2]))]
    BY DEF AcqInit
  <2>2. \A o \in objs : IsObject(code, o)
    BY <2>1 DEF IsObject, Given, ClassObject
  <2>3. \A x \in Operands(code, "ConstClass") : ClassObject(x) \in objs
    BY <2>1
  <2>4. ASSUME NEW q \in put PROVE IsPut(code, objs, q)
    <3>1. PICK f \in Operands(code, "Sget") : q = <<Statics(f[1]), f, Of(Given(f))>>
      BY <2>1
    <3>2. Of(Given(f)) \in objs \X Modes
      BY <2>1 DEF Of, Modes
    <3> QED
      BY <1>11, <3>1, <3>2 DEF IsPut
  <2>5. ASSUME NEW w \in DOMAIN heap PROVE <<w[1], w[2], heap[w]>> \in put
    <3>1. PICK p \in put : w = <<p[1], p[2]>>
      BY <2>1
    <3>2. PICK f \in Operands(code, "Sget") : p = <<Statics(f[1]), f, Of(Given(f))>>
      BY <2>1
    <3>3. w = <<Statics(f[1]), f>> /\ heap[w] = Of(Given(f))
      BY <2>1, <3>1, <3>2
    <3> QED
      BY <2>1, <3>3
  <2> QED
    BY <2>2, <2>3, <2>4, <2>5 DEF HeapOK
<1> QED
  BY <1>9, <1>10, <1>12 DEF Steady

LEMMA AcqFirst ==
  ASSUME AcqInit
  PROVE  AcqInv
<1>1. Fixed
  BY FixedFirst
<1>2. Steady /\ Truth
  BY <1>1, MachineFirst DEF Fixed
<1>3. IsProgram(prog)
  BY <1>1, NamedIsProgram DEF Fixed
<1>4. phase = "direct" /\ todo = Direct /\ seen = <<>> /\ last = <<>> /\ taken = <<>>
  BY DEF AcqInit
<1>5. TodoOK /\ MapOK
  BY <1>3, <1>4, EmptyMap
<1>6. PutRight(code, prog, put, objs)
  <2>1. put = {<<Statics(f[1]), f, Of(Given(f))>> : f \in Operands(code, "Sget")}
    BY DEF AcqInit
  <2>2. ASSUME NEW q \in put PROVE q[2] \notin InstanceFields(code)
    <3>1. PICK f \in Operands(code, "Sget") : q = <<Statics(f[1]), f, Of(Given(f))>>
      BY <2>1
    <3>2. q[1][2] = "Static" /\ IsPut(code, objs, q)
      BY <1>2, <3>1 DEF Statics, Steady, HeapOK
    <3> QED
      BY <3>2 DEF IsPut, Modes
  <2> QED
    BY <2>2 DEF PutRight
<1>7. TakenRight(code, sol, put, objs, taken)
  BY <1>4 DEF TakenRight
<1> QED
  BY <1>1, <1>2, <1>4, <1>5, <1>6, <1>7 DEF AcqInv, Told

-----------------------------------------------------------------------------
(***************************************************************************)
(* The steps of the machine.                                               *)
(***************************************************************************)
\* What no step of the machine changes, and what it only adds to.
LEMMA MachineLeaves ==
  ASSUME Machine
  PROVE  /\ phase = "done" /\ frames # <<>>
         /\ UNCHANGED <<prog, phase, todo, seen>> /\ UNCHANGED fixed
         /\ objs \subseteq objs' /\ put \subseteq put'
         /\ straight' = (straight /\ ~ Astray)
         /\ PutField \/ PutStatic \/ put' = put
         /\ Take \/ taken' = taken
<1>1. CASE Assign
  BY <1>1 DEF Machine, Assign, Running, vars
<1>2. CASE Allocate
  BY <1>2 DEF Machine, Allocate, Running, vars
<1>3. CASE PutField
  BY <1>3 DEF Machine, PutField, Put, Running
<1>4. CASE PutStatic
  BY <1>4 DEF Machine, PutStatic, Put, Running
<1>5. CASE Call
  BY <1>5 DEF Machine, Call, Running, vars
<1>6. CASE View
  BY <1>6 DEF Machine, View, Running, vars
<1>7. CASE Take
  BY <1>7 DEF Machine, Take, Running, vars
<1>8. CASE Give
  BY <1>8 DEF Machine, Give, Running, vars
<1>9. CASE Jump
  BY <1>9 DEF Machine, Jump, Running, vars
<1>10. CASE Return
  BY <1>10 DEF Machine, Return, Running, vars
<1> QED
  BY <1>1, <1>2, <1>3, <1>4, <1>5, <1>6, <1>7, <1>8, <1>9, <1>10 DEF Machine

LEMMA MachineGoesOn ==
  ASSUME Steady, Fixed, Machine
  PROVE  /\ HeapOK(code, objs', heap', put')
         /\ FramesOK(code, objs', frames')
         /\ Truth /\ ~ Astray /\ regular => FramesTrue(code, sol, put', objs', frames')
<1>1. regular => SolFits(code, sol) /\ SolTyped(code, sol) /\ OwnAllocations /\ GettersAgree
  BY DEF Fixed
<1>2. CASE Assign
  BY <1>2, AssignKeeps DEF MachineKept
<1>3. CASE Allocate
  BY <1>3, AllocateKeeps DEF MachineKept
<1>4. CASE PutField
  BY <1>1, <1>4, PutFieldKeeps
<1>5. CASE PutStatic
  BY <1>5, PutStaticKeeps DEF MachineKept
<1>6. CASE Call
  BY <1>1, <1>6, CallKeeps
<1>7. CASE View
  BY <1>7, ViewKeeps DEF MachineKept
<1>8. CASE Take
  BY <1>8, TakeKeeps DEF MachineKept
<1>9. CASE Give
  BY <1>9, GiveKeeps DEF MachineKept
<1>10. CASE Jump
  BY <1>10, JumpKeeps DEF MachineKept
<1>11. CASE Return
  BY <1>1, <1>11, ReturnKeeps
<1> QED
  BY <1>2, <1>3, <1>4, <1>5, <1>6, <1>7, <1>8, <1>9, <1>10, <1>11 DEF Machine

\* What is put in a field of an object is what a store says.
LEMMA PutsAreStored ==
  ASSUME Steady, Fixed, regular, Truth, ~ Astray, Machine, NEW q \in put' \ put, q[2] \in InstanceFields(code)
  PROVE  \E s \in prog.stores : s.field = q[2] /\ StoreTrue(put, objs, s, q[3])
<1>1. SolTyped(code, sol) /\ WholeStores /\ prog = Named /\ frames # <<>>
  BY MachineLeaves DEF Fixed
<1>2. CASE PutField
  <2> DEFINE o == Reg(Insn[2])
  <2>1. Insn[1] = "Iput" /\ put' = put \cup {<<Reg(Insn[3])[1], Insn[4], v>> : v \in Range(o)}
    BY <1>2 DEF PutField, Put, Running
  <2>2. PICK v \in Range(o) : q = <<Reg(Insn[3])[1], Insn[4], v>>
    BY <2>1
  <2>3. IsVal(objs, o)
    BY <1>1, <2>1, TopIs, OperandsHere DEF Steady
  <2>4. o # <<>> /\ v = o[1]
    BY <2>2, <2>3, OptionRange, HeldIs
  <2> DEFINE w == StoreHere.value
  <2>5. /\ w[1] = "lock" => Means(put, objs, <<>>, v, StoredLock(StoreHere))
        /\ w[1] = "formal" => \A x \in w[2] : Means(put, objs, <<>>, v, x) /\ Proper(x) /\ ~ IsParametric(x)
        /\ w[1] = "fresh" => v[2] = "Plain" /\ v[1][1] = w[2]
        /\ \E k \in DOMAIN code : \E s \in StoresIn(k) : StoreHere = Seen(k, s)
        /\ StoreHere.field = Insn[4]
    BY <1>1, <2>1, <2>4, StoredMeans
  <2>6. StoreHere \in prog.stores
    BY <1>1, <2>5 DEF Named
  <2>7. StoreTrue(put, objs, StoreHere, v)
    BY <2>5 DEF StoreTrue
  <2>8. StoreHere.field = q[2] /\ q[3] = v
    BY <2>2, <2>5
  <2> QED
    BY <2>6, <2>7, <2>8
<1>3. CASE PutStatic
  <2>1. Insn[1] = "Sput" /\ put' = put \cup {<<Statics(Insn[3][1]), Insn[3], v>> : v \in Range(Reg(Insn[2]))}
    BY <1>3 DEF PutStatic, Put, Running
  <2>2. q[2] = Insn[3]
    BY <2>1
  <2>3. Insn[3] \notin InstanceFields(code)
    BY <1>1, <2>1, OperandsHere
  <2> QED
    BY <2>2, <2>3
<1> QED
  BY <1>2, <1>3, MachineLeaves

\* The lock taken is one the pass knows what it is.
LEMMA TakenIsRight ==
  ASSUME Steady, Truth, ~ Astray, Take, frames # <<>>
  PROVE  TakenRight(code, sol, put, objs, taken')
<1>1. Top.key \in DOMAIN code /\ Top.at \in DOMAIN code[Top.key].insns /\ Insn = code[Top.key].insns[Top.at]
  BY InsnHere
<1> DEFINE r == Locked(Insn)
           v == Reg(r)[1]
           k == Top.key
           at == Top.at
<1>2. IsSite(Insn) /\ Reg(r) # <<>> /\ taken' = <<k, at, v>> /\ Insn[1] \in {"Enter", "Invoke"}
  BY DEF Take, IsSite, Locked, Running, Lockable
<1>3. r \in 0 .. code[k].registers - 1 /\ r \in Reads(Insn)
  <2>1. CASE Insn[1] = "Enter"
    BY <2>1, OperandsHere DEF Locked, Reads
  <2>2. CASE Insn[1] = "Invoke"
    <3>1. Insn[2] \in Library
      BY <1>2, <2>2 DEF IsSite, Library
    <3>2. Insn[3] \in Seq(0 .. code[k].registers - 1) /\ Len(Insn[3]) > 0
      BY <2>2, <3>1, OperandsHere DEF IsCallOf
    <3>3. Locked(Insn) = Insn[3][1] /\ Reads(Insn) = Range(Insn[3])
      BY <2>2 DEF Locked, Reads
    <3>4. \A S : \A x \in Seq(S) : Len(x) > 0 => x[1] \in S /\ 1 \in DOMAIN x
      OBVIOUS
    <3>5. Insn[3][1] \in 0 .. code[k].registers - 1 /\ 1 \in DOMAIN Insn[3]
      BY <3>2, <3>4
    <3> QED
      BY <3>3, <3>5 DEF Range
  <2> QED
    BY <1>2, <2>1, <2>2
<1>4. v \in objs \X Modes /\ v \in Range(Reg(r))
  <2>1. IsVal(objs, Reg(r))
    BY <1>3, TopIs DEF Steady
  <2> QED
    BY <1>2, <2>1, HeldIs
<1>5. \A l \in Range(HereKnown(r)) : Means(put, objs, TopArgs, v, l)
  BY <1>3, <1>4, HereMeans
<1>6. ArgsOK(code, objs, TopArgs, k)
  BY TopIs DEF Steady, TopArgs
<1>7. BoundRight(code, sol, put, objs, TopArgs, k)
  BY TopTrue DEF FrameTrue
<1>8. \A l \in Range(Known(At(code, k, at - 1), Locked(code[k].insns[at]))) : Means(put, objs, TopArgs, v, l)
  BY <1>1, <1>5 DEF HereKnown
<1> DEFINE t == taken'
<1> HIDE DEF v
<1>9. t # <<>> /\ t[1] = k /\ t[2] = at /\ t[3] = v
  BY <1>2
<1>10. IsSite(code[k].insns[at])
  BY <1>1, <1>2
<1> HIDE DEF t, k, at, r
<1>11. TakenRight(code, sol, put, objs, t)
  BY <1>1, <1>4, <1>6, <1>7, <1>8, <1>9, <1>10 DEF TakenRight, k, at
<1> QED
  BY <1>11 DEF t

-----------------------------------------------------------------------------
(***************************************************************************)
(* The invariant is kept.                                                  *)
(***************************************************************************)
LEMMA NamingGoesOn ==
  ASSUME AcqInv, Naming, UNCHANGED <<fixed, machine>>
  PROVE  AcqInv'
<1>1. phase # "done" /\ prog' = prog /\ last' = last
  BY DEF Naming, NoteAlias, NoteSingleton, NextPass
<1>2. last = <<>> /\ taken = <<>> /\ TodoOK /\ MapOK
  BY <1>1 DEF AcqInv
<1>3. Inv
  BY <1>2 DEF Inv, LastOK
<1>4. Inv'
  BY <1>3, NoteAliasKeeps, NoteSingletonKeeps, NextPassKeeps DEF Naming
<1>5. TodoOK' /\ MapOK'
  BY <1>4 DEF Inv
<1>6. UNCHANGED fixed /\ frames' = frames /\ straight' = straight /\ objs' = objs /\ heap' = heap /\ put' = put /\ taken' = taken
  BY DEF machine
<1>7. Fixed'
  BY <1>1, <1>6, FixedStays DEF AcqInv
<1>8. code' = code /\ found' = found /\ sol' = sol /\ regular' = regular
  BY <1>6 DEF fixed
<1>9. Steady'
  BY <1>6, <1>8 DEF AcqInv, Steady
<1>10. regular' /\ straight' => Told'
  BY <1>1, <1>6, <1>8 DEF AcqInv, Told, Truth
<1>11. last' = <<>> /\ taken' = <<>>
  BY <1>1, <1>2, <1>6
<1> QED
  BY <1>5, <1>7, <1>9, <1>10, <1>11 DEF AcqInv

LEMMA MapStays ==
  ASSUME TodoOK, MapOK, UNCHANGED <<prog, phase, todo, seen>>
  PROVE  TodoOK' /\ MapOK'
<1>1. /\ Direct' = Direct /\ Resolved' = Resolved /\ Allocated' = Allocated
      /\ \A k : Singletons(k)' = Singletons(k)
  BY DEF Direct, Resolved, Allocated, Singletons, IsDirect, StoredLock, FormalStores, Alone, StoredIn
<1>2. \A k : MadeFor(k)' = MadeFor(k) /\ Found(k)' = Found(k)
  BY <1>1 DEF MadeFor, Made, Found
<1> QED
  BY <1>1, <1>2 DEF TodoOK, MapOK

LEMMA MachineStep ==
  ASSUME AcqInv, Machine
  PROVE  AcqInv'
<1>1. /\ phase = "done" /\ frames # <<>>
      /\ UNCHANGED <<prog, phase, todo, seen>> /\ UNCHANGED fixed
      /\ objs \subseteq objs' /\ put \subseteq put'
      /\ straight' = (straight /\ ~ Astray)
      /\ Take \/ taken' = taken
  BY MachineLeaves
<1>2. Fixed /\ TodoOK /\ MapOK /\ Steady
  BY DEF AcqInv
<1>3. TodoOK' /\ MapOK'
  BY <1>1, <1>2, MapStays
<1>4. Fixed'
  BY <1>1, <1>2, FixedStays
<1>5. code' = code /\ found' = found /\ sol' = sol /\ regular' = regular /\ prog' = prog /\ phase' = "done"
  BY <1>1 DEF fixed
<1>6. /\ HeapOK(code, objs', heap', put')
      /\ FramesOK(code, objs', frames')
      /\ Truth /\ ~ Astray /\ regular => FramesTrue(code, sol, put', objs', frames')
  BY <1>2, MachineGoesOn
<1>7. Steady'
  BY <1>2, <1>5, <1>6 DEF Steady
<1>8. ASSUME regular, straight' PROVE Told'
  <2>1. straight /\ ~ Astray
    BY <1>1, <1>8
  <2>2. Truth /\ PutRight(code, prog, put, objs) /\ TakenRight(code, sol, put, objs, taken)
    BY <1>8, <2>1 DEF AcqInv, Told
  <2> DEFINE P == put'
             O == objs'
             t == taken'
  <2>3. \A q \in P \ put : q[2] \in InstanceFields(code) => \E s \in prog.stores : s.field = q[2] /\ StoreTrue(put, objs, s, q[3])
    BY <1>2, <1>8, <2>1, <2>2, PutsAreStored
  <2>4. TakenRight(code, sol, put, objs, t)
    BY <1>1, <1>2, <2>1, <2>2, TakenIsRight
  <2>5. Truth'
    BY <1>5, <1>6, <1>8, <2>1, <2>2 DEF Truth
  <2>6. put \subseteq P /\ objs \subseteq O
    BY <1>1
  <2> HIDE DEF P, O, t
  <2>7. \A q \in P \ put : q[2] \in InstanceFields(code) => \E s \in prog.stores : s.field = q[2] /\ StoreTrue(P, O, s, q[3])
    BY <2>3, <2>6, StoreTrueGrows
  <2>8. PutRight(code, prog, P, O)
    BY <2>2, <2>6, <2>7, PutRightGrows
  <2>9. TakenRight(code, sol, P, O, t)
    BY <2>4, <2>6, TakenRightGrows
  <2> QED
    BY <1>5, <2>5, <2>8, <2>9 DEF Told, P, O, t
<1> QED
  BY <1>3, <1>4, <1>5, <1>7, <1>8 DEF AcqInv

\* The invariant of `acquisitions` and of the program that is executed.
THEOREM AcqInvariant == AcqSpec => []AcqInv
<1>1. AcqInit => AcqInv
  BY AcqFirst
<1>2. AcqInv /\ [AcqNext]_allvars => AcqInv'
  <2>1. ASSUME AcqInv, Naming, UNCHANGED <<fixed, machine>> PROVE AcqInv'
    BY <2>1, NamingGoesOn
  <2>2. ASSUME AcqInv, Machine PROVE AcqInv'
    BY <2>2, MachineStep
  <2>3. ASSUME AcqInv, UNCHANGED allvars PROVE AcqInv'
    <3>1. /\ UNCHANGED <<prog, phase, todo, seen>> /\ last' = last /\ UNCHANGED fixed
          /\ frames' = frames /\ straight' = straight /\ objs' = objs /\ heap' = heap /\ put' = put /\ taken' = taken
      BY <2>3 DEF allvars, vars, machine
    <3>2. Fixed /\ TodoOK /\ MapOK /\ Steady
      BY <2>3 DEF AcqInv
    <3>3. TodoOK' /\ MapOK' /\ Fixed'
      BY <3>1, <3>2, MapStays, FixedStays
    <3>4. code' = code /\ found' = found /\ sol' = sol /\ regular' = regular
      BY <3>1 DEF fixed
    <3>5. Steady'
      BY <3>1, <3>2, <3>4 DEF Steady
    <3>6. regular' /\ straight' => Told'
      BY <2>3, <3>1, <3>4 DEF AcqInv, Told, Truth
    <3> QED
      BY <2>3, <3>1, <3>3, <3>5, <3>6 DEF AcqInv
  <2> QED
    BY <2>1, <2>2, <2>3 DEF AcqNext
<1> QED
  BY <1>1, <1>2, PTL DEF AcqSpec

-----------------------------------------------------------------------------
(***************************************************************************)
(* Aliases are followed within the locks that a value goes by.             *)
(***************************************************************************)
\* Lock l, which means the same in every method, stands for value v.
IsNamed(v, l) == Proper(l) /\ ~ IsParametric(l) /\ Means(put, objs, <<>>, v, l)

LEMMA AliasedIsField ==
  ASSUME Fixed, TodoOK, MapOK, NEW k \in Aliased
  PROVE  \E s \in prog.stores : s.field = k /\ WellStored(s)
<1>1. k \in DOMAIN seen
  BY DEF Aliased
<1>2. MadeFor(k) # {} \/ Found(k) # {}
  BY <1>1 DEF MapOK
<1>3. k \in {s.field : s \in prog.stores}
  <2>1. CASE MadeFor(k) # {}
    <3>1. PICK a \in Direct \cup Resolved : a[1] = k
      BY <2>1 DEF MadeFor, Made
    <3> QED
      BY <3>1, NotesAreGlobal DEF TodoOK
  <2>2. CASE Found(k) # {}
    BY <2>2, NotesAreGlobal DEF TodoOK, Found
  <2> QED
    BY <1>2, <2>1, <2>2
<1>4. \A s \in prog.stores : WellStored(s)
  BY NamedIsWell DEF Fixed
<1> QED
  BY <1>3, <1>4

\* What an aliased field is taken for is a lock of the whole program.
LEMMA TargetIsWell ==
  ASSUME Fixed, TodoOK, MapOK, phase = "done", AliasesHold, NEW k \in Aliased
  PROVE  Proper(Target(k)) /\ ~ IsParametric(Target(k)) /\ Target(k).mode = "Plain"
<1>1. PICK s \in prog.stores : s.field = k /\ WellStored(s)
  BY AliasedIsField
<1>2. AllStoresNoted(k) /\ Target(k).mode = "Plain"
  BY DEF AliasesHold
<1> DEFINE t == Target(k)
<1>3. \/ s.value[1] = "lock" /\ t = StoredLock(s)
      \/ s.value[1] = "formal" /\ s.value[2] = {t}
      \/ s.value[1] = "fresh" /\ t = NewLock(<<"Recv", s.value[2]>>)
  BY <1>1, <1>2, NotedTarget
<1> HIDE DEF t
<1>4. CASE s.value[1] = "lock" /\ t = StoredLock(s)
  <2>1. Proper(s.value[2])
    BY <1>1, <1>4 DEF WellStored
  <2>2. Proper(t) /\ ~ IsParametric(t)
    BY <1>4, <2>1, GroundIsProper DEF StoredLock
  <2> QED
    BY <1>2, <2>2 DEF t
<1>5. CASE s.value[1] = "formal" /\ s.value[2] = {t}
  BY <1>1, <1>2, <1>5 DEF WellStored, t
<1>6. CASE s.value[1] = "fresh" /\ t = NewLock(<<"Recv", s.value[2]>>)
  <2>1. "Recv" \in RootKinds \ {"Param"}
    BY DEF RootKinds
  <2>2. Proper(t) /\ Kind(t) = "Recv"
    BY <1>6, <2>1, SimpleIsProper
  <2> QED
    BY <1>2, <2>2 DEF IsParametric, t
<1> QED
  BY <1>3, <1>4, <1>5, <1>6

\* Whatever was put in an aliased field goes by the lock that the field is taken for.
LEMMA NamedPut ==
  ASSUME AcqInv, regular, straight, phase = "done", AliasesHold, NEW q \in put, q[2] \in Aliased
  PROVE  Means(put, objs, <<>>, q[3], Target(q[2]))
<1> DEFINE k == q[2]
           t == Target(k)
           v == q[3]
<1>1. Fixed /\ TodoOK /\ MapOK /\ Steady /\ PutRight(code, prog, put, objs)
  BY DEF AcqInv, Told
<1>2. AllStoresNoted(k)
  BY DEF AliasesHold
<1>3. k \in InstanceFields(code)
  BY <1>1, AliasedIsField DEF WellStored
<1>4. PICK s \in prog.stores : s.field = k /\ StoreTrue(put, objs, s, v)
  BY <1>1, <1>3 DEF PutRight
<1>5. \/ s.value[1] = "lock" /\ t = StoredLock(s)
      \/ s.value[1] = "formal" /\ s.value[2] = {t}
      \/ s.value[1] = "fresh" /\ t = NewLock(<<"Recv", s.value[2]>>)
  BY <1>1, <1>2, <1>4, NotedTarget
<1>6. v \in objs \X Modes
  BY <1>1 DEF Steady, HeapOK, IsPut
<1> HIDE DEF t, v
<1>7. CASE s.value[1] = "lock" /\ t = StoredLock(s)
  BY <1>4, <1>7 DEF StoreTrue, t, v
<1>8. CASE s.value[1] = "formal" /\ s.value[2] = {t}
  BY <1>4, <1>8 DEF StoreTrue, t, v
<1>9. CASE s.value[1] = "fresh" /\ t = NewLock(<<"Recv", s.value[2]>>)
  <2> DEFINE root == <<"Recv", s.value[2]>>
  <2>1. v[2] = "Plain" /\ v[1][1] = s.value[2]
    BY <1>4, <1>9 DEF StoreTrue
  <2>2. Origins(objs, <<>>, NewLock(root)) = {x \in objs \X Modes : Typed(x, s.value[2])}
    BY DEF Origins, NewLock, Lock, Kind
  <2>3. v \in Origins(objs, <<>>, NewLock(root))
    BY <1>6, <2>1, <2>2 DEF Typed
  <2>4. Means(put, objs, <<>>, v, NewLock(root))
    BY <2>3, WholeMeans
  <2> QED
    BY <1>9, <2>4 DEF t, v
<1> QED
  BY <1>5, <1>7, <1>8, <1>9

LEMMA TwoParts ==
  ASSUME NEW a, NEW F, IsPath(F), NEW x, NEW y, <<a>> \o F = <<x, y>>
  PROVE  a = x /\ F = <<y>>
<1>1. PICK S : F \in Seq(S)
  BY DEF IsPath
<1>2. Len(F) \in Nat /\ DOMAIN F = 1 .. Len(F) /\ F = [n \in 1 .. Len(F) |-> F[n]]
  BY <1>1
<1> DEFINE G == <<a>> \o F
<1>3. Len(G) = 1 + Len(F) /\ G[1] = a /\ \A n \in 1 .. Len(F) : G[1 + n] = F[n]
  <2>1. <<a>> \in Seq(S \cup {a}) /\ F \in Seq(S \cup {a})
    BY <1>1
  <2> QED
    BY <1>2, <2>1
<1>4. Len(G) = 2 /\ G[1] = x /\ G[2] = y
  <2>1. Len(<<x, y>>) = 2 /\ <<x, y>>[1] = x /\ <<x, y>>[2] = y
    OBVIOUS
  <2>2. G = <<x, y>>
    OBVIOUS
  <2> HIDE DEF G
  <2> QED
    BY <2>1, <2>2
<1> HIDE DEF G
<1>5. Len(F) = 1
  BY <1>2, <1>3, <1>4
<1>6. F[1] = y /\ a = x
  BY <1>3, <1>4, <1>5
<1> QED
  BY <1>1, <1>5, <1>6

\* A field is named by its class and its name.
LEMMA BaseIs ==
  ASSUME NEW l, Proper(l), Kind(l) \in Grounded, NEW k, k = <<k[1], k[2]>>, Base(l) = k
  PROVE  l.root[2] = k[1] /\ l.fields = <<k[2]>>
<1> DEFINE b == WithMode(l, "Plain")
<1>1. b.root = l.root /\ b.fields = l.fields /\ b.mode = "Plain"
  <2>1. l = [root |-> l.root, fields |-> l.fields, mode |-> l.mode]
    BY DEF Proper, IsLock, Lock
  <2> QED
    BY <2>1 DEF WithMode
<1>2. RootName(l.root) = <<l.root[2]>>
  BY DEF RootName, Grounded, Kind
<1>3. ModeName("Plain") = <<>>
  BY DEF ModeName
<1> HIDE DEF b
<1>4. Name(b) = <<l.root[2]>> \o l.fields \o <<>>
  BY <1>1, <1>2, <1>3 DEF Name
<1>5. IsPath(l.fields)
  BY DEF Proper
<1>6. PICK S : l.fields \in Seq(S)
  BY <1>5 DEF IsPath
<1> DEFINE F == l.fields
           a == l.root[2]
<1>7. <<a>> \o F \o <<>> = <<a>> \o F
  <2>1. <<a>> \in Seq(S \cup {a}) /\ F \in Seq(S \cup {a})
    BY <1>6
  <2> HIDE DEF a, F
  <2> QED
    BY <2>1
<1>8. <<a>> \o F = <<k[1], k[2]>>
  BY <1>4, <1>7 DEF Base, b
<1> HIDE DEF a, F
<1>9. IsPath(F)
  BY <1>5 DEF F
<1> QED
  BY <1>8, <1>9, TwoParts DEF a, F

\* Following an alias never leaves the locks that the value goes by.
LEMMA FollowKeeps ==
  ASSUME AcqInv, regular, straight, phase = "done", AliasesHold, NEW v, NEW l, IsNamed(v, l)
  PROVE  IsNamed(v, Follow(l))
<1>1. Fixed /\ TodoOK /\ MapOK /\ Steady
  BY DEF AcqInv
<1>2. CASE ~ Follows(l)
  BY <1>2 DEF Follow
<1>3. CASE Follows(l)
  <2> DEFINE k == Base(l)
             t == Target(k)
  <2>1. Kind(l) \in Grounded /\ k \in Aliased /\ Follow(l) = WithMode(t, l.mode)
    BY <1>3 DEF Follows, Follow
  <2>2. PICK s \in prog.stores : s.field = k /\ WellStored(s)
    BY <1>1, <2>1, AliasedIsField
  <2>3. IsFieldName(k) /\ k \in InstanceFields(code)
    BY <2>2 DEF WellStored
  <2>4. Proper(t) /\ ~ IsParametric(t) /\ t.mode = "Plain"
    BY <1>1, <2>1, TargetIsWell
  <2>5. l.root[2] = k[1] /\ l.fields = <<k[2]>>
    <3>1. Proper(l) /\ k = <<k[1], k[2]>>
      BY <2>3 DEF IsNamed, IsFieldName
    <3> HIDE DEF k
    <3>2. Base(l) = k
      BY DEF k
    <3> QED
      BY <2>1, <3>1, <3>2, BaseIs
  <2> HIDE DEF k, t
  <2>6. PICK x : Reaches(put, Origins(objs, <<>>, l), l.fields, x) /\ v = As(x, l.mode)
    BY <2>1 DEF IsNamed, Means, IsOpaque, Grounded
  <2>7. PICK q \in put : q[1] \in Origins(objs, <<>>, l) /\ q[2][2] = k[2] /\ q[3] = x
    BY <2>5, <2>6, ReachedByField
  <2>8. IsPut(code, objs, q)
    BY <1>1 DEF Steady, HeapOK
  <2>9. q[2] = <<q[2][1], q[2][2]>> /\ q[2][1] # "Object" /\ k = <<k[1], k[2]>> /\ k[1] # "Object"
    BY <2>3, <2>8 DEF IsPut, IsFieldName
  <2>10. q[2][1] = k[1]
    <3>1. CASE Kind(l) = "Recv"
      <4>1. q[1] \in objs \X Modes /\ Typed(q[1], k[1])
        BY <2>5, <2>7, <3>1 DEF Origins
      <4>2. q[1][2] # "Static"
        BY <4>1 DEF Modes
      <4>3. q[2] \in InstanceFields(code)
        BY <2>8, <4>2 DEF IsPut, Statics
      <4>4. Typed(q[1], q[2][1])
        BY <2>8, <4>3 DEF IsPut
      <4> QED
        BY <2>9, <4>1, <4>4 DEF Typed
    <3>2. CASE Kind(l) = "Static"
      <4>1. q[1] = Statics(k[1])
        BY <2>5, <2>7, <3>2 DEF Origins
      <4>2. q[1][2] = "Static" /\ q[1][1][2] = k[1]
        BY <4>1 DEF Statics
      <4>3. q[2] \notin InstanceFields(code)
        BY <2>8, <4>2 DEF IsPut, Modes
      <4>4. q[1] = Statics(q[2][1])
        BY <2>8, <4>3 DEF IsPut
      <4>5. q[1][1][2] = q[2][1]
        BY <4>4 DEF Statics
      <4> QED
        BY <4>2, <4>5
    <3> QED
      BY <2>1, <3>1, <3>2 DEF Grounded
  <2>11. q[2] = k
    BY <2>7, <2>9, <2>10
  <2>12. Means(put, objs, <<>>, x, t)
    BY <2>1, <2>7, <2>11, NamedPut DEF t
  <2>13. IsLock(t) /\ t = [root |-> t.root, fields |-> t.fields, mode |-> t.mode]
    BY <2>4 DEF Proper, IsLock, Lock
  <2>14. CASE l.mode = "Plain"
    <3>1. v = x
      BY <2>6, <2>14 DEF As
    <3>2. WithMode(t, "Plain") = t
      BY <2>4, <2>13 DEF WithMode
    <3> QED
      BY <2>1, <2>4, <2>12, <2>14, <3>1, <3>2 DEF IsNamed
  <2>15. CASE l.mode # "Plain"
    <3> DEFINE w == WithMode(t, l.mode)
    <3>1. v = <<x[1], l.mode>>
      BY <2>6, <2>15 DEF As
    <3>2. Means(put, objs, <<>>, v, w)
      BY <2>12, <2>13, <2>15, <3>1, ViewMeans
    <3>3. w = [root |-> t.root, fields |-> t.fields, mode |-> l.mode] /\ l.mode \in Modes
      BY <2>13 DEF WithMode, IsNamed, Proper
    <3>4. Proper(w) /\ ~ IsParametric(w)
      BY <2>4, <3>3 DEF Proper, IsLock, Lock, IsParametric, Kind
    <3> QED
      BY <2>1, <3>2, <3>4 DEF IsNamed
  <2> QED
    BY <2>14, <2>15
<1> QED
  BY <1>2, <1>3

-----------------------------------------------------------------------------
(***************************************************************************)
(* The answers, and the stores.                                            *)
(***************************************************************************)
LEMMA CanonicalizeKeeps ==
  ASSUME AcqInv, regular, straight, phase = "done", AliasesHold, NEW v, NEW l, IsNamed(v, l)
  PROVE  IsNamed(v, Canonicalize(l))
<1> DEFINE Good == {n \in 0 .. MaxCanonHops : IsNamed(v, Chased(l, n))}
<1>1. TargetsAreLocks
  BY TargetsTyped DEF AcqInv
<1>2. 0 \in Good
  <2>1. Chased(l, 0) = l
    BY <1>1, ChasedSteps
  <2> QED
    BY <2>1, MaxCanonHopsAssumption
<1>3. ASSUME NEW n \in Good, n \in 0 .. MaxCanonHops - 1 PROVE n + 1 \in Good
  <2>1. n \in Nat /\ n + 1 \in 0 .. MaxCanonHops /\ IsNamed(v, Chased(l, n))
    BY <1>3, MaxCanonHopsAssumption
  <2>2. Chased(l, n + 1) = Follow(Chased(l, n))
    BY <1>1, <2>1, ChasedSteps
  <2>3. IsNamed(v, Follow(Chased(l, n)))
    BY <2>1, FollowKeeps
  <2> QED
    BY <2>1, <2>2, <2>3
<1> HIDE DEF Good
<1>4. 0 .. MaxCanonHops \subseteq Good
  BY <1>2, <1>3, MaxCanonHopsAssumption, IntervalInduction
<1>5. MaxCanonHops \in Good
  BY <1>4, MaxCanonHopsAssumption
<1> QED
  BY <1>5 DEF Good, Canonicalize

LEMMA NamedGoesBy ==
  ASSUME NEW v, NEW l, IsNamed(v, l)
  PROVE  GoesBy(v, l)
BY GoesByMeans DEF IsNamed, Proper

\* What the injector made of a lock of a formal.
LEMMA ResolvedIs ==
  ASSUME NEW k, NEW l
  PROVE  /\ Kind(l) # "Param" => Inj!ResolveParamLock(k, l) = <<>>
         /\ Inj!ResolveParamLock(k, l) # <<>> =>
              LET r == sol[<<k, l.root[2]>>]
              IN  /\ Kind(l) = "Param" /\ r # <<"Bottom">> /\ r # <<"Top">>
                  /\ Inj!ResolveParamLock(k, l)[1] = Extend(r[2], l.fields, l.mode)
<1>1. Inj!Kind(l) = Kind(l) /\ \A x : Inj!Extend(x, l.fields, l.mode) = Extend(x, l.fields, l.mode)
  BY SameLocks
<1>2. CASE <<k, l.root[2]>> \in DOMAIN sol
  <2>1. Inj!ValueOf(sol, <<k, l.root[2]>>) = sol[<<k, l.root[2]>>]
    BY <1>2 DEF Inj!ValueOf
  <2> QED
    BY <1>1, <2>1 DEF Inj!ResolveParamLock, Inj!Bottom, Inj!Top
<1>3. CASE <<k, l.root[2]>> \notin DOMAIN sol
  <2>1. Inj!ResolveParamLock(k, l) = <<>>
    BY <1>3 DEF Inj!ResolveParamLock, Inj!Bottom, Inj!Top, Inj!ValueOf
  <2> QED
    BY <2>1
<1> QED
  BY <1>2, <1>3

\* The answer for a lock that a value is in a frame of method k.
LEMMA AnswerIsRight ==
  ASSUME AcqInv, regular, straight, phase = "done", AliasesHold, NEW k \in DOMAIN code,
         NEW args, ArgsOK(code, objs, args, k), BoundRight(code, sol, put, objs, args, k),
         NEW v \in objs \X Modes, NEW l, Fine(code[k], l), Means(put, objs, args, v, l),
         \E s \in found[k].sites : s.lock = l
  PROVE  GoesBy(v, AnswerFor(k, l))
<1> DEFINE passed == Inj!ResolveParamLock(k, l)
           j == l.root[2]
           m == code[k]
<1>1. Fixed /\ Steady /\ IsCode(code) /\ SolTyped(code, sol) /\ ViewsResolved
  BY DEF AcqInv, Fixed
<1>2. Plainly(put)
  BY <1>1, PutsArePlain DEF Steady
<1>3. CASE passed # <<>>
  <2> DEFINE r == sol[<<k, j>>]
             b == Extend(r[2], l.fields, l.mode)
  <2>1. Kind(l) = "Param" /\ r # <<"Bottom">> /\ r # <<"Top">> /\ passed[1] = b
    BY <1>3, ResolvedIs
  <2>2. j \in 0 .. m.ins - 1
    BY <2>1 DEF Fine
  <2>3. IsBound(r)
    BY <1>1, <2>2 DEF SolTyped
  <2>4. PICK x : r = <<"Val", x>> /\ Proper(x) /\ ~ IsParametric(x)
    BY <2>1, <2>3 DEF IsBound
  <2>5. r[2] = x
    BY <2>4
  <2>6. Means(put, objs, <<>>, v, Extend(x, l.fields, l.mode))
    BY <1>2, <2>1, <2>4, ParamMeans
  <2>7. Proper(Extend(x, l.fields, l.mode)) /\ ~ IsParametric(Extend(x, l.fields, l.mode))
    BY <2>4, ExtendIsProper DEF Fine, Proper
  <2>8. IsNamed(v, passed[1])
    BY <2>1, <2>5, <2>6, <2>7 DEF IsNamed
  <2>9. AnswerFor(k, l) = Canonicalize(passed[1])
    BY <1>3 DEF AnswerFor
  <2> HIDE DEF passed, b, r
  <2> QED
    BY <2>8, <2>9, CanonicalizeKeeps, NamedGoesBy
<1>4. CASE passed = <<>> /\ DeclaredType(k, l) # <<>>
  <2>1. Kind(l) = "Param" /\ l.fields = <<>> /\ DeclaredType(k, l) = m.types[j + 1]
    BY <1>4 DEF DeclaredType
  <2>2. j \in 0 .. m.ins - 1 /\ m.ins \in Nat
    BY <1>1, <2>1, CodeRuns DEF Fine, Runs
  <2>3. j + 1 \in 1 .. m.ins /\ (j + 1) - 1 = j
    BY <2>2
  <2> DEFINE T == m.types[j + 1][1]
  <2>4. m.types[j + 1] = <<T>>
    <3>1. IsMethod(code, k)
      BY <1>1 DEF IsCode
    <3>2. m.types[j + 1] = <<>> \/ m.types[j + 1] = <<T>>
      BY <2>3, <3>1 DEF IsMethod
    <3> QED
      BY <1>4, <2>1, <3>2
  <2>5. l.mode = "Plain"
    BY <1>1, <1>4, <2>1 DEF ViewsResolved
  <2>6. l = NewLock(l.root)
    BY <2>1, <2>5 DEF Fine, Proper, IsLock, Lock, NewLock
  <2>7. v \in Origins(objs, args, NewLock(l.root))
    BY <2>1, <2>6, WholeMeans DEF Kind
  <2>8. v \in Range(ArgOrNone(args, j))
    BY <2>1, <2>6, <2>7 DEF Origins
  <2>9. T \in Range(m.types[j + 1])
    <3>1. \A x : x \in Range(<<x>>)
      BY OptionRange
    <3> HIDE DEF T
    <3> QED
      BY <2>4, <3>1
  <2>10. Typed(v, T)
    BY <2>3, <2>8, <2>9 DEF ArgsOK
  <2> HIDE DEF T
  <2> DEFINE root == <<"Recv", T>>
  <2>11. Origins(objs, <<>>, NewLock(root)) = {x \in objs \X Modes : Typed(x, T)}
    BY DEF Origins, NewLock, Lock, Kind
  <2>12. Means(put, objs, <<>>, v, NewLock(root))
    BY <2>10, <2>11, WholeMeans
  <2>13. Proper(NewLock(root)) /\ ~ IsParametric(NewLock(root))
    <3>1. "Recv" \in RootKinds \ {"Param"}
      BY DEF RootKinds
    <3>2. Kind(NewLock(root)) = "Recv" /\ Proper(NewLock(root))
      BY <3>1, SimpleIsProper
    <3> QED
      BY <3>2 DEF IsParametric
  <2>14. DeclaredType(k, l)[1] = T
    BY <2>1 DEF T
  <2>15. AnswerFor(k, l) = NewLock(root)
    BY <1>4, <2>14 DEF AnswerFor
  <2> HIDE DEF root
  <2> QED
    BY <2>12, <2>13, <2>15, NamedGoesBy DEF IsNamed
<1>5. CASE passed = <<>> /\ DeclaredType(k, l) = <<>>
  <2> DEFINE d == Ground(l, ClassOf[k], k)
  <2>1. m.class = ClassOf[k]
    BY <1>1, CodeRuns
  <2>2. AnswerFor(k, l) = Canonicalize(d)
    BY <1>5, <2>1 DEF AnswerFor
  <2>3. Means(put, objs, <<>>, v, d)
    BY <1>1, GroundHere
  <2>4. Proper(d) /\ ~ IsParametric(d)
    BY GroundIsProper DEF Fine
  <2> HIDE DEF d
  <2>5. IsNamed(v, d)
    BY <2>3, <2>4 DEF IsNamed
  <2> QED
    BY <2>2, <2>5, CanonicalizeKeeps, NamedGoesBy
<1> QED
  BY <1>3, <1>4, <1>5

LEMMA SiteHere ==
  ASSUME IsCode(code), found = Summaries(code), NEW k \in DOMAIN code, NEW at \in DOMAIN code[k].insns,
         IsSite(code[k].insns[at])
  PROVE  /\ SiteAt(k, at) \in found[k].sites
         /\ SiteAt(k, at).lock = LockOf(code[k], At(code, k, at - 1), at, Locked(code[k].insns[at]))
<1> DEFINE m == code[k]
           s == CHOOSE x \in Summaries(code)[k].sites : x.at = at
<1>1. m = code[k] /\ at \in DOMAIN m.insns /\ IsSite(m.insns[at])
  OBVIOUS
<1>2. s \in Summaries(code)[k].sites /\ s.lock = LockOf(m, At(code, k, at - 1), at, Locked(m.insns[at]))
  BY <1>1, SiteIs
<1>3. SiteAt(k, at) = s
  BY DEF SiteAt
<1> HIDE DEF s
<1> QED
  BY <1>2, <1>3

LEMMA AnswersHold ==
  ASSUME AcqInv
  PROVE  AnswersAreTrue
<1> SUFFICES ASSUME regular, straight, taken # <<>>, AliasesHold PROVE AnswerIsTrue
  BY DEF AnswersAreTrue
<1> DEFINE k == taken[1]
           at == taken[2]
           v == taken[3]
           m == code[k]
           i == m.insns[at]
           o == Known(At(code, k, at - 1), Locked(i))
           l == SiteAt(k, at).lock
<1>1. phase = "done" /\ Fixed /\ IsCode(code) /\ found = Summaries(code) /\ TakenRight(code, sol, put, objs, taken)
  BY DEF AcqInv, Told, Fixed
<1>2. k \in DOMAIN code /\ at \in DOMAIN m.insns /\ IsSite(i) /\ v \in objs \X Modes
  BY <1>1 DEF TakenRight
<1>3. PICK args : ArgsOK(code, objs, args, k) /\ BoundRight(code, sol, put, objs, args, k)
                    /\ \A x \in Range(o) : Means(put, objs, args, v, x)
  BY <1>1 DEF TakenRight
<1>4. SiteAt(k, at) \in found[k].sites /\ l = LockOf(m, At(code, k, at - 1), at, Locked(i))
  BY <1>1, <1>2, SiteHere
<1>5. AnswerIsTrue <=> GoesBy(v, AnswerFor(k, l))
  BY DEF AnswerIsTrue
<1>6. AllFine(m, At(code, k, at - 1)) /\ IsOption(o)
  <2>1. at - 1 \in 0 .. Len(m.insns)
    BY <1>1, <1>2, CodeRuns
  <2> QED
    BY <1>1, <1>2, <2>1, PassOfCode, KnownIsOption
<1> HIDE DEF v, l
<1>7. Fine(m, l) /\ Means(put, objs, args, v, l)
  <2>1. CASE o = <<>>
    <3>1. l = NewLock(<<"Opaque", <<"lost", m.key, at>>>>)
      BY <1>4, <2>1 DEF LockOf, Lost
    <3>2. "Opaque" \in RootKinds \ {"Param"}
      BY DEF RootKinds
    <3>3. Proper(l) /\ Kind(l) = "Opaque"
      BY <3>1, <3>2, SimpleIsProper
    <3> QED
      BY <3>3 DEF Fine, Means, IsOpaque
  <2>2. CASE o # <<>>
    <3>1. l = At(code, k, at - 1).regs[Locked(i)]
      BY <1>4, <2>2 DEF LockOf
    <3>2. o = <<l>>
      BY <2>2, <3>1 DEF Known
    <3>3. l \in Range(o)
      BY <3>2, OptionRange
    <3>4. Fine(m, l)
      BY <1>6, <3>3 DEF AllFine
    <3> QED
      BY <1>3, <3>3, <3>4
  <2> QED
    BY <2>1, <2>2
<1>8. \E s \in found[k].sites : s.lock = l
  BY <1>4 DEF l
<1> HIDE DEF k, at, i, o
<1>9. GoesBy(v, AnswerFor(k, l))
  BY <1>1, <1>2, <1>3, <1>7, <1>8, AnswerIsRight DEF m
<1> QED
  BY <1>5, <1>9

\* The name given for a lock is one that the object locked goes by
\* (`acquisitions`, lines 217-265), for every program and every run of it.
THEOREM AnswersTrue == AcqSpec => []AnswersAreTrue
BY AcqInvariant, AnswersHold, PTL

\* A value that is stored is an object of the store.
LEMMA StoredFits ==
  ASSUME NEW s, WellStored(s), NEW v, StoreTrue(put, objs, s, v), ObjectsOf(s) # {}
  PROVE  Stored(s, v) \in ObjectsOf(s)
<1> DEFINE Fits(o) == CASE o[1] = "lock"  -> GoesBy(v, o[2])
                        [] o[1] = "fresh" -> v[1][1] = o[2]
                        [] OTHER          -> TRUE
<1>1. \E o \in ObjectsOf(s) : Fits(o)
  <2>1. CASE s.value[1] = "lock"
    <3> DEFINE l == StoredLock(s)
    <3>1. ObjectsOf(s) = {<<"lock", l>>}
      BY <2>1 DEF ObjectsOf
    <3>2. Means(put, objs, <<>>, v, l)
      BY <2>1 DEF StoreTrue
    <3>3. Proper(l) /\ ~ IsParametric(l)
      BY <2>1, GroundIsProper DEF WellStored, StoredLock
    <3> HIDE DEF l
    <3>4. GoesBy(v, l)
      BY <3>2, <3>3, NamedGoesBy DEF IsNamed
    <3>5. Fits(<<"lock", l>>)
      BY <3>4
    <3> QED
      BY <3>1, <3>5
  <2>2. CASE s.value[1] = "formal" /\ s.value[2] # {}
    <3>1. PICK l \in s.value[2] : TRUE
      BY <2>2
    <3>2. <<"lock", l>> \in ObjectsOf(s)
      BY <2>2, <3>1 DEF ObjectsOf
    <3>3. IsNamed(v, l)
      BY <2>2, <3>1 DEF StoreTrue, WellStored, IsNamed
    <3>4. GoesBy(v, l)
      BY <3>3, NamedGoesBy
    <3>5. Fits(<<"lock", l>>)
      BY <3>4
    <3> QED
      BY <3>2, <3>5
  <2>3. CASE s.value[1] = "fresh"
    <3>1. ObjectsOf(s) = {<<"fresh", s.value[2]>>}
      BY <2>3 DEF ObjectsOf
    <3>2. v[1][1] = s.value[2]
      BY <2>3 DEF StoreTrue
    <3>3. Fits(<<"fresh", s.value[2]>>)
      BY <3>2
    <3> QED
      BY <3>1, <3>3
  <2>4. CASE s.value[1] \notin {"lock", "fresh"} /\ ~ (s.value[1] = "formal" /\ s.value[2] # {})
    <3>1. ObjectsOf(s) = {<<"unknown", s>>}
      BY <2>4 DEF ObjectsOf, Unknown
    <3>2. Fits(<<"unknown", s>>)
      OBVIOUS
    <3> QED
      BY <3>1, <3>2
  <2> QED
    BY <2>1, <2>2, <2>3, <2>4
<1> DEFINE fits == {o \in ObjectsOf(s) : Fits(o)}
<1>2. Stored(s, v) = IF fits = {} THEN <<"other", v>> ELSE CHOOSE o \in fits : TRUE
  BY DEF Stored
<1> HIDE DEF Fits
<1>3. fits # {} /\ fits \subseteq ObjectsOf(s)
  BY <1>1
<1> HIDE DEF fits
<1> QED
  BY <1>2, <1>3

\* A step of the machine is, for the alias map, a store that it was told of.
LEMMA MachineIsNaming ==
  ASSUME AcqInv, Machine, regular, straight'
  PROVE  [Next]_vars
<1>1. /\ phase = "done" /\ frames # <<>>
      /\ UNCHANGED <<prog, phase, todo, seen>>
      /\ straight /\ ~ Astray
  BY MachineLeaves
<1>2. Fixed /\ Steady /\ Truth
  BY <1>1 DEF AcqInv, Told
<1>3. CASE last' = last
  BY <1>1, <1>3 DEF vars
<1>4. CASE last' # last
  <2> DEFINE s == StoreHere
             v == Reg(Insn[2])[1]
             w == s.value
  <2>1. PutField
    BY <1>4 DEF Machine, Assign, Allocate, PutStatic, Call, View, Take, Give, Jump, Return, vars
  <2>2. Insn[1] = "Iput" /\ Reg(Insn[2]) # <<>> /\ ObjectsOf(s) # {} /\ last' = <<s, Stored(s, v)>>
    BY <1>4, <2>1 DEF PutField, Running
  <2>3. SolTyped(code, sol) /\ WholeStores /\ prog = Named
    BY <1>2 DEF Fixed
  <2>4. /\ w[1] = "lock" => Means(put, objs, <<>>, v, StoredLock(s))
        /\ w[1] = "formal" => \A x \in w[2] : Means(put, objs, <<>>, v, x) /\ Proper(x) /\ ~ IsParametric(x)
        /\ w[1] = "fresh" => v[2] = "Plain" /\ v[1][1] = w[2]
        /\ \E k \in DOMAIN code : \E x \in StoresIn(k) : s = Seen(k, x)
    BY <1>1, <1>2, <2>2, <2>3, StoredMeans
  <2> HIDE DEF s, v
  <2>5. StoreTrue(put, objs, s, v)
    BY <2>4 DEF StoreTrue
  <2>6. s \in prog.stores
    BY <2>3, <2>4 DEF Named
  <2>7. WellStored(s)
    BY <1>2, <2>6, NamedIsWell DEF Fixed
  <2>8. Stored(s, v) \in ObjectsOf(s)
    BY <2>2, <2>5, <2>7, StoredFits
  <2>9. Execute(s, Stored(s, v))
    BY <1>1, <2>2, <2>6, <2>8 DEF Execute
  <2> QED
    BY <2>6, <2>8, <2>9 DEF Next
<1> QED
  BY <1>3, <1>4

\* Seen from the alias map, the program performs the stores that the map was
\* made from (lines 54-80 of extract.rs, and lines 149-160): Naming is what is left
\* of `acquisitions` when the methods are forgotten.
THEOREM StoresNoted == AcqSpec => StoresAreNoted
<1>1. AcqInit => IsProgram(prog)
  BY AcqFirst DEF AcqInv, TodoOK
<1>2. AcqInv /\ [AcqNext]_allvars => [regular /\ straight' => Next]_vars
  <2>1. ASSUME Naming PROVE Next
    BY <2>1 DEF Next
  <2>2. ASSUME AcqInv, Machine, regular, straight' PROVE [Next]_vars
    BY <2>2, MachineIsNaming
  <2>3. ASSUME UNCHANGED allvars PROVE UNCHANGED vars
    BY <2>3 DEF allvars
  <2> QED
    BY <2>1, <2>2, <2>3 DEF AcqNext
<1> QED
  BY <1>1, <1>2, AcqInvariant, PTL DEF AcqSpec, StoresAreNoted
=============================================================================
