--------------------------- MODULE HeldFlowProofs ---------------------------
(***************************************************************************)
(* Proofs about the held-lock dataflow of a method, for methods of any     *)
(* size, over any locks and helpers.                                       *)
(***************************************************************************)
EXTENDS MethodScan, LeastNumber

-----------------------------------------------------------------------------
(***************************************************************************)
(* The inductive invariant.                                                *)
(***************************************************************************)
Item == Lock \cup {Opaque(i) : i \in 1 .. Size}

Entry == [depth : Nat, lock : Item, enter : Nat]

State == {st \in [locks : SUBSET Entry, unmatched : SUBSET Lock] : IsFiniteSet(st.locks)}

Effect == {e \in [acquires : SUBSET Lock, releases : SUBSET Lock] : IsFiniteSet(e.acquires)}

TypeOK ==
  /\ top \in Methods /\ m \in Bodies /\ m.helpers = top.helpers
  /\ phase \in {"effects", "helper", "solve", "done"}
  /\ phase = "helper" => todo # {} /\ m = HelperOf(top, Turn)
  /\ phase \in {"solve", "done"} => m = top
  /\ todo \subseteq DOMAIN m.helpers
  /\ eff \in [DOMAIN m.helpers -> Effect]
  /\ next \in [DOMAIN m.helpers -> Effect]
  /\ round \in 0 .. MaxRounds
  /\ inn \in [DOMAIN inn -> State] /\ DOMAIN inn \subseteq Blocks
  /\ work \in Seq(DOMAIN inn)
  /\ edges \subseteq Blocks \X State
  /\ pc \in 0 .. Size
  /\ has \in [Lock -> Nat]

\* Nothing runs before the dataflow has converged, which is when nothing is left to do.
Idle ==
  /\ phase # "done" => pc = 0
  /\ phase = "done" => work = <<>> /\ edges = {}

\* Block e[1] is entered with no more than edge e leads to it.
Under(e) ==
  /\ e[1] \in DOMAIN inn
  /\ Held(inn[e[1]]) \subseteq Held(e[2])
  /\ inn[e[1]].unmatched \subseteq e[2].unmatched

\* An edge from a block reached is waiting, or the state at its end is below it.
Flowing ==
  \A b \in DOMAIN inn : Queued(b) \/ \A e \in EdgesFrom(b) : e \in edges \/ Under(e)

\* The method is entered, with no more than its callers all hold.
Entering == 1 \in DOMAIN inn /\ Held(inn[1]) \subseteq {m.entry[d] : d \in 1 .. Len(m.entry)}

FlowInv == TypeOK /\ Idle /\ (phase # "effects" => Flowing) /\ Entering /\ EveryStepIsReplayed

-----------------------------------------------------------------------------
(***************************************************************************)
(* The held stack.                                                         *)
(***************************************************************************)
\* No lock is held twice.
Once(st) == \A d, e \in st.locks : d.lock = e.lock => d = e

LEMMA RecordIsState ==
  ASSUME NEW locks, locks \subseteq Entry, IsFiniteSet(locks), NEW unmatched, unmatched \subseteq Lock
  PROVE  [locks |-> locks, unmatched |-> unmatched] \in State
<1>1. [locks |-> locks, unmatched |-> unmatched] \in [locks : SUBSET Entry, unmatched : SUBSET Lock]
  OBVIOUS
<1>2. [locks |-> locks, unmatched |-> unmatched].locks = locks
  OBVIOUS
<1> QED
  BY <1>1, <1>2 DEF State

\* A state with some of the entries of another.
LEMMA FewerIsState ==
  ASSUME NEW st \in State, NEW locks, locks \subseteq st.locks, NEW unmatched, unmatched \subseteq Lock
  PROVE  [locks |-> locks, unmatched |-> unmatched] \in State
<1>1. IsFiniteSet(locks)
  BY FS_Subset DEF State
<1>2. locks \subseteq Entry
  BY DEF State
<1> QED
  BY <1>1, <1>2, RecordIsState

LEMMA HeldIsFinite ==
  ASSUME NEW st \in State
  PROVE  IsFiniteSet(Held(st)) /\ Held(st) \subseteq Item
<1> DEFINE f == [e \in st.locks |-> e.lock]
<1>1. IsFiniteSet({f[e] : e \in DOMAIN f})
  BY ImageIsFinite DEF State
<1>2. {f[e] : e \in DOMAIN f} = Held(st)
  BY DEF Held
<1>3. Held(st) \subseteq Item
  BY DEF Held, State, Entry
<1> QED
  BY <1>1, <1>2, <1>3

LEMMA TopIsGreatest ==
  ASSUME NEW st \in State
  PROVE  Top(st) \in Nat /\ \A e \in st.locks : e.depth <= Top(st)
<1> DEFINE f == [e \in st.locks |-> e.depth]
           S == {0} \cup {e.depth : e \in st.locks}
<1>1. IsFiniteSet({f[e] : e \in DOMAIN f})
  BY ImageIsFinite DEF State
<1>2. S = {f[e] : e \in DOMAIN f} \cup {0}
  OBVIOUS
<1>3. IsFiniteSet(S)
  BY <1>1, <1>2, FS_AddElement
<1>4. S \subseteq Nat /\ S # {}
  BY DEF State, Entry
<1>5. Max(S) \in S /\ \A y \in S : y <= Max(S)
  BY <1>3, <1>4, GreatestIsGreatest
<1> QED
  BY <1>4, <1>5 DEF Top

LEMMA PushAdds ==
  ASSUME NEW st \in State, NEW ls \in Seq(Item), NEW line \in Nat
  PROVE  /\ Push(st, ls, line) \in State
         /\ Held(Push(st, ls, line)) = Held(st) \cup {ls[k] : k \in 1 .. Len(ls)}
         /\ Push(st, ls, line).unmatched = st.unmatched
<1> DEFINE f == [k \in 1 .. Len(ls) |-> [depth |-> Top(st) + k, lock |-> ls[k], enter |-> line]]
           new == {[depth |-> Top(st) + k, lock |-> ls[k], enter |-> line] : k \in 1 .. Len(ls)}
<1>1. Len(ls) \in Nat /\ Top(st) \in Nat /\ \A k \in 1 .. Len(ls) : ls[k] \in Item
  BY TopIsGreatest
<1>2. IsFiniteSet({f[k] : k \in DOMAIN f})
  <2>1. IsFiniteSet(1 .. Len(ls))
    BY <1>1, FS_Interval
  <2> QED
    BY <2>1, ImageIsFinite
<1>3. {f[k] : k \in DOMAIN f} = new
  OBVIOUS
<1>4. new \subseteq Entry
  BY <1>1 DEF Entry
<1>5. st \in [locks : SUBSET Entry, unmatched : SUBSET Lock] /\ IsFiniteSet(st.locks)
  BY DEF State
<1>6. IsFiniteSet(st.locks \cup new)
  BY <1>2, <1>3, <1>5, FS_Union
<1>7. Push(st, ls, line) = [st EXCEPT !.locks = @ \cup new]
  BY DEF Push
<1>8. \A l : l \in {e.lock : e \in new} <=> \E k \in 1 .. Len(ls) : l = ls[k]
  <2>1. ASSUME NEW k \in 1 .. Len(ls) PROVE ls[k] \in {e.lock : e \in new}
    <3> DEFINE e == [depth |-> Top(st) + k, lock |-> ls[k], enter |-> line]
    <3>1. e \in new /\ e.lock = ls[k]
      OBVIOUS
    <3> HIDE DEF new, e
    <3> QED
      BY <3>1
  <2>2. ASSUME NEW e \in new PROVE \E k \in 1 .. Len(ls) : e.lock = ls[k]
    <3>1. PICK k \in 1 .. Len(ls) : e = [depth |-> Top(st) + k, lock |-> ls[k], enter |-> line]
      OBVIOUS
    <3> QED
      BY <3>1
  <2> HIDE DEF new
  <2> QED
    BY <2>1, <2>2
<1> HIDE DEF new, f
<1>9. Push(st, ls, line) = [locks |-> st.locks \cup new, unmatched |-> st.unmatched]
  BY <1>5, <1>7
<1>10. Held(Push(st, ls, line)) = Held(st) \cup {e.lock : e \in new}
  BY <1>9 DEF Held
<1>11. Push(st, ls, line) \in State
  <2>1. st.locks \cup new \in SUBSET Entry /\ st.unmatched \in SUBSET Lock
    BY <1>4, <1>5
  <2>2. Push(st, ls, line).locks = st.locks \cup new
    BY <1>9
  <2>3. Push(st, ls, line) \in [locks : SUBSET Entry, unmatched : SUBSET Lock]
    BY <2>1, <1>9
  <2> QED
    BY <2>2, <2>3, <1>6 DEF State
<1>12. Held(Push(st, ls, line)) = Held(st) \cup {ls[k] : k \in 1 .. Len(ls)}
  BY <1>8, <1>10
<1>13. Push(st, ls, line).unmatched = st.unmatched
  BY <1>9
<1> QED
  BY <1>11, <1>12, <1>13

LEMMA PushKeepsOnce ==
  ASSUME NEW st \in State, NEW ls \in Seq(Item), NEW line \in Nat, Once(st),
         IsInjective(ls), \A k \in 1 .. Len(ls) : ls[k] \notin Held(st)
  PROVE  Once(Push(st, ls, line))
<1> DEFINE new == {[depth |-> Top(st) + k, lock |-> ls[k], enter |-> line] : k \in 1 .. Len(ls)}
<1>1. Push(st, ls, line).locks = st.locks \cup new
  BY DEF Push, State
<1>2. \A d, e \in new : d.lock = e.lock => d = e
  BY DEF IsInjective
<1>3. \A d \in new : d.lock \notin Held(st)
  OBVIOUS
<1>4. \A e \in st.locks : e.lock \in Held(st)
  BY DEF Held
<1> HIDE DEF new
<1> QED
  BY <1>1, <1>2, <1>3, <1>4 DEF Once

LEMMA TopmostIsThere ==
  ASSUME NEW st, IsFiniteSet(st.locks), st.locks # {}, \A e \in st.locks : e.depth \in Nat
  PROVE  Topmost(st) \in st.locks
<1> DEFINE f == [e \in st.locks |-> e.depth]
           S == {f[e] : e \in DOMAIN f}
<1>1. IsFiniteSet(S)
  BY ImageIsFinite
<1>2. S \subseteq Nat /\ S # {}
  OBVIOUS
<1>3. PICK x \in S : \A y \in S : y <= x
  BY <1>1, <1>2, GreatestExists
<1>4. \E e \in st.locks : \A o \in st.locks : o.depth <= e.depth
  BY <1>3
<1> QED
  BY <1>4 DEF Topmost

LEMMA InnermostIsThere ==
  ASSUME NEW st \in State, NEW l \in Held(st)
  PROVE  Innermost(st, l) \in st.locks /\ Innermost(st, l).lock = l
<1> DEFINE own == [st EXCEPT !.locks = {e \in @ : e.lock = l}]
<1>1. own.locks = {e \in st.locks : e.lock = l}
  BY DEF State
<1>2. IsFiniteSet(own.locks)
  BY <1>1, FS_Subset DEF State
<1>3. own.locks # {} /\ \A e \in own.locks : e.depth \in Nat
  BY <1>1 DEF Held, State, Entry
<1>4. Topmost(own) \in own.locks
  BY <1>2, <1>3, TopmostIsThere
<1> QED
  BY <1>1, <1>4 DEF Innermost

LEMMA PopDrops ==
  ASSUME NEW st \in State, NEW ls
  PROVE  /\ Pop(st, ls) \in State
         /\ Pop(st, ls).locks \subseteq st.locks
         /\ Pop(st, ls).unmatched = st.unmatched
         /\ Held(st) \ ls \subseteq Held(Pop(st, ls))
         /\ Once(st) => Held(Pop(st, ls)) = Held(st) \ ls
<1> DEFINE gone == {Innermost(st, l) : l \in ls \cap Held(st)}
           left == st.locks \ gone
<1>1. Pop(st, ls) = [locks |-> left, unmatched |-> st.unmatched]
  BY DEF Pop, State
<1>2. Pop(st, ls) \in State
  BY <1>1, FewerIsState DEF State
<1>3. Held(Pop(st, ls)) = {e.lock : e \in left}
  BY <1>1 DEF Held
<1>4. \A e \in gone : e \in st.locks /\ e.lock \in ls
  BY InnermostIsThere
<1>5. Held(st) \ ls \subseteq Held(Pop(st, ls))
  <2> SUFFICES ASSUME NEW e \in st.locks, e.lock \notin ls PROVE e.lock \in {d.lock : d \in left}
    BY <1>3 DEF Held
  <2> QED
    BY <1>4
<1>6. ASSUME Once(st) PROVE Held(Pop(st, ls)) = Held(st) \ ls
  <2>1. ASSUME NEW e \in left PROVE e.lock \in Held(st) \ ls
    <3>1. e.lock \in Held(st)
      BY DEF Held
    <3>2. ASSUME e.lock \in ls PROVE FALSE
      <4>1. Innermost(st, e.lock) \in st.locks /\ Innermost(st, e.lock).lock = e.lock
        BY <3>1, InnermostIsThere
      <4>2. Innermost(st, e.lock) = e
        BY <4>1, <1>6 DEF Once
      <4>3. Innermost(st, e.lock) \in gone
        BY <3>1, <3>2
      <4> QED
        BY <4>2, <4>3
    <3> QED
      BY <3>1, <3>2
  <2> HIDE DEF left
  <2>2. Held(Pop(st, ls)) \subseteq Held(st) \ ls
    BY <2>1, <1>3
  <2> QED
    BY <2>2, <1>5
<1>7. Pop(st, ls).locks \subseteq st.locks /\ Pop(st, ls).unmatched = st.unmatched
  BY <1>1
<1> QED
  BY <1>2, <1>5, <1>6, <1>7

LEMMA PopTopDrops ==
  ASSUME NEW st \in State
  PROVE  PopTop(st) \in State /\ PopTop(st).locks \subseteq st.locks /\ PopTop(st).unmatched = st.unmatched
<1> DEFINE left == {e \in st.locks : e # Topmost(st)}
<1>1. PopTop(st) = [locks |-> left, unmatched |-> st.unmatched]
  BY DEF PopTop, State
<1>2. PopTop(st) \in State
  BY <1>1, FewerIsState DEF State
<1> QED
  BY <1>1, <1>2

LEMMA FewerHeld ==
  ASSUME NEW st, NEW other, st.locks \subseteq other.locks
  PROVE  Held(st) \subseteq Held(other) /\ (Once(other) => Once(st))
BY DEF Held, Once

LEMMA ReleaseDrops ==
  ASSUME NEW st \in State, NEW ls, ls \subseteq Lock
  PROVE  /\ Release(st, ls) \in State
         /\ Release(st, ls).locks \subseteq st.locks
         /\ Release(st, ls).unmatched = st.unmatched \cup (ls \ Held(st))
         /\ Held(st) \ ls \subseteq Held(Release(st, ls))
         /\ Once(st) => Held(Release(st, ls)) = Held(st) \ ls
<1> DEFINE p == Pop(st, ls)
<1>1. p \in State /\ p.unmatched = st.unmatched
  BY PopDrops
<1>2. Release(st, ls) = [locks |-> p.locks, unmatched |-> st.unmatched \cup (ls \ Held(st))]
  BY <1>1 DEF Release, State
<1>3. Release(st, ls) \in State
  <2>1. st.unmatched \cup (ls \ Held(st)) \subseteq Lock
    BY DEF State
  <2> QED
    BY <1>1, <1>2, <2>1, FewerIsState
<1>4. Held(Release(st, ls)) = Held(p)
  BY <1>2 DEF Held
<1>5. Release(st, ls).locks = p.locks /\ Release(st, ls).unmatched = st.unmatched \cup (ls \ Held(st))
  BY <1>2
<1> QED
  BY <1>3, <1>4, <1>5, PopDrops

LEMMA MeetShrinks ==
  ASSUME NEW st \in State, NEW other \in State
  PROVE  /\ Meet(st, other) \in State
         /\ Held(Meet(st, other)) \subseteq Held(st) \cap Held(other)
         /\ Meet(st, other).unmatched \subseteq st.unmatched \cap other.unmatched
<1> DEFINE both == {e \in st.locks : e.lock \in Held(other)}
<1>1. Meet(st, other) = [locks |-> both, unmatched |-> st.unmatched \cap other.unmatched]
  BY DEF Meet
<1>2. st.unmatched \cap other.unmatched \subseteq Lock
  BY DEF State
<1>3. Meet(st, other) \in State
  BY <1>1, <1>2, FewerIsState
<1>4. Meet(st, other).locks = both
  BY <1>1
<1> QED
  BY <1>1, <1>3, <1>4 DEF Held

LEMMA SetToSeqLists ==
  ASSUME NEW S, IsFiniteSet(S)
  PROVE  /\ SetToSeq(S) \in Seq(S) /\ IsInjective(SetToSeq(S))
         /\ {SetToSeq(S)[k] : k \in 1 .. Len(SetToSeq(S))} = S
<1> DEFINE n == Cardinality(S)
           f == SetToSeq(S)
<1>1. n \in Nat /\ ExistsBijection(1 .. n, S)
  BY FS_CardinalityType
<1>2. PICK g \in Bijection(1 .. n, S) : TRUE
  BY <1>1 DEF ExistsBijection
<1>3. g \in [1 .. n -> S] /\ IsInjective(g)
  BY <1>2 DEF Bijection, Injection, Surjection, IsInjective
<1>4. f \in [1 .. n -> S] /\ IsInjective(f)
  BY <1>3 DEF SetToSeq
<1>5. f \in Injection(1 .. n, S)
  BY <1>4 DEF Injection, IsInjective
<1>6. Cardinality(1 .. n) = n
  BY <1>1, FS_Interval
<1>7. f \in Surjection(1 .. n, S)
  BY <1>5, <1>6, FS_Injection
<1>8. f \in Seq(S) /\ Len(f) = n
  BY <1>1, <1>4
<1>9. \A x \in S : \E k \in 1 .. n : f[k] = x
  BY <1>7 DEF Surjection
<1>10. IsInjective(f)
  BY <1>4
<1> HIDE DEF f
<1>11. \A k \in 1 .. n : f[k] \in S
  BY <1>4
<1>12. {f[k] : k \in 1 .. n} = S
  BY <1>9, <1>11
<1> QED
  BY <1>8, <1>10, <1>12 DEF f

LEMMA ReturnedDoes ==
  ASSUME NEW st \in State, NEW e \in Effect, NEW line \in Nat
  PROVE  /\ Returned(st, e, line) \in State
         /\ Held(Returned(st, e, line)) \subseteq Held(st) \cup e.acquires
         /\ (Held(st) \ e.releases) \cup e.acquires \subseteq Held(Returned(st, e, line))
         /\ Returned(st, e, line).unmatched = st.unmatched \cup (e.releases \ Held(st))
         /\ Once(st) => Held(Returned(st, e, line)) = (Held(st) \ e.releases) \cup e.acquires
         /\ Once(st) /\ e.acquires \cap (Held(st) \ e.releases) = {} => Once(Returned(st, e, line))
<1> DEFINE freed == Release(st, e.releases)
           order == SetToSeq(e.acquires)
<1>1. e.acquires \subseteq Lock /\ e.releases \subseteq Lock /\ IsFiniteSet(e.acquires)
  BY DEF Effect
<1>2. order \in Seq(e.acquires) /\ IsInjective(order) /\ {order[k] : k \in 1 .. Len(order)} = e.acquires
  BY <1>1, SetToSeqLists
<1>3. order \in Seq(Item)
  BY <1>1, <1>2 DEF Item
<1>4. /\ freed \in State
      /\ freed.locks \subseteq st.locks
      /\ freed.unmatched = st.unmatched \cup (e.releases \ Held(st))
      /\ Held(st) \ e.releases \subseteq Held(freed)
      /\ Once(st) => Held(freed) = Held(st) \ e.releases
  BY <1>1, ReleaseDrops
<1>5. Held(freed) \subseteq Held(st) /\ (Once(st) => Once(freed))
  BY <1>4, FewerHeld
<1> HIDE DEF freed, order
<1>6. /\ Push(freed, order, line) \in State
      /\ Held(Push(freed, order, line)) = Held(freed) \cup e.acquires
      /\ Push(freed, order, line).unmatched = freed.unmatched
  BY <1>2, <1>3, <1>4, PushAdds, ZenonT(30)
<1>7. Returned(st, e, line) = Push(freed, order, line)
  BY DEF Returned, freed, order
<1>8. ASSUME Once(st), e.acquires \cap (Held(st) \ e.releases) = {} PROVE Once(Returned(st, e, line))
  <2>1. \A k \in 1 .. Len(order) : order[k] \notin Held(freed)
    BY <1>2, <1>4, <1>8
  <2> QED
    BY <1>2, <1>3, <1>4, <1>5, <1>7, <1>8, <2>1, PushKeepsOnce
<1> QED
  BY <1>4, <1>5, <1>6, <1>7, <1>8

-----------------------------------------------------------------------------
(***************************************************************************)
(* A method and its blocks.                                                *)
(***************************************************************************)
LEMMA BodiesAreMethods ==
  ASSUME NEW t \in Bodies
  PROVE  IsMethod(t)
<1>1. CASE t \in Methods
  BY <1>1, MethodsAssumption
<1>2. ASSUME NEW u \in Methods, NEW h \in DOMAIN u.helpers, t = HelperOf(u, h) PROVE IsMethod(t)
  <2>1. IsMethod(u) /\ IsBody(u.helpers[h], DOMAIN u.helpers)
    BY MethodsAssumption DEF IsMethod
  <2>2. /\ t.insns = u.helpers[h].insns /\ t.lines = u.helpers[h].lines /\ t.catches = u.helpers[h].catches
        /\ t.entry = <<>> /\ t.helpers = u.helpers
        /\ t = [insns |-> t.insns, lines |-> t.lines, catches |-> t.catches, entry |-> t.entry, helpers |-> t.helpers]
    BY <1>2 DEF HelperOf
  <2>3. IsBody(t, DOMAIN t.helpers)
    BY <2>1, <2>2 DEF IsBody
  <2>4. t.entry \in Seq(Lock)
    BY <2>2
  <2> QED
    BY <2>1, <2>2, <2>3, <2>4 DEF IsMethod
<1> QED
  BY <1>1, <1>2 DEF Bodies

LEMMA HelperIsBody ==
  ASSUME NEW t \in Methods, NEW h \in DOMAIN t.helpers
  PROVE  HelperOf(t, h) \in Bodies
BY DEF Bodies

LEMMA MethodFacts ==
  ASSUME m \in Bodies
  PROVE  /\ Size \in Nat \ {0}
         /\ \A i \in 1 .. Size :
              /\ IsInsn(m.insns[i])
              /\ m.lines[i] \in Nat
              /\ Op(i) = "Call" => m.insns[i].callee \in DOMAIN m.helpers
              /\ Opaque(i) \notin Lock
         /\ m.catches \subseteq (Nat \ {0}) \X (Nat \ {0}) \X (Nat \ {0})
         /\ m.entry \in Seq(Lock)
         /\ \A h \in DOMAIN m.helpers : IsBody(m.helpers[h], DOMAIN m.helpers)
BY BodiesAreMethods, OpaqueAssumption DEF IsMethod, IsBody, Size, Op

LEMMA EnteredIsState ==
  ASSUME m \in Bodies, NEW ls \in Seq(Lock)
  PROVE  Entered(ls) \in State /\ Held(Entered(ls)) = {ls[d] : d \in 1 .. Len(ls)} /\ Entered(ls).unmatched = {}
<1> DEFINE f == [d \in 1 .. Len(ls) |-> [depth |-> d, lock |-> ls[d], enter |-> NoLine]]
           new == {[depth |-> d, lock |-> ls[d], enter |-> NoLine] : d \in 1 .. Len(ls)}
<1>1. Len(ls) \in Nat /\ \A d \in 1 .. Len(ls) : ls[d] \in Lock
  OBVIOUS
<1>2. IsFiniteSet({f[d] : d \in DOMAIN f})
  <2>1. IsFiniteSet(1 .. Len(ls))
    BY <1>1, FS_Interval
  <2> QED
    BY <2>1, ImageIsFinite
<1>3. {f[d] : d \in DOMAIN f} = new
  OBVIOUS
<1>4. new \subseteq Entry
  BY <1>1 DEF Entry, Item, NoLine
<1>5. \A l : l \in {e.lock : e \in new} <=> \E d \in 1 .. Len(ls) : l = ls[d]
  <2>1. ASSUME NEW d \in 1 .. Len(ls) PROVE ls[d] \in {e.lock : e \in new}
    <3> DEFINE e == [depth |-> d, lock |-> ls[d], enter |-> NoLine]
    <3>1. e \in new /\ e.lock = ls[d]
      OBVIOUS
    <3> HIDE DEF new, e
    <3> QED
      BY <3>1
  <2>2. ASSUME NEW e \in new PROVE \E d \in 1 .. Len(ls) : e.lock = ls[d]
    <3>1. PICK d \in 1 .. Len(ls) : e = [depth |-> d, lock |-> ls[d], enter |-> NoLine]
      OBVIOUS
    <3> QED
      BY <3>1
  <2> HIDE DEF new
  <2> QED
    BY <2>1, <2>2
<1>6. Entered(ls) = [locks |-> new, unmatched |-> {}]
  BY DEF Entered
<1> HIDE DEF new, f
<1>7. Entered(ls) \in State
  BY <1>2, <1>3, <1>4, <1>6, RecordIsState
<1>8. Held(Entered(ls)) = {e.lock : e \in new}
  BY <1>6 DEF Held
<1>9. Held(Entered(ls)) = {ls[d] : d \in 1 .. Len(ls)}
  BY <1>5, <1>8
<1>10. Entered(ls).unmatched = {}
  BY <1>6
<1> QED
  BY <1>7, <1>9, <1>10

LEMMA ApplyIsState ==
  ASSUME m \in Bodies, eff \in [DOMAIN m.helpers -> Effect], NEW i \in 1 .. Size, NEW st \in State
  PROVE  Apply(st, i) \in State
<1>1. IsInsn(m.insns[i]) /\ m.lines[i] \in Nat /\ (Op(i) = "Call" => m.insns[i].callee \in DOMAIN m.helpers)
  BY MethodFacts
<1>2. CASE Op(i) \in {"Enter", "Acquire", "TryAcquire"}
  <2>1. Operand(i) \in Item
    BY <1>1, <1>2 DEF Operand, Item, IsInsn, Op, LockOps
  <2>2. Apply(st, i) = Push(st, <<Operand(i)>>, m.lines[i])
    BY <1>2 DEF Apply, Op
  <2>3. <<Operand(i)>> \in Seq(Item)
    BY <2>1
  <2> QED
    BY <1>1, <2>2, <2>3, PushAdds
<1>3. CASE Op(i) = "Exit"
  <2>1. Apply(st, i) = IF m.insns[i].named THEN Pop(st, {m.insns[i].lock}) ELSE PopTop(st)
    BY <1>3 DEF Apply, Op
  <2> QED
    BY <2>1, PopDrops, PopTopDrops
<1>4. CASE Op(i) = "Release"
  <2>1. Apply(st, i) = IF m.insns[i].named THEN Release(st, {m.insns[i].lock}) ELSE st
    BY <1>4 DEF Apply, Op
  <2>2. m.insns[i].lock \in Lock
    BY <1>1, <1>4 DEF IsInsn, Op, LockOps
  <2> QED
    BY <2>1, <2>2, ReleaseDrops
<1>5. CASE Op(i) = "Call"
  <2>1. Apply(st, i) = Returned(st, eff[m.insns[i].callee], m.lines[i])
    BY <1>5 DEF Apply, Op
  <2> QED
    BY <1>1, <1>5, <2>1, ReturnedDoes
<1>6. CASE Op(i) \notin LockOps \cup {"Call"}
  <2>1. Apply(st, i) = st
    BY <1>6 DEF Apply, Op, LockOps
  <2> QED
    BY <2>1
<1> QED
  BY <1>2, <1>3, <1>4, <1>5, <1>6 DEF LockOps

LEMMA LeadersAreNumbers ==
  ASSUME m \in Bodies
  PROVE  Leaders \subseteq Nat \ {0} /\ 1 \in Blocks /\ Blocks \subseteq 1 .. Size
<1>1. \A i \in 1 .. Size : Op(i) \in Jumps => m.insns[i].targets \subseteq Nat \ {0}
  BY MethodFacts DEF IsInsn, Op
<1>2. \A c \in m.catches : {c[1], c[2], c[3]} \subseteq Nat \ {0}
  BY MethodFacts
<1>3. Leaders \subseteq Nat \ {0}
  <2> SUFFICES ASSUME NEW l \in Leaders PROVE l \in Nat \ {0}
    OBVIOUS
  <2>1. \/ l = 1
        \/ \E i \in 1 .. Size : Op(i) \in Jumps /\ l \in m.insns[i].targets
        \/ \E i \in 1 .. Size : l = i + 1
        \/ \E c \in m.catches : l \in {c[1], c[2], c[3]}
    BY DEF Leaders
  <2>2. Size \in Nat
    BY MethodFacts
  <2> QED
    BY <1>1, <1>2, <2>1, <2>2
<1>4. 1 \in Leaders /\ 1 \in 1 .. Size
  BY MethodFacts DEF Leaders
<1> QED
  BY <1>3, <1>4 DEF Blocks

LEMMA EndIsNextLeader ==
  ASSUME m \in Bodies, NEW b \in 1 .. Size
  PROVE  /\ End(b) \in b + 1 .. Size + 1
         /\ End(b) \in Leaders \cup {Size + 1}
         /\ \A l \in Leaders : l > b => End(b) <= l
<1> DEFINE S == {l \in Leaders \cup {Size + 1} : l > b}
<1>1. Size \in Nat /\ Leaders \subseteq Nat
  BY MethodFacts, LeadersAreNumbers
<1>2. S \subseteq Nat /\ Size + 1 \in S
  <2>1. b \in Nat /\ Size + 1 \in Nat /\ Size + 1 > b
    BY <1>1
  <2> QED
    BY <1>1, <2>1
<1>3. Min(S) \in S /\ \A l \in S : Min(S) <= l
  BY <1>2, LeastIsLeast
<1>4. End(b) = Min(S)
  BY DEF End
<1> QED
  BY <1>1, <1>2, <1>3, <1>4

LEMMA BlockOfIsGreatest ==
  ASSUME m \in Bodies, NEW i \in 1 .. Size
  PROVE  /\ BlockOf(i) \in Blocks
         /\ BlockOf(i) <= i
         /\ i < End(BlockOf(i))
         /\ \A b \in Blocks : b <= i /\ i < End(b) => b = BlockOf(i)
<1> DEFINE S == {b \in Blocks : b <= i}
           b0 == BlockOf(i)
<1>1. Size \in Nat /\ Blocks \subseteq 1 .. Size /\ 1 \in Blocks
  BY MethodFacts, LeadersAreNumbers
<1>2. S \subseteq Nat /\ 1 \in S
  <2>1. i \in Nat /\ 1 <= i
    BY <1>1
  <2>2. \A b \in Blocks : b \in Nat
    BY <1>1
  <2> QED
    BY <1>1, <2>1, <2>2
<1>3. IsFiniteSet(S)
  BY <1>1, <1>2, FS_BoundedSetOfNaturals
<1>4. b0 \in S /\ \A b \in S : b <= b0
  BY <1>2, <1>3, GreatestIsGreatest DEF BlockOf
<1> HIDE DEF b0
<1>5. ASSUME NEW b \in Blocks, b <= b0, i < End(b) PROVE b = b0
  BY <1>1, <1>4, <1>5, EndIsNextLeader DEF Blocks
<1>6. i < End(b0)
  <2>1. SUFFICES ASSUME End(b0) <= i PROVE FALSE
    BY <1>1, <1>4, EndIsNextLeader
  <2>2. End(b0) \in b0 + 1 .. Size + 1 /\ End(b0) \in Leaders \cup {Size + 1}
    BY <1>1, <1>4, EndIsNextLeader
  <2>3. End(b0) \in S
    BY <1>1, <1>4, <2>1, <2>2 DEF Blocks
  <2> QED
    BY <1>1, <1>4, <2>2, <2>3
<1> QED
  BY <1>4, <1>5, <1>6 DEF b0

LEMMA BlockOfLeader ==
  ASSUME m \in Bodies, NEW b \in Blocks
  PROVE  BlockOf(b) = b
<1>1. b \in 1 .. Size
  BY LeadersAreNumbers
<1>2. b < End(b)
  BY <1>1, EndIsNextLeader
<1>3. b <= b
  BY <1>1
<1> QED
  BY <1>1, <1>2, <1>3, BlockOfIsGreatest

LEMMA EdgesStayInside ==
  ASSUME m \in Bodies, NEW b \in Blocks
  PROVE  Succ(b) \subseteq Blocks /\ Exc(b) \subseteq Blocks
BY DEF Succ, Exc, Fall

\* The next instruction is that of the same block, or the first of a successor.
LEMMA NextIsSuccessor ==
  ASSUME m \in Bodies, NEW i \in 1 .. Size, NEW j \in NextPc(i), j # 0
  PROVE  /\ j \in 1 .. Size
         /\ \/ j = i + 1 /\ j < End(BlockOf(i)) /\ BlockOf(j) = BlockOf(i)
            \/ End(BlockOf(i)) = i + 1 /\ j \in Succ(BlockOf(i))
<1> DEFINE b == BlockOf(i)
<1>1. Size \in Nat /\ Blocks \subseteq 1 .. Size
  BY MethodFacts, LeadersAreNumbers
<1>2. b \in Blocks /\ b <= i /\ i < End(b)
  BY BlockOfIsGreatest
<1> HIDE DEF b
<1>3. End(b) \in b + 1 .. Size + 1 /\ End(b) \in Leaders \cup {Size + 1} /\ \A l \in Leaders : l > b => End(b) <= l
  BY <1>1, <1>2, EndIsNextLeader
<1>4. j \in 1 .. Size
  BY <1>1 DEF NextPc, NextOf, Size, Op
<1>5. CASE i + 1 < End(b)
  <2>1. i + 1 \notin Leaders
    BY <1>1, <1>2, <1>3, <1>5
  <2>2. Op(i) \notin Jumps \cup {"Return", "Throw"}
    BY <2>1 DEF Leaders
  <2>3. j = i + 1
    BY <2>2 DEF NextPc, NextOf, Size, Op, Jumps
  <2>4. b <= j
    BY <1>1, <1>2, <2>3
  <2>5. b = BlockOf(j)
    BY <1>2, <1>4, <1>5, <2>3, <2>4, BlockOfIsGreatest
  <2> QED
    BY <1>4, <1>5, <2>3, <2>5 DEF b
<1>6. CASE i + 1 = End(b)
  <2>1. m.insns[End(b) - 1] = m.insns[i]
    BY <1>1, <1>6
  <2>2. Op(i) \in Jumps => m.insns[i].targets \subseteq Leaders
    BY DEF Leaders
  <2>3. i + 1 \in 1 .. Size => i + 1 \in Fall(b)
    BY <1>1, <1>3, <1>6 DEF Fall, Blocks
  <2>4. CASE Op(i) \in {"Branch", "Switch"}
    <3>1. j \in (m.insns[i].targets \cup {i + 1}) \cap 1 .. Size
      BY <2>4 DEF NextPc, NextOf, Size, Op
    <3>2. Succ(b) = (m.insns[i].targets \cap Blocks) \cup Fall(b)
      BY <2>1, <2>4 DEF Succ, Op
    <3> QED
      BY <1>4, <1>6, <2>2, <2>3, <2>4, <3>1, <3>2 DEF b, Blocks, Jumps
  <2>5. CASE Op(i) = "Goto"
    <3>1. j \in m.insns[i].targets \cap 1 .. Size
      BY <2>5 DEF NextPc, NextOf, Size, Op
    <3>2. Succ(b) = m.insns[i].targets \cap Blocks
      BY <2>1, <2>5 DEF Succ, Op
    <3> QED
      BY <1>4, <1>6, <2>2, <2>5, <3>1, <3>2 DEF b, Blocks, Jumps
  <2>6. CASE Op(i) \in {"Return", "Throw"}
    BY <2>6 DEF NextPc, NextOf, Size, Op
  <2>7. CASE Op(i) \notin Jumps \cup {"Return", "Throw"}
    <3>1. j = i + 1
      BY <2>7 DEF NextPc, NextOf, Size, Op, Jumps
    <3>2. Succ(b) = Fall(b)
      BY <2>1, <2>7 DEF Succ, Op, Jumps
    <3> QED
      BY <1>4, <1>6, <2>3, <3>1, <3>2 DEF b
  <2> QED
    BY <2>4, <2>5, <2>6, <2>7 DEF Jumps
<1> QED
  BY <1>1, <1>2, <1>3, <1>5, <1>6

\* A handler that covers an instruction is a handler of its block.
LEMMA HandlerIsHandler ==
  ASSUME m \in Bodies, NEW i \in 1 .. Size, NEW c \in m.catches, c[1] <= i, i < c[2], c[3] \in 1 .. Size
  PROVE  c[3] \in Exc(BlockOf(i))
<1> DEFINE b == BlockOf(i)
<1>1. Size \in Nat /\ Blocks \subseteq 1 .. Size
  BY MethodFacts, LeadersAreNumbers
<1>2. b \in Blocks /\ b <= i /\ i < End(b)
  BY BlockOfIsGreatest
<1> HIDE DEF b
<1>3. End(b) \in b + 1 .. Size + 1
  BY <1>1, <1>2, EndIsNextLeader
<1>4. c[1] \in Nat /\ c[2] \in Nat
  BY MethodFacts
<1>5. b < c[2] /\ End(b) > c[1]
  BY <1>1, <1>2, <1>3, <1>4
<1>6. c[3] \in Leaders
  BY DEF Leaders
<1>7. c[3] \in Exc(b)
  BY <1>5, <1>6 DEF Exc, Blocks
<1> QED
  BY <1>7 DEF b

-----------------------------------------------------------------------------
(***************************************************************************)
(* The states before the instructions of a block: a recursive function, so *)
(* that it is one has to be proved first.                                  *)
(***************************************************************************)
LEMMA BeforeSteps ==
  ASSUME m \in Bodies, eff \in [DOMAIN m.helpers -> Effect], NEW b \in 1 .. Size, NEW st \in State
  PROVE  /\ Before(b, st, b) = st
         /\ \A i \in b .. Size : Before(b, st, i + 1) = Apply(Before(b, st, i), i)
         /\ \A i \in b .. Size + 1 : Before(b, st, i) \in State
<1> DEFINE Walks(g) == g = [k \in b .. Size + 1 |-> IF k = b THEN st ELSE Apply(g[k - 1], k - 1)]
           f == CHOOSE g : Walks(g)
<1>1. Size \in Nat
  BY MethodFacts
<1>2. PICK h \in [b .. Size + 1 -> State] : h[b] = st /\ \A k \in b + 1 .. Size + 1 : h[k] = Apply(h[k - 1], k - 1)
  <2> DEFINE step == [k \in b + 1 .. Size + 1 |-> [x \in State |-> Apply(x, k - 1)]]
  <2>1. Steps(step, State, b, Size + 1)
    <3> SUFFICES ASSUME NEW k \in b + 1 .. Size + 1, NEW x \in State PROVE Apply(x, k - 1) \in State
      BY DEF Steps
    <3>1. k - 1 \in 1 .. Size
      BY <1>1
    <3> QED
      BY <3>1, ApplyIsState
  <2>2. b \in Nat /\ Size + 1 \in Nat /\ b <= Size + 1
    BY <1>1
  <2>3. ASSUME NEW g \in [b .. Size + 1 -> State], NEW k \in b + 1 .. Size + 1
        PROVE  step[k][g[k - 1]] = Apply(g[k - 1], k - 1)
    <3>1. g[k - 1] \in State
      BY <1>1
    <3> QED
      BY <3>1
  <2> HIDE DEF step
  <2>4. PICK g : Trace(g, step, State, b, Size + 1, st)
    BY <2>1, <2>2, IterationExists
  <2>5. g \in [b .. Size + 1 -> State] /\ g[b] = st /\ \A k \in b + 1 .. Size + 1 : g[k] = step[k][g[k - 1]]
    BY <2>4 DEF Trace
  <2> QED
    BY <2>3, <2>5
<1>3. Walks(f)
  <2>1. \A k \in b .. Size + 1 : k # b => k \in b + 1 .. Size + 1
    BY <1>1
  <2>2. \A k \in b .. Size + 1 : h[k] = IF k = b THEN st ELSE Apply(h[k - 1], k - 1)
    BY <1>2, <2>1
  <2>3. Walks(h)
    BY <2>2
  <2> HIDE DEF Walks
  <2> QED
    BY <2>3
<1>4. \A i : Before(b, st, i) = f[i]
  BY DEF Before
<1> HIDE DEF f
<1>5. f[b] = st
  BY <1>1, <1>3
<1>6. ASSUME NEW i \in b .. Size PROVE f[i + 1] = Apply(f[i], i)
  <2>1. i + 1 \in b .. Size + 1 /\ i + 1 # b /\ (i + 1) - 1 = i
    BY <1>1
  <2> QED
    BY <1>3, <2>1
<1> HIDE DEF Walks
<1>7. ASSUME NEW i \in b .. Size, f[i] \in State PROVE f[i + 1] \in State
  <2>1. i \in 1 .. Size
    BY <1>1
  <2> QED
    BY <1>6, <1>7, <2>1, ApplyIsState
<1>8. b .. Size + 1 \subseteq {i \in b .. Size + 1 : f[i] \in State}
  <2> DEFINE Good == {i \in b .. Size + 1 : f[i] \in State}
  <2>1. b \in Nat /\ Size + 1 \in Nat /\ b \in Good /\ \A i \in Good : i \in b .. (Size + 1) - 1 => i + 1 \in Good
    BY <1>1, <1>5, <1>7
  <2> HIDE DEF Good
  <2>2. b .. Size + 1 \subseteq Good
    BY <2>1, IntervalInduction
  <2> QED
    BY <2>2 DEF Good
<1> QED
  BY <1>4, <1>5, <1>6, <1>8

LEMMA BeforeIsState ==
  ASSUME m \in Bodies, eff \in [DOMAIN m.helpers -> Effect], NEW b \in Blocks, NEW st \in State
  PROVE  /\ \A i \in b .. Size + 1 : Before(b, st, i) \in State
         /\ Out(b, st) \in State
<1>1. b \in 1 .. Size
  BY LeadersAreNumbers
<1>2. End(b) \in b .. Size + 1
  BY <1>1, MethodFacts, EndIsNextLeader
<1> QED
  BY <1>1, <1>2, BeforeSteps DEF Out

LEMMA EdgesAreTyped ==
  ASSUME TypeOK, NEW b \in DOMAIN inn
  PROVE  EdgesFrom(b) \subseteq Blocks \X State
<1>1. b \in Blocks /\ inn[b] \in State
  BY DEF TypeOK
<1>2. Out(b, inn[b]) \in State
  BY <1>1, BeforeIsState DEF TypeOK
<1>3. Succ(b) \subseteq Blocks /\ Exc(b) \subseteq Blocks
  BY <1>1, EdgesStayInside DEF TypeOK
<1> QED
  BY <1>1, <1>2, <1>3 DEF EdgesFrom

-----------------------------------------------------------------------------
(***************************************************************************)
(* The paths of the helpers, and the effects found from them.              *)
(***************************************************************************)
LEMMA OnEveryIs ==
  ASSUME NEW sets, NEW l
  PROVE  l \in OnEvery(sets) <=> sets # {} /\ \A s \in sets : l \in s
BY DEF OnEvery

LEMMA NetEffectIsEffect ==
  ASSUME TypeOK
  PROVE  NetEffect \in Effect
<1> DEFINE outs == {Out(b, inn[b]) : b \in Returns}
           acquires == OnEvery({Held(st) : st \in outs}) \cap Lock
           releases == OnEvery({st.unmatched : st \in outs})
<1>1. \A st \in outs : st \in State
  <2> SUFFICES ASSUME NEW b \in Returns PROVE Out(b, inn[b]) \in State
    OBVIOUS
  <2>1. b \in DOMAIN inn /\ b \in Blocks /\ inn[b] \in State
    BY DEF Returns, TypeOK
  <2> QED
    BY <2>1, BeforeIsState DEF TypeOK
<1> HIDE DEF outs
<1>2. acquires \subseteq Lock /\ releases \subseteq Lock
  BY <1>1 DEF OnEvery, State
<1>3. IsFiniteSet(acquires)
  <2>1. CASE outs = {}
    <3>1. acquires = {}
      BY <2>1 DEF OnEvery
    <3> QED
      BY <3>1, FS_EmptySet
  <2>2. CASE outs # {}
    <3>1. PICK st \in outs : TRUE
      BY <2>2
    <3>2. acquires \subseteq Held(st)
      BY DEF OnEvery
    <3>3. IsFiniteSet(Held(st))
      BY <1>1, HeldIsFinite
    <3> HIDE DEF acquires
    <3> QED
      BY <3>2, <3>3, FS_Subset
  <2> QED
    BY <2>1, <2>2
<1>4. NetEffect = [acquires |-> acquires, releases |-> releases]
  BY DEF NetEffect, outs
<1> HIDE DEF acquires, releases
<1>5. [acquires |-> acquires, releases |-> releases] \in [acquires : SUBSET Lock, releases : SUBSET Lock]
  BY <1>2
<1>6. [acquires |-> acquires, releases |-> releases].acquires = acquires
  OBVIOUS
<1> QED
  BY <1>3, <1>4, <1>5, <1>6 DEF Effect

-----------------------------------------------------------------------------
(***************************************************************************)
(* The dataflow.                                                           *)
(***************************************************************************)
\* What holds when the dataflow is to be run over t.
Fresh == m \in Bodies /\ inn = [b \in {1} |-> Entered(m.entry)] /\ work = <<1>> /\ edges = {}

Started ==
  /\ Size \in Nat
  /\ inn \in [DOMAIN inn -> State] /\ DOMAIN inn \subseteq Blocks
  /\ work \in Seq(DOMAIN inn)
  /\ edges \subseteq Blocks \X State
  /\ Flowing /\ Entering

LEMMA EnterFacts == Fresh => Started
<1> SUFFICES ASSUME Fresh PROVE Started
  OBVIOUS
<1> USE DEF Fresh
<1>1. m \in Bodies /\ Size \in Nat /\ m.entry \in Seq(Lock) /\ 1 \in Blocks
  BY MethodFacts, LeadersAreNumbers
<1>2. Entered(m.entry) \in State /\ Held(Entered(m.entry)) = {m.entry[d] : d \in 1 .. Len(m.entry)}
  BY <1>1, EnteredIsState
<1>3. DOMAIN inn = {1} /\ inn[1] = Entered(m.entry)
  OBVIOUS
<1>4. inn \in [DOMAIN inn -> State] /\ DOMAIN inn \subseteq Blocks
  BY <1>1, <1>2, <1>3
<1>5. work \in Seq(DOMAIN inn)
  BY <1>3
<1>6. Flowing
  <2>1. Queued(1)
    BY DEF Queued
  <2> QED
    BY <1>3, <2>1 DEF Flowing
<1>7. Entering
  BY <1>2, <1>3 DEF Entering
<1> QED
  BY <1>1, <1>4, <1>5, <1>6, <1>7 DEF Started

LEMMA FlowInit == Init => FlowInv
<1> SUFFICES ASSUME Init PROVE FlowInv
  OBVIOUS
<1>1. /\ top \in Methods /\ m = top /\ phase = "effects" /\ round = 0 /\ todo = DOMAIN m.helpers
      /\ eff = [h \in DOMAIN m.helpers |-> NoEffect] /\ next = eff
      /\ inn = [b \in {1} |-> Entered(m.entry)] /\ work = <<1>> /\ edges = {} /\ pc = 0 /\ has = [l \in Lock |-> 0]
  BY DEF Init
<1>2. m \in Bodies
  BY <1>1 DEF Bodies
<1>3. /\ inn \in [DOMAIN inn -> State] /\ DOMAIN inn \subseteq Blocks
      /\ work \in Seq(DOMAIN inn) /\ edges \subseteq Blocks \X State
      /\ Flowing /\ Entering
  BY <1>1, <1>2, EnterFacts DEF Fresh, Started
<1>4. NoEffect \in Effect
  BY FS_EmptySet DEF NoEffect, Effect
<1>5. TypeOK
  <2>1. eff \in [DOMAIN m.helpers -> Effect]
    BY <1>1, <1>4
  <2>2. pc \in 0 .. Size /\ round \in 0 .. MaxRounds
    BY <1>1, <1>2, MethodFacts, BoundsAssumption
  <2> QED
    BY <1>1, <1>2, <1>3, <2>1, <2>2 DEF TypeOK
<1>6. Idle /\ EveryStepIsReplayed
  BY <1>1 DEF Idle, EveryStepIsReplayed
<1> QED
  BY <1>3, <1>5, <1>6 DEF FlowInv

\* The dataflow is started over the method or one of its helpers.
LEMMA FlowEnter ==
  ASSUME FlowInv, NEW t \in Bodies, Enter(t), t.helpers = top.helpers, phase = "effects",
         \/ phase' = "helper" /\ todo # {} /\ t = HelperOf(top, Turn)
         \/ phase' = "solve" /\ t = top,
         UNCHANGED <<top, runs, eff, next, todo, round, pc, has>>
  PROVE  FlowInv'
<1>1. m' = t /\ inn' = [b \in {1} |-> Entered(t.entry)] /\ work' = <<1>> /\ edges' = {}
  BY DEF Enter
<1>2. /\ Size' \in Nat
      /\ inn' \in [DOMAIN inn' -> State'] /\ DOMAIN inn' \subseteq Blocks'
      /\ work' \in Seq(DOMAIN inn') /\ edges' \subseteq Blocks' \X State'
      /\ Flowing' /\ Entering'
  <2>1. Fresh' => Started'
    BY EnterFacts, PTL
  <2>2. (m \in Bodies)' /\ (inn = [b \in {1} |-> Entered(m.entry)])'
    BY <1>1 DEF Entered
  <2>3. Fresh'
    BY <1>1, <2>2 DEF Fresh
  <2> QED
    BY <2>1, <2>3 DEF Started
<1>3. pc = 0 /\ pc' = 0
  BY DEF FlowInv, Idle
<1>4. TypeOK'
  <2>1. Effect' = Effect /\ m'.helpers = m.helpers /\ pc' \in 0 .. Size'
    <3>1. Size' \in Nat
      BY <1>2
    <3>3. m.helpers = top.helpers
      BY DEF FlowInv, TypeOK
    <3> QED
      BY <1>1, <1>3, <3>1, <3>3 DEF Effect
  <2>2. TypeOK
    BY DEF FlowInv
  <2>3. (phase = "helper" => todo # {} /\ m = HelperOf(top, Turn))' /\ (phase \in {"solve", "done"} => m = top)'
    BY <1>1 DEF Turn
  <2> QED
    BY <1>1, <1>2, <2>1, <2>2, <2>3 DEF TypeOK
<1>5. Idle' /\ EveryStepIsReplayed'
  BY <1>3 DEF Idle, EveryStepIsReplayed
<1> QED
  BY <1>2, <1>4, <1>5 DEF FlowInv

LEMMA FlowPick == FlowInv /\ Pick => FlowInv'
<1> SUFFICES ASSUME FlowInv, Pick PROVE FlowInv'
  OBVIOUS
<1>1. /\ phase = "effects" /\ todo # {} /\ phase' = "helper" /\ Enter(HelperOf(top, Turn))
      /\ UNCHANGED <<top, runs, eff, next, todo, round, pc, has>>
  BY DEF Pick
<1>2. top \in Methods /\ Turn \in DOMAIN top.helpers
  BY <1>1 DEF FlowInv, TypeOK, Turn
<1>3. HelperOf(top, Turn) \in Bodies /\ HelperOf(top, Turn).helpers = top.helpers
  BY <1>2, HelperIsBody DEF HelperOf
<1> QED
  BY <1>1, <1>3, FlowEnter

LEMMA FlowAgreed == FlowInv /\ Agreed => FlowInv'
<1> SUFFICES ASSUME FlowInv, Agreed PROVE FlowInv'
  OBVIOUS
<1>1. /\ phase = "effects" /\ phase' = "solve" /\ Enter(top)
      /\ UNCHANGED <<top, runs, eff, next, todo, round, pc, has>>
  BY DEF Agreed
<1>2. top \in Bodies
  BY DEF FlowInv, TypeOK, Bodies
<1> QED
  BY <1>1, <1>2, FlowEnter

\* Steps between two runs of the dataflow.
LEMMA FlowBetween ==
  ASSUME FlowInv, UNCHANGED <<top, runs, m, inn, work, edges, pc, has>>, phase # "done", phase' = "effects",
         eff' \in [DOMAIN m.helpers -> Effect], next' \in [DOMAIN m.helpers -> Effect],
         todo' \subseteq DOMAIN m.helpers, round' \in 0 .. MaxRounds
  PROVE  FlowInv'
<1>1. TypeOK /\ Idle /\ Entering
  BY DEF FlowInv
<1>2. State' = State /\ Blocks' = Blocks /\ Size' = Size /\ Effect' = Effect
  BY DEF State, Entry, Item, Blocks, Leaders, Size, Op, Effect
<1>3. TypeOK'
  BY <1>1, <1>2 DEF TypeOK
<1>4. Idle' /\ Entering' /\ EveryStepIsReplayed'
  BY <1>1 DEF Idle, Entering, EveryStepIsReplayed, Held
<1> QED
  BY <1>3, <1>4 DEF FlowInv

LEMMA FlowSolved == FlowInv /\ Solved => FlowInv'
<1> SUFFICES ASSUME FlowInv, Solved PROVE FlowInv'
  OBVIOUS
<1>1. /\ phase = "helper" /\ phase' = "effects" /\ next' = [next EXCEPT ![Turn] = NetEffect] /\ todo' = todo \ {Turn}
      /\ UNCHANGED <<top, runs, m, eff, round, inn, work, edges, pc, has>>
  BY DEF Solved
<1>2. TypeOK /\ NetEffect \in Effect
  BY NetEffectIsEffect DEF FlowInv
<1> QED
  BY <1>1, <1>2, FlowBetween DEF TypeOK

LEMMA FlowRound == FlowInv /\ Round => FlowInv'
<1> SUFFICES ASSUME FlowInv, Round PROVE FlowInv'
  OBVIOUS
<1>1. /\ phase = "effects" /\ phase' = "effects" /\ round < MaxRounds /\ round' = round + 1
      /\ eff' = next /\ next' = next /\ todo' = DOMAIN top.helpers
      /\ UNCHANGED <<top, runs, m, inn, work, edges, pc, has>>
  BY DEF Round
<1>2. TypeOK
  BY DEF FlowInv
<1>3. round' \in 0 .. MaxRounds
  BY <1>1, <1>2, BoundsAssumption DEF TypeOK
<1> QED
  BY <1>1, <1>2, <1>3, FlowBetween DEF TypeOK

\* An edge is taken: its end is entered with no more than it leads there with, and
\* is queued again if it is entered with less than before.
LEMMA EdgeTaken ==
  ASSUME FlowInv, NEW e \in edges, TakeEdge(e)
  PROVE  /\ TypeOK'
         /\ Under(e)'
         /\ \A b \in DOMAIN inn : b \in DOMAIN inn' /\ Held(inn'[b]) \subseteq Held(inn[b]) /\ inn'[b].unmatched \subseteq inn[b].unmatched
         /\ \A b \in DOMAIN inn : Queued(b) => Queued(b)'
         /\ \A b \in DOMAIN inn' : Queued(b)' \/ (b \in DOMAIN inn /\ inn'[b] = inn[b])
<1> DEFINE s == e[1]
           st == Joined(s, e[2])
<1> USE DEF FlowInv
<1>1. s \in Blocks /\ e[2] \in State /\ e = <<s, e[2]>>
  BY DEF TypeOK
<1>2. st \in State /\ Held(st) \subseteq Held(e[2]) /\ st.unmatched \subseteq e[2].unmatched
  <2>1. CASE s \in DOMAIN inn
    <3>1. inn[s] \in State /\ st = Meet(inn[s], e[2])
      BY <2>1 DEF TypeOK, Joined
    <3> QED
      BY <1>1, <3>1, MeetShrinks
  <2>2. CASE s \notin DOMAIN inn
    BY <1>1, <2>2 DEF Joined
  <2> QED
    BY <2>1, <2>2
<1>3. s \in DOMAIN inn => Held(st) \subseteq Held(inn[s]) /\ st.unmatched \subseteq inn[s].unmatched
  <2> SUFFICES ASSUME s \in DOMAIN inn PROVE Held(st) \subseteq Held(inn[s]) /\ st.unmatched \subseteq inn[s].unmatched
    OBVIOUS
  <2>1. inn[s] \in State /\ st = Meet(inn[s], e[2])
    BY DEF TypeOK, Joined
  <2> QED
    BY <1>1, <2>1, MeetShrinks
<1> HIDE DEF st
<1>4. inn' = [b \in DOMAIN inn \cup {s} |-> IF b = s THEN st ELSE inn[b]]
  BY DEF TakeEdge, st
<1>5. work' = IF Changed(s, st) /\ ~ Queued(s) THEN Append(work, s) ELSE work
  BY DEF TakeEdge, st
<1>6. edges' = edges \ {e} /\ UNCHANGED <<top, runs, m, phase, eff, next, todo, round, pc, has>>
  BY DEF TakeEdge
<1>7. DOMAIN inn' = DOMAIN inn \cup {s} /\ inn'[s] = st /\ \A b \in DOMAIN inn : b # s => inn'[b] = inn[b]
  BY <1>4
<1>8. work \in Seq(DOMAIN inn)
  BY DEF TypeOK
<1>9. work' \in Seq(DOMAIN inn')
  <2>1. work \in Seq(DOMAIN inn')
    BY <1>7, <1>8
  <2> QED
    BY <1>5, <1>7, <2>1
<1>10. TypeOK'
  <2>1. State' = State /\ Blocks' = Blocks /\ Size' = Size /\ Effect' = Effect
    BY <1>6 DEF State, Entry, Item, Blocks, Leaders, Size, Op, Effect
  <2>2. inn' \in [DOMAIN inn' -> State] /\ DOMAIN inn' \subseteq Blocks
    BY <1>1, <1>2, <1>4, <1>7 DEF TypeOK
  <2>3. Turn' = Turn
    BY <1>6 DEF Turn
  <2> QED
    BY <1>6, <1>9, <2>1, <2>2, <2>3 DEF TypeOK
<1>11. Under(e)'
  BY <1>2, <1>7 DEF Under, Held
<1>12. ASSUME NEW b \in DOMAIN inn
       PROVE  b \in DOMAIN inn' /\ Held(inn'[b]) \subseteq Held(inn[b]) /\ inn'[b].unmatched \subseteq inn[b].unmatched
  BY <1>3, <1>7
<1>13. ASSUME NEW b, Queued(b) PROVE Queued(b)'
  <2>1. PICK k \in 1 .. Len(work) : work[k] = b
    BY <1>13 DEF Queued
  <2>2. k \in 1 .. Len(work') /\ work'[k] = b
    BY <1>5, <1>8, <2>1
  <2> QED
    BY <2>2 DEF Queued
<1>14. ASSUME NEW b \in DOMAIN inn' PROVE Queued(b)' \/ (b \in DOMAIN inn /\ inn'[b] = inn[b])
  <2>1. CASE b # s
    BY <1>7, <2>1
  <2>2. CASE b = s /\ ~ Changed(s, st)
    BY <1>7, <2>2 DEF Changed
  <2>3. CASE b = s /\ Queued(s)
    BY <1>13, <2>3
  <2>4. CASE b = s /\ Changed(s, st) /\ ~ Queued(s)
    <3>1. work' = Append(work, s)
      BY <1>5, <2>4
    <3>2. Len(work') = Len(work) + 1 /\ work'[Len(work) + 1] = s
      BY <1>8, <3>1
    <3>3. Len(work) + 1 \in 1 .. Len(work')
      BY <1>8, <3>2
    <3> QED
      BY <2>4, <3>2, <3>3 DEF Queued
  <2> QED
    BY <2>1, <2>2, <2>3, <2>4
<1> QED
  BY <1>10, <1>11, <1>12, <1>13, <1>14

\* The edges of a block change with its entry state only.
LEMMA EdgesAreStable ==
  ASSUME m' = m, eff' = eff, NEW b, inn'[b] = inn[b]
  PROVE  EdgesFrom(b)' = EdgesFrom(b)
BY DEF EdgesFrom, Out, Before, Apply, Operand, Succ, Exc, Fall, End, Blocks, Leaders, Size, Op

LEMMA SameMethod ==
  ASSUME m' = m
  PROVE  State' = State /\ Blocks' = Blocks /\ Size' = Size /\ \A i : BlockOf(i)' = BlockOf(i)
BY DEF State, Entry, Item, Blocks, Leaders, Size, Op, BlockOf

LEMMA FlowTakeEdge == ASSUME FlowInv, NEW e \in edges, TakeEdge(e) PROVE FlowInv'
<1> USE DEF FlowInv
<1>1. /\ phase \in {"helper", "solve"} /\ phase' = phase
      /\ m' = m /\ eff' = eff /\ pc' = pc
      /\ edges' = edges \ {e}
  BY DEF TakeEdge, Solving
<1>2. TypeOK'
  BY EdgeTaken
<1>3. pc' = 0
  BY <1>1 DEF Idle
<1>4. ASSUME NEW b \in DOMAIN inn', ~ Queued(b)', NEW d \in EdgesFrom(b)' PROVE d \in edges' \/ Under(d)'
  <2>1. b \in DOMAIN inn /\ inn'[b] = inn[b] /\ ~ Queued(b)
    BY <1>4, EdgeTaken
  <2>2. d \in EdgesFrom(b)
    BY <1>1, <1>4, <2>1, EdgesAreStable
  <2>3. d \in edges \/ Under(d)
    BY <1>1, <2>1, <2>2 DEF Flowing
  <2>4. ASSUME Under(d) PROVE Under(d)'
    <3>1. d[1] \in DOMAIN inn /\ Held(inn[d[1]]) \subseteq Held(d[2]) /\ inn[d[1]].unmatched \subseteq d[2].unmatched
      BY <2>4 DEF Under
    <3>2. d[1] \in DOMAIN inn' /\ Held(inn'[d[1]]) \subseteq Held(inn[d[1]]) /\ inn'[d[1]].unmatched \subseteq inn[d[1]].unmatched
      BY <3>1, EdgeTaken
    <3> QED
      BY <3>1, <3>2 DEF Under, Held
  <2> QED
    BY <1>1, <2>3, <2>4, EdgeTaken
<1>5. Flowing'
  BY <1>4 DEF Flowing
<1>6. Entering'
  <2>1. 1 \in DOMAIN inn /\ Held(inn[1]) \subseteq {m.entry[d] : d \in 1 .. Len(m.entry)}
    BY DEF Entering
  <2>2. 1 \in DOMAIN inn' /\ Held(inn'[1]) \subseteq Held(inn[1])
    BY <2>1, EdgeTaken
  <2>3. Held(inn'[1]) = Held(inn[1])'
    BY DEF Held
  <2> QED
    BY <1>1, <2>1, <2>2, <2>3 DEF Entering, Held
<1>7. Idle' /\ EveryStepIsReplayed'
  BY <1>1, <1>3 DEF Idle, EveryStepIsReplayed
<1> QED
  BY <1>2, <1>5, <1>6, <1>7

LEMMA FlowPopBlock == FlowInv /\ PopBlock => FlowInv'
<1> SUFFICES ASSUME FlowInv, PopBlock PROVE FlowInv'
  OBVIOUS
<1> USE DEF FlowInv
<1>1. /\ phase \in {"helper", "solve"} /\ edges = {} /\ work # <<>>
      /\ work' = Tail(work) /\ edges' = EdgesFrom(Head(work))
      /\ UNCHANGED <<top, runs, m, phase, eff, next, todo, round, inn, pc, has>>
  BY DEF PopBlock, Solving
<1>2. work \in Seq(DOMAIN inn)
  BY DEF TypeOK
<1>3. Head(work) \in DOMAIN inn /\ Tail(work) \in Seq(DOMAIN inn) /\ Head(work) = work[1]
  BY <1>1, <1>2
<1>4. TypeOK'
  <2>1. edges' \subseteq Blocks \X State
    BY <1>1, <1>3, EdgesAreTyped
  <2>2. Turn' = Turn
    BY <1>1 DEF Turn
  <2> QED
    BY <1>1, <1>3, <2>1, <2>2, SameMethod DEF TypeOK, Effect
<1>5. ASSUME NEW b \in DOMAIN inn, Queued(b), b # Head(work) PROVE Queued(b)'
  <2>1. PICK k \in 1 .. Len(work) : work[k] = b
    BY <1>5 DEF Queued
  <2>2. k # 1
    BY <1>3, <1>5, <2>1
  <2>3. Len(work') = Len(work) - 1 /\ k - 1 \in 1 .. Len(work') /\ work'[k - 1] = work[k]
    BY <1>1, <1>2, <2>1, <2>2
  <2> QED
    BY <2>1, <2>3 DEF Queued
<1>6. ASSUME NEW b \in DOMAIN inn', ~ Queued(b)', NEW d \in EdgesFrom(b)' PROVE d \in edges' \/ Under(d)'
  <2>1. EdgesFrom(b)' = EdgesFrom(b)
    BY <1>1, EdgesAreStable
  <2>2. CASE b = Head(work)
    BY <1>1, <1>6, <2>1, <2>2
  <2>3. CASE b # Head(work)
    <3>1. b \in DOMAIN inn /\ ~ Queued(b)
      BY <1>1, <1>5, <1>6, <2>3
    <3>2. Under(d)
      BY <1>1, <1>6, <2>1, <3>1 DEF Flowing
    <3> QED
      BY <1>1, <3>2 DEF Under
  <2> QED
    BY <2>2, <2>3
<1>7. Flowing'
  BY <1>6 DEF Flowing
<1>8. Idle' /\ Entering' /\ EveryStepIsReplayed'
  BY <1>1 DEF Idle, Entering, EveryStepIsReplayed
<1> QED
  BY <1>4, <1>7, <1>8

\* Steps that leave the dataflow alone.
LEMMA FlowSame ==
  ASSUME FlowInv, UNCHANGED <<top, runs, m, eff, next, todo, round, inn, work, edges>>,
         phase' = phase \/ (phase = "solve" /\ phase' = "done"),
         phase' # "done" => pc' = 0, phase' = "done" => work = <<>> /\ edges = {},
         pc' \in 0 .. Size, has' \in [Lock -> Nat], pc' # 0 => BlockOf(pc') \in DOMAIN inn
  PROVE  FlowInv'
<1> USE DEF FlowInv
<1>1. TypeOK'
  <2>1. Turn' = Turn
    BY DEF Turn
  <2> QED
    BY <2>1, SameMethod DEF TypeOK, Effect
<1>2. \A b : EdgesFrom(b)' = EdgesFrom(b)
  BY EdgesAreStable
<1>3. (phase # "effects" => Flowing)'
  BY <1>2 DEF Flowing, Queued, Under
<1>4. Idle' /\ Entering'
  BY DEF Idle, Entering
<1>5. EveryStepIsReplayed'
  BY DEF EveryStepIsReplayed, BlockOf, Blocks, Leaders, Size, Op
<1> QED
  BY <1>1, <1>3, <1>4, <1>5

\* When the dataflow has converged, every edge of a block reached leads to a state below.
LEMMA DoneIsClosed ==
  ASSUME FlowInv, phase # "effects", work = <<>>, edges = {}, NEW b \in DOMAIN inn, NEW e \in EdgesFrom(b)
  PROVE  Under(e)
<1>1. work = <<>> /\ edges = {} /\ (Queued(b) \/ e \in edges \/ Under(e))
  BY DEF FlowInv, Idle, Flowing
<1>2. ~ Queued(b)
  BY <1>1 DEF Queued
<1> QED
  BY <1>1, <1>2

LEMMA DoKeepsNat ==
  ASSUME NEW d, Do(d)
  PROVE  has' \in [Lock -> Nat]
<1>1. \A l \in Lock : has'[l] \in Nat
  BY BoundsAssumption DEF Do
<1>2. has' = [l \in Lock |-> has'[l]]
  BY DEF Do
<1> QED
  BY <1>1, <1>2

LEMMA FlowExecution == FlowInv /\ Execution => FlowInv'
<1> SUFFICES ASSUME FlowInv, Execution PROVE FlowInv'
  OBVIOUS
<1>1. m \in Bodies /\ Size \in Nat \ {0} /\ pc \in 0 .. Size /\ has \in [Lock -> Nat] /\ round \in 0 .. MaxRounds
  BY MethodFacts DEF FlowInv, TypeOK
<1>2. CASE Start
  <2>1. 1 \in DOMAIN inn /\ 1 \in Blocks
    BY <1>1, LeadersAreNumbers DEF FlowInv, Entering
  <2>2. BlockOf(1) = 1 /\ 1 \in 0 .. Size
    BY <1>1, <2>1, BlockOfLeader
  <2>3. has' \in [Lock -> Nat]
    <3>1. ASSUME NEW l \in Lock PROVE CountOf(m.entry, l) \in Nat
      <4>4. m.entry \in Seq(Lock)
        BY <1>1, MethodFacts
      <4>5. Len(m.entry) \in Nat /\ 1 \in Nat
        BY <4>4
      <4>1. IsFiniteSet(1 .. Len(m.entry))
        BY <4>5, FS_Interval
      <4>2. {k \in 1 .. Len(m.entry) : m.entry[k] = l} \in SUBSET (1 .. Len(m.entry))
        OBVIOUS
      <4>3. IsFiniteSet({k \in 1 .. Len(m.entry) : m.entry[k] = l})
        BY <4>1, <4>2, FS_Subset
      <4> QED
        BY <4>3, FS_CardinalityType DEF CountOf
    <3> QED
      BY <1>2, <3>1 DEF Start
  <2>4. phase = "done" /\ phase' = "done" /\ pc' = 1 /\ round' = round /\ UNCHANGED <<top, runs, m, eff, next, todo, round, inn, work, edges>>
    BY <1>2 DEF Start
  <2>5. work = <<>> /\ edges = {}
    BY <2>4 DEF FlowInv, Idle
  <2> QED
    BY <1>1, <2>1, <2>2, <2>3, <2>4, <2>5, FlowSame
<1>3. CASE Complete
  <2>1. phase = "done" /\ work = <<>> /\ edges = {} /\ pc \in 1 .. Size
    BY <1>1, <1>3 DEF Complete, FlowInv, Idle
  <2>2. phase' = "done" /\ round' = round /\ UNCHANGED <<top, runs, m, eff, next, todo, round, inn, work, edges>>
    BY <1>3, <2>1 DEF Complete
  <2>3. has' \in [Lock -> Nat]
    BY <1>3, DoKeepsNat DEF Complete
  <2>4. BlockOf(pc) \in DOMAIN inn /\ BlockOf(pc) \in Blocks
    BY <1>1, <1>3, <2>1, BlockOfIsGreatest DEF FlowInv, EveryStepIsReplayed
  <2>5. ASSUME pc' # 0 PROVE pc' \in 1 .. Size /\ BlockOf(pc') \in DOMAIN inn
    <3>1. pc' \in NextPc(pc)
      BY <1>3 DEF Complete
    <3>2. CASE pc' = pc + 1 /\ BlockOf(pc') = BlockOf(pc)
      BY <1>1, <2>1, <2>4, <2>5, <3>1, <3>2, NextIsSuccessor
    <3>3. CASE pc' \in Succ(BlockOf(pc))
      <4>1. <<pc', Out(BlockOf(pc), inn[BlockOf(pc)])>> \in EdgesFrom(BlockOf(pc))
        BY <3>3 DEF EdgesFrom
      <4>2. pc' \in DOMAIN inn
        BY <2>1, <2>4, <4>1, DoneIsClosed DEF Under
      <4>3. pc' \in Blocks
        BY <4>2 DEF FlowInv, TypeOK
      <4> QED
        BY <1>1, <2>1, <2>5, <3>1, <4>2, <4>3, BlockOfLeader, NextIsSuccessor
    <3> QED
      BY <1>1, <2>1, <2>5, <3>1, <3>2, <3>3, NextIsSuccessor
  <2>6. pc' \in 0 .. Size
    BY <1>1, <2>5
  <2> QED
    BY <1>1, <2>1, <2>2, <2>3, <2>5, <2>6, FlowSame
<1>4. CASE Unwind
  <2>1. phase = "done" /\ work = <<>> /\ edges = {} /\ pc \in 1 .. Size
    BY <1>1, <1>4 DEF Unwind, FlowInv, Idle
  <2>6. has' \in [Lock -> Nat]
    BY <1>4, DoKeepsNat DEF Unwind
  <2>2. phase' = "done" /\ round' = round /\ UNCHANGED <<top, runs, m, eff, next, todo, round, inn, work, edges>>
    BY <1>4, <2>1 DEF Unwind
  <2>3. BlockOf(pc) \in DOMAIN inn /\ BlockOf(pc) \in Blocks
    BY <1>1, <1>4, <2>1, BlockOfIsGreatest DEF FlowInv, EveryStepIsReplayed
  <2>4. ASSUME pc' # 0 PROVE pc' \in 1 .. Size /\ BlockOf(pc') \in DOMAIN inn
    <3>1. PICK c \in m.catches : c[1] <= pc /\ pc < c[2] /\ c[3] = pc' /\ pc' \in 1 .. Size
      BY <1>4, <2>4 DEF Unwind, HandlersOf, Size
    <3>2. pc' \in Exc(BlockOf(pc))
      BY <1>1, <2>1, <3>1, HandlerIsHandler
    <3>3. <<pc', inn[BlockOf(pc)]>> \in EdgesFrom(BlockOf(pc))
      BY <3>2 DEF EdgesFrom
    <3>4. pc' \in DOMAIN inn
      BY <2>1, <2>3, <3>3, DoneIsClosed DEF Under
    <3>5. pc' \in Blocks
      BY <3>4 DEF FlowInv, TypeOK
    <3> QED
      BY <1>1, <3>1, <3>4, <3>5, BlockOfLeader
  <2>5. pc' \in 0 .. Size
    BY <1>1, <2>4
  <2> QED
    BY <1>1, <2>1, <2>2, <2>4, <2>5, <2>6, FlowSame
<1> QED
  BY <1>2, <1>3, <1>4 DEF Execution

LEMMA FlowNext == FlowInv /\ [Next]_vars => FlowInv'
<1> SUFFICES ASSUME FlowInv, [Next]_vars PROVE FlowInv'
  OBVIOUS
<1>1. CASE Round
  BY <1>1, FlowRound
<1>2. CASE Agreed
  BY <1>2, FlowAgreed
<1>8. CASE Pick
  BY <1>8, FlowPick
<1>9. CASE Solved
  BY <1>9, FlowSolved
<1>3. CASE PopBlock
  BY <1>3, FlowPopBlock
<1>4. CASE \E e \in edges : TakeEdge(e)
  BY <1>4, FlowTakeEdge
<1>5. CASE Converge
  BY <1>5, FlowSame DEF Converge, FlowInv, TypeOK, Idle
<1>6. CASE Execution
  BY <1>6, FlowExecution
<1>7. CASE UNCHANGED vars
  BY <1>7, FlowSame DEF vars, FlowInv, TypeOK, Idle, EveryStepIsReplayed
<1> QED
  BY <1>1, <1>2, <1>3, <1>4, <1>5, <1>6, <1>7, <1>8, <1>9 DEF Next, Solver

\* The dataflow only ever holds states of the method, and when it has converged
\* the entry state of a block is below what every edge from a block reached
\* leads there with (`run`, flow.rs:434-461).
THEOREM FlowHolds == Spec => []FlowInv
BY FlowInit, FlowNext, PTL DEF Spec

\* The replay visits every instruction an execution reaches (flow.rs:463-473).
THEOREM EveryStepReplayed == Spec => []EveryStepIsReplayed
<1>1. FlowInv => EveryStepIsReplayed
  BY DEF FlowInv
<1> QED
  BY <1>1, FlowHolds, PTL
-----------------------------------------------------------------------------
(***************************************************************************)
(* What executions do to the locks of a body.                              *)
(***************************************************************************)
Did == [net : [Lock -> Int], needs : [Lock -> Int]]

Place(b) == [at : {Gone, 0} \cup 1 .. Len(b.insns), did : Did]

Outcome == [returns : SUBSET Did, throws : SUBSET Did]

\* What is known of the helpers with these names.
Book(hs) == [hs -> Outcome]

LEMMA MaxOfTwo ==
  ASSUME NEW a \in Int, NEW b \in Int
  PROVE  /\ a >= b => Max({a, b}) = a
         /\ b >= a => Max({a, b}) = b
         /\ Max({a, b}) \in Int
<1>1. \E x \in {a, b} : \A y \in {a, b} : x >= y
  OBVIOUS
<1>2. Max({a, b}) \in {a, b} /\ \A y \in {a, b} : Max({a, b}) >= y
  BY <1>1 DEF Max
<1> QED
  BY <1>2

LEMMA ThenIs ==
  ASSUME NEW d \in Did, NEW e \in Did
  PROVE  /\ Then(d, e) \in Did
         /\ \A l \in Lock : /\ Then(d, e).net[l] = d.net[l] + e.net[l]
                            /\ Then(d, e).needs[l] = Max({d.needs[l], e.needs[l] - d.net[l]})
<1> DEFINE net == [l \in Lock |-> d.net[l] + e.net[l]]
           needs == [l \in Lock |-> Max({d.needs[l], e.needs[l] - d.net[l]})]
<1>1. \A l \in Lock : d.net[l] \in Int /\ e.net[l] \in Int /\ d.needs[l] \in Int /\ e.needs[l] \in Int
  BY DEF Did
<1>2. net \in [Lock -> Int]
  BY <1>1
<1>3. \A l \in Lock : Max({d.needs[l], e.needs[l] - d.net[l]}) \in Int
  BY <1>1, MaxOfTwo
<1>4. needs \in [Lock -> Int]
  BY <1>3
<1>5. Then(d, e) = [net |-> net, needs |-> needs]
  BY DEF Then
<1> QED
  BY <1>2, <1>4, <1>5 DEF Did

LEMMA SingleDid ==
  /\ Keeps \in Did
  /\ \A l \in Lock : Gains(l) \in Did /\ Loses(l) \in Did
<1>1. \A l \in Lock : [o \in Lock |-> IF o = l THEN 1 ELSE 0] \in [Lock -> Int]
  OBVIOUS
<1>2. \A l \in Lock : [o \in Lock |-> IF o = l THEN -1 ELSE 0] \in [Lock -> Int]
  OBVIOUS
<1>3. [o \in Lock |-> 0] \in [Lock -> Int]
  OBVIOUS
<1> QED
  BY <1>1, <1>2, <1>3 DEF Keeps, Gains, Loses, Did

LEMMA InsnDoes ==
  ASSUME NEW hs, NEW known \in Book(hs), NEW insn, IsInsn(insn), insn.op = "Call" => insn.callee \in hs
  PROVE  Completing(insn, known) \subseteq Did /\ Throwing(insn, known) \subseteq Did
<1>1. insn.op \in LockOps => insn.lock \in Lock
  BY DEF IsInsn
<1>2. CASE insn.op = "Call"
  <2>1. known[insn.callee] \in Outcome
    BY <1>2 DEF Book
  <2>2. Completing(insn, known) = known[insn.callee].returns /\ Throwing(insn, known) = {Keeps} \cup known[insn.callee].throws
    BY <1>2 DEF Completing, Throwing
  <2> QED
    BY <2>1, <2>2, SingleDid DEF Outcome
<1>3. CASE insn.op \in LockOps
  <2>1. Gains(insn.lock) \in Did /\ Loses(insn.lock) \in Did
    BY <1>1, <1>3, SingleDid
  <2>2. Throwing(insn, known) = {}
    BY <1>3 DEF Throwing, LockOps
  <2>3. Completing(insn, known) \subseteq {Gains(insn.lock), Loses(insn.lock), Keeps}
    BY <1>3 DEF Completing, LockOps
  <2> QED
    BY <2>1, <2>2, <2>3, SingleDid
<1>4. CASE insn.op \notin LockOps \cup {"Call"}
  <2>1. Completing(insn, known) = {Keeps} /\ Throwing(insn, known) \subseteq {Keeps}
    BY <1>4 DEF Completing, Throwing, LockOps
  <2> QED
    BY <2>1, SingleDid
<1> QED
  BY <1>2, <1>3, <1>4

LEMMA NextsInside ==
  ASSUME NEW b, NEW i
  PROVE  NextOf(b, i) \subseteq {0} \cup 1 .. Len(b.insns) /\ HandlersOf(b, i) \subseteq 1 .. Len(b.insns)
BY DEF NextOf, HandlersOf

\* A place one on is reached by completing or by throwing.
LEMMA OnwardIs ==
  ASSUME NEW b, NEW known, NEW x, NEW y \in Onward(b, known, x)
  PROVE  \/ \E d \in Completing(b.insns[x.at], known) : y = [at |-> y.at, did |-> Then(x.did, d)] /\ y.at \in NextOf(b, x.at)
         \/ \E d \in Throwing(b.insns[x.at], known) : y = [at |-> y.at, did |-> Then(x.did, d)] /\ y.at \in HandlersOf(b, x.at) \cup {Gone}
<1>1. CASE y \in {[at |-> j, did |-> Then(x.did, d)] : j \in NextOf(b, x.at), d \in Completing(b.insns[x.at], known)}
  <2>1. PICK j \in NextOf(b, x.at), d \in Completing(b.insns[x.at], known) : y = [at |-> j, did |-> Then(x.did, d)]
    BY <1>1
  <2>2. y.at = j
    BY <2>1
  <2> QED
    BY <2>1, <2>2
<1>2. CASE y \in {[at |-> j, did |-> Then(x.did, d)] : j \in HandlersOf(b, x.at) \cup {Gone}, d \in Throwing(b.insns[x.at], known)}
  <2>1. PICK j \in HandlersOf(b, x.at) \cup {Gone}, d \in Throwing(b.insns[x.at], known) : y = [at |-> j, did |-> Then(x.did, d)]
    BY <1>2
  <2>2. y.at = j
    BY <2>1
  <2> QED
    BY <2>1, <2>2
<1> QED
  BY <1>1, <1>2 DEF Onward

LEMMA OnwardIsPlace ==
  ASSUME NEW hs, NEW b, IsBody(b, hs), NEW known \in Book(hs), NEW x \in Place(b), x.at > 0
  PROVE  Onward(b, known, x) \subseteq Place(b)
<1> SUFFICES ASSUME NEW y \in Onward(b, known, x) PROVE y \in Place(b)
  OBVIOUS
<1>1. x.at \in 1 .. Len(b.insns) /\ x.did \in Did
  BY DEF Place, Gone
<1>2. Completing(b.insns[x.at], known) \subseteq Did /\ Throwing(b.insns[x.at], known) \subseteq Did
  BY <1>1, InsnDoes DEF IsBody
<1>3. \E d \in Did : y = [at |-> y.at, did |-> Then(x.did, d)] /\ y.at \in {Gone, 0} \cup 1 .. Len(b.insns)
  BY <1>2, OnwardIs, NextsInside
<1>4. PICK d \in Did : y = [at |-> y.at, did |-> Then(x.did, d)] /\ y.at \in {Gone, 0} \cup 1 .. Len(b.insns)
  BY <1>3
<1>5. Then(x.did, d) \in Did
  BY <1>1, ThenIs
<1> DEFINE w == y.at
           v == Then(x.did, d)
<1>6. w \in {Gone, 0} \cup 1 .. Len(b.insns) /\ v \in Did /\ y = [at |-> w, did |-> v]
  BY <1>4, <1>5
<1> HIDE DEF w, v
<1> QED
  BY <1>6 DEF Place

\* The places one instruction on from those.
Spread(b, known, before) == before \cup UNION {Onward(b, known, x) : x \in {y \in before : y.at > 0}}

Begun == [at |-> 1, did |-> Keeps]

\* f[k] are the places reached in k instructions.
IsReach(f, b, known) ==
  /\ f \in [0 .. MaxSteps -> SUBSET Place(b)]
  /\ f[0] = {Begun}
  /\ \A k \in 1 .. MaxSteps : f[k] = Spread(b, known, f[k - 1])
  /\ Reach(b, known) = f[MaxSteps]

LEMMA ReachSteps ==
  ASSUME NEW hs, NEW b, IsBody(b, hs), NEW known \in Book(hs)
  PROVE  \E f : IsReach(f, b, known)
<1> DEFINE S == SUBSET Place(b)
           step == [k \in 1 .. MaxSteps |-> [X \in S |-> Spread(b, known, X)]]
           Is(g) == g = [k \in 0 .. MaxSteps |->
                           IF k = 0 THEN {[at |-> 1, did |-> Keeps]}
                           ELSE LET before == g[k - 1]
                                IN  before \cup UNION {Onward(b, known, x) : x \in {y \in before : y.at > 0}}]
           u == CHOOSE g : Is(g)
<1>1. MaxSteps \in Nat /\ 0 \in Nat /\ 0 <= MaxSteps
  BY BoundsAssumption
<1>2. \A X \in S : Spread(b, known, X) \in S
  BY OnwardIsPlace DEF Spread
<1>3. {Begun} \in S
  <2>1. 1 \in {Gone, 0} \cup 1 .. Len(b.insns)
    BY DEF IsBody
  <2> QED
    BY <2>1, SingleDid DEF Place, Begun
<1>4. Steps(step, S, 0, MaxSteps)
  BY <1>1, <1>2 DEF Steps
<1> HIDE DEF S
<1>5. PICK f : Trace(f, step, S, 0, MaxSteps, {Begun})
  BY <1>1, <1>3, <1>4, IterationExists
<1>6. f \in [0 .. MaxSteps -> S] /\ f[0] = {Begun} /\ \A k \in 1 .. MaxSteps : f[k] = step[k][f[k - 1]]
  BY <1>5 DEF Trace
<1>7. ASSUME NEW k \in 1 .. MaxSteps PROVE f[k] = Spread(b, known, f[k - 1])
  <2>1. k - 1 \in 0 .. MaxSteps
    BY <1>1
  <2>2. f[k - 1] \in S
    BY <1>6, <2>1
  <2> QED
    BY <1>6, <2>2
<1> HIDE DEF step
<1>8. Is(f)
  <2>1. f = [k \in 0 .. MaxSteps |-> f[k]]
    BY <1>6
  <2>2. ASSUME NEW k \in 0 .. MaxSteps
        PROVE  f[k] = IF k = 0 THEN {[at |-> 1, did |-> Keeps]}
                      ELSE f[k - 1] \cup UNION {Onward(b, known, x) : x \in {y \in f[k - 1] : y.at > 0}}
    <3>1. CASE k = 0
      BY <1>6, <3>1 DEF Begun
    <3>2. CASE k # 0
      <4>1. k \in 1 .. MaxSteps
        BY <1>1, <3>2
      <4> QED
        BY <1>7, <3>2, <4>1 DEF Spread
    <3> QED
      BY <3>1, <3>2
  <2> QED
    BY <2>1, <2>2
<1>9. Is(u)
  <2> HIDE DEF Is
  <2> QED
    BY <1>8
<1>10. Reach(b, known) = u[MaxSteps]
  BY DEF Reach
<1> HIDE DEF u
<1>11. u = [k \in 0 .. MaxSteps |-> u[k]] /\ u[0] = {Begun} /\ \A k \in 1 .. MaxSteps : u[k] = Spread(b, known, u[k - 1])
  <2>1. u[0] = {Begun}
    BY <1>1, <1>9 DEF Begun
  <2>2. ASSUME NEW k \in 1 .. MaxSteps PROVE u[k] = Spread(b, known, u[k - 1])
    <3>1. k \in 0 .. MaxSteps /\ k # 0
      BY <1>1
    <3> QED
      BY <1>9, <3>1 DEF Spread
  <2>3. u = [k \in 0 .. MaxSteps |-> u[k]]
    BY <1>9
  <2> QED
    BY <2>1, <2>2, <2>3
<1> HIDE DEF Is
<1>12. \A k \in 0 .. MaxSteps : u[k] \in S
  <2> DEFINE Good == {k \in 0 .. MaxSteps : u[k] \in S}
  <2>1. 0 \in Good
    <3>1. u[0] = {Begun}
      BY <1>11
    <3>2. u[0] \in S
      BY <1>3, <3>1
    <3>3. 0 \in 0 .. MaxSteps
      BY <1>1
    <3> QED
      BY <3>2, <3>3
  <2>2. ASSUME NEW k \in Good, k \in 0 .. MaxSteps - 1 PROVE k + 1 \in Good
    <3>1. k + 1 \in 1 .. MaxSteps /\ (k + 1) - 1 = k
      BY <1>1, <2>2
    <3>2. u[k + 1] = Spread(b, known, u[k])
      BY <1>11, <3>1
    <3> QED
      BY <1>1, <1>2, <2>2, <3>1, <3>2
  <2> HIDE DEF Good
  <2>3. 0 .. MaxSteps \subseteq Good
    BY <1>1, <2>1, <2>2, IntervalInduction
  <2> QED
    BY <2>3 DEF Good
<1>13. u \in [0 .. MaxSteps -> S]
  BY <1>11, <1>12
<1> QED
  BY <1>10, <1>11, <1>13 DEF IsReach, S

\* What holds of the first place and is kept by every instruction holds of all.
LEMMA ReachInduction ==
  ASSUME NEW hs, NEW b, IsBody(b, hs), NEW known \in Book(hs), NEW S, Begun \in S,
         \A x \in S \cap Place(b) : x.at > 0 => Onward(b, known, x) \subseteq S
  PROVE  Reach(b, known) \subseteq S \cap Place(b)
<1>1. PICK f : IsReach(f, b, known)
  BY ReachSteps
<1>2. MaxSteps \in Nat /\ 0 \in Nat
  BY BoundsAssumption
<1>3. f[0] = {Begun} /\ Reach(b, known) = f[MaxSteps] /\ \A k \in 1 .. MaxSteps : f[k] = Spread(b, known, f[k - 1])
  BY <1>1 DEF IsReach
<1>4. \A k \in 0 .. MaxSteps : f[k] \subseteq Place(b)
  BY <1>1 DEF IsReach
<1> DEFINE Good == {k \in 0 .. MaxSteps : f[k] \subseteq S}
<1>5. 0 \in Good
  BY <1>2, <1>3
<1>6. ASSUME NEW k \in Good, k \in 0 .. MaxSteps - 1 PROVE k + 1 \in Good
  <2>1. k + 1 \in 1 .. MaxSteps /\ (k + 1) - 1 = k /\ k \in 0 .. MaxSteps /\ k + 1 \in 0 .. MaxSteps
    BY <1>2, <1>6
  <2>2. f[k + 1] = Spread(b, known, f[k])
    BY <1>3, <2>1
  <2>3. f[k] \subseteq S \cap Place(b)
    BY <1>4, <2>1
  <2>4. Spread(b, known, f[k]) \subseteq S
    BY <2>3 DEF Spread
  <2> QED
    BY <2>1, <2>2, <2>4
<1> HIDE DEF Good
<1>7. 0 .. MaxSteps \subseteq Good
  BY <1>2, <1>5, <1>6, IntervalInduction
<1>8. MaxSteps \in 0 .. MaxSteps
  BY <1>2
<1>9. f[MaxSteps] \subseteq S
  BY <1>7, <1>8 DEF Good
<1> QED
  BY <1>3, <1>4, <1>8, <1>9

\* Everything in book one is in book two.
Below(one, two, hs) == \A h \in hs : one[h].returns \subseteq two[h].returns /\ one[h].throws \subseteq two[h].throws

LEMMA InsnGrows ==
  ASSUME NEW hs, NEW one, NEW two, Below(one, two, hs), NEW insn, insn.op = "Call" => insn.callee \in hs
  PROVE  Completing(insn, one) \subseteq Completing(insn, two) /\ Throwing(insn, one) \subseteq Throwing(insn, two)
<1>1. CASE insn.op = "Call"
  <2>1. one[insn.callee].returns \subseteq two[insn.callee].returns /\ one[insn.callee].throws \subseteq two[insn.callee].throws
    BY <1>1 DEF Below
  <2> QED
    BY <1>1, <2>1 DEF Completing, Throwing
<1>2. CASE insn.op # "Call"
  BY <1>2 DEF Completing, Throwing
<1> QED
  BY <1>1, <1>2

LEMMA ReachGrows ==
  ASSUME NEW hs, NEW b, IsBody(b, hs), NEW one \in Book(hs), NEW two \in Book(hs), Below(one, two, hs)
  PROVE  Reach(b, one) \subseteq Reach(b, two)
<1>1. PICK f : IsReach(f, b, one)
  BY ReachSteps
<1>2. PICK g : IsReach(g, b, two)
  BY ReachSteps
<1>3. MaxSteps \in Nat /\ 0 \in Nat
  BY BoundsAssumption
<1>4. /\ f[0] = {Begun} /\ Reach(b, one) = f[MaxSteps] /\ \A k \in 1 .. MaxSteps : f[k] = Spread(b, one, f[k - 1])
      /\ g[0] = {Begun} /\ Reach(b, two) = g[MaxSteps] /\ \A k \in 1 .. MaxSteps : g[k] = Spread(b, two, g[k - 1])
      /\ \A k \in 0 .. MaxSteps : f[k] \subseteq Place(b)
  BY <1>1, <1>2 DEF IsReach
<1>5. ASSUME NEW x \in Place(b), x.at > 0 PROVE Onward(b, one, x) \subseteq Onward(b, two, x)
  <2>1. x.at \in 1 .. Len(b.insns)
    BY <1>5 DEF Place, Gone
  <2>2. b.insns[x.at].op = "Call" => b.insns[x.at].callee \in hs
    BY <2>1 DEF IsBody
  <2>3. Completing(b.insns[x.at], one) \subseteq Completing(b.insns[x.at], two) /\ Throwing(b.insns[x.at], one) \subseteq Throwing(b.insns[x.at], two)
    BY <2>2, InsnGrows
  <2> QED
    BY <2>3 DEF Onward
<1> DEFINE Good == {k \in 0 .. MaxSteps : f[k] \subseteq g[k]}
<1>6. 0 \in Good
  BY <1>3, <1>4
<1>7. ASSUME NEW k \in Good, k \in 0 .. MaxSteps - 1 PROVE k + 1 \in Good
  <2>1. k + 1 \in 1 .. MaxSteps /\ (k + 1) - 1 = k /\ k \in 0 .. MaxSteps /\ k + 1 \in 0 .. MaxSteps
    BY <1>3, <1>7
  <2>2. f[k + 1] = Spread(b, one, f[k]) /\ g[k + 1] = Spread(b, two, g[k])
    BY <1>4, <2>1
  <2>3. f[k] \subseteq g[k] /\ f[k] \subseteq Place(b)
    BY <1>4, <2>1
  <2>4. Spread(b, one, f[k]) \subseteq Spread(b, two, g[k])
    BY <1>5, <2>3 DEF Spread
  <2> QED
    BY <2>1, <2>2, <2>4
<1> HIDE DEF Good
<1>8. 0 .. MaxSteps \subseteq Good
  BY <1>3, <1>6, <1>7, IntervalInduction
<1>9. MaxSteps \in 0 .. MaxSteps
  BY <1>3
<1>10. f[MaxSteps] \subseteq g[MaxSteps]
  BY <1>8, <1>9 DEF Good
<1> QED
  BY <1>4, <1>10

LEMMA EndsAre ==
  ASSUME NEW places
  PROVE  /\ \A d : d \in Ends(places).returns <=> \E x \in places : x.at = 0 /\ x.did = d
         /\ \A d : d \in Ends(places).throws <=> \E x \in places : x.at = Gone /\ x.did = d
<1>1. Ends(places).returns = {x.did : x \in {y \in places : y.at = 0}} /\ Ends(places).throws = {x.did : x \in {y \in places : y.at = Gone}}
  BY DEF Ends
<1> QED
  BY <1>1

Blank(hs) == [h \in hs |-> [returns |-> {}, throws |-> {}]]

\* What is known of the helpers of t one level of calls deeper than known.
Deeper(t, known) == [h \in DOMAIN t.helpers |-> Ends(Reach(t.helpers[h], known))]

LEMMA DeeperIsBook ==
  ASSUME NEW t \in Methods, NEW known \in Book(DOMAIN t.helpers)
  PROVE  Deeper(t, known) \in Book(DOMAIN t.helpers)
<1> SUFFICES ASSUME NEW h \in DOMAIN t.helpers PROVE Ends(Reach(t.helpers[h], known)) \in Outcome
  BY DEF Deeper, Book
<1>1. IsBody(t.helpers[h], DOMAIN t.helpers)
  BY MethodsAssumption DEF IsMethod
<1>2. Reach(t.helpers[h], known) \subseteq Place(t.helpers[h])
  <2> DEFINE S == Place(t.helpers[h])
  <2>1. Begun \in S
    <3>1. 1 \in {Gone, 0} \cup 1 .. Len(t.helpers[h].insns)
      BY <1>1 DEF IsBody
    <3> QED
      BY <3>1, SingleDid DEF Place, Begun
  <2>2. \A x \in S \cap Place(t.helpers[h]) : x.at > 0 => Onward(t.helpers[h], known, x) \subseteq S
    BY <1>1, OnwardIsPlace
  <2> HIDE DEF S
  <2>3. Reach(t.helpers[h], known) \subseteq S \cap Place(t.helpers[h])
    BY <1>1, <2>1, <2>2, ReachInduction
  <2> QED
    BY <2>3
<1>3. \A x \in Reach(t.helpers[h], known) : x.did \in Did
  BY <1>2 DEF Place
<1> DEFINE r == {x.did : x \in {y \in Reach(t.helpers[h], known) : y.at = 0}}
           e == {x.did : x \in {y \in Reach(t.helpers[h], known) : y.at = Gone}}
<1>4. r \subseteq Did /\ e \subseteq Did
  BY <1>3
<1>5. Ends(Reach(t.helpers[h], known)) = [returns |-> r, throws |-> e]
  BY DEF Ends
<1> HIDE DEF r, e
<1> QED
  BY <1>4, <1>5 DEF Outcome

\* g[n] is what is known of the helpers of t that nest at most n deep.
IsDeep(g, t) ==
  /\ g \in [0 .. MaxCalls -> Book(DOMAIN t.helpers)]
  /\ g[0] = Blank(DOMAIN t.helpers)
  /\ \A n \in 1 .. MaxCalls : g[n] = Deeper(t, g[n - 1])
  /\ Runs(t) = g[MaxCalls]

LEMMA RunsSteps ==
  ASSUME NEW t \in Methods
  PROVE  \E g : IsDeep(g, t)
<1> DEFINE S == Book(DOMAIN t.helpers)
           step == [n \in 1 .. MaxCalls |-> [X \in S |-> Deeper(t, X)]]
           Is(g) == g = [n \in 0 .. MaxCalls |->
                           [h \in DOMAIN t.helpers |->
                              IF n = 0 THEN [returns |-> {}, throws |-> {}]
                              ELSE LET known == g[n - 1] IN Ends(Reach(t.helpers[h], known))]]
           u == CHOOSE g : Is(g)
           Row(g, n) == [h \in DOMAIN t.helpers |->
                           IF n = 0 THEN [returns |-> {}, throws |-> {}] ELSE Ends(Reach(t.helpers[h], g[n - 1]))]
<1>1. MaxCalls \in Nat /\ 0 \in Nat /\ 0 <= MaxCalls
  BY BoundsAssumption
<1>2. \A X \in S : Deeper(t, X) \in S
  BY DeeperIsBook
<1>3. Blank(DOMAIN t.helpers) \in S
  BY DEF Book, Blank, Outcome
<1>4. Steps(step, S, 0, MaxCalls)
  BY <1>1, <1>2 DEF Steps
<1> HIDE DEF S
<1>5. PICK f : Trace(f, step, S, 0, MaxCalls, Blank(DOMAIN t.helpers))
  BY <1>1, <1>3, <1>4, IterationExists
<1>6. f \in [0 .. MaxCalls -> S] /\ f[0] = Blank(DOMAIN t.helpers) /\ \A n \in 1 .. MaxCalls : f[n] = step[n][f[n - 1]]
  BY <1>5 DEF Trace
<1>7. ASSUME NEW n \in 1 .. MaxCalls PROVE f[n] = Deeper(t, f[n - 1])
  <2>1. n - 1 \in 0 .. MaxCalls
    BY <1>1
  <2>2. f[n - 1] \in S
    BY <1>6, <2>1
  <2> QED
    BY <1>6, <2>2
<1> HIDE DEF step
<1>8. \A g, n : /\ n = 0 => Row(g, n) = Blank(DOMAIN t.helpers)
                /\ n # 0 => Row(g, n) = Deeper(t, g[n - 1])
  BY DEF Blank, Deeper
<1>9. \A g : Is(g) <=> g = [n \in 0 .. MaxCalls |-> Row(g, n)]
  OBVIOUS
<1> HIDE DEF Is, Row
<1>10. Is(f)
  <2>1. ASSUME NEW n \in 0 .. MaxCalls PROVE f[n] = Row(f, n)
    <3>1. CASE n = 0
      BY <1>6, <1>8, <3>1
    <3>2. CASE n # 0
      <4>1. n \in 1 .. MaxCalls
        BY <1>1, <3>2
      <4> QED
        BY <1>7, <1>8, <3>2, <4>1
    <3> QED
      BY <3>1, <3>2
  <2>2. f = [n \in 0 .. MaxCalls |-> f[n]]
    BY <1>6
  <2> QED
    BY <1>9, <2>1, <2>2
<1>11. Is(u)
  BY <1>10
<1>12. Runs(t) = u[MaxCalls]
  BY DEF Runs, Is
<1> HIDE DEF u
<1>13. u = [n \in 0 .. MaxCalls |-> Row(u, n)]
  BY <1>9, <1>11
<1>14. u[0] = Blank(DOMAIN t.helpers) /\ \A n \in 1 .. MaxCalls : u[n] = Deeper(t, u[n - 1])
  <2>1. u[0] = Blank(DOMAIN t.helpers)
    BY <1>1, <1>8, <1>13
  <2>2. ASSUME NEW n \in 1 .. MaxCalls PROVE u[n] = Deeper(t, u[n - 1])
    <3>1. n \in 0 .. MaxCalls /\ n # 0
      BY <1>1
    <3> QED
      BY <1>8, <1>13, <3>1
  <2> QED
    BY <2>1, <2>2
<1>15. \A n \in 0 .. MaxCalls : u[n] \in S
  <2> DEFINE Good == {n \in 0 .. MaxCalls : u[n] \in S}
  <2>1. 0 \in Good
    BY <1>1, <1>3, <1>14
  <2>2. ASSUME NEW n \in Good, n \in 0 .. MaxCalls - 1 PROVE n + 1 \in Good
    <3>1. n + 1 \in 1 .. MaxCalls /\ (n + 1) - 1 = n
      BY <1>1, <2>2
    <3>2. u[n + 1] = Deeper(t, u[n])
      BY <1>14, <3>1
    <3> QED
      BY <1>1, <1>2, <2>2, <3>1, <3>2
  <2> HIDE DEF Good
  <2>3. 0 .. MaxCalls \subseteq Good
    BY <1>1, <2>1, <2>2, IntervalInduction
  <2> QED
    BY <2>3 DEF Good
<1>16. u \in [0 .. MaxCalls -> S]
  BY <1>13, <1>15
<1> QED
  BY <1>12, <1>14, <1>16 DEF IsDeep, S
-----------------------------------------------------------------------------
(***************************************************************************)
(* What a steady helper does, as an execution.                             *)
(***************************************************************************)
Bit(l, S) == IF l \in S THEN 1 ELSE 0

\* The locks of s.held were taken, and those of s.freed released.
Bits(s) == [net |-> [l \in Lock |-> Bit(l, s.held) - Bit(l, s.freed)], needs |-> [l \in Lock |-> Bit(l, s.freed)]]

Dealt(takes, frees) == [held |-> takes, freed |-> frees]

LEMMA BitsAre ==
  ASSUME NEW s
  PROVE  /\ Bits(s) \in Did
         /\ \A l \in Lock : Bits(s).net[l] = Bit(l, s.held) - Bit(l, s.freed) /\ Bits(s).needs[l] = Bit(l, s.freed)
<1> DEFINE net == [l \in Lock |-> Bit(l, s.held) - Bit(l, s.freed)]
           needs == [l \in Lock |-> Bit(l, s.freed)]
<1>1. \A l \in Lock : Bit(l, s.held) \in Int /\ Bit(l, s.freed) \in Int
  BY DEF Bit
<1>2. net \in [Lock -> Int] /\ needs \in [Lock -> Int]
  BY <1>1
<1>3. Bits(s) = [net |-> net, needs |-> needs]
  BY DEF Bits
<1> QED
  BY <1>2, <1>3 DEF Did

LEMMA DealtAre ==
  ASSUME NEW takes, NEW frees
  PROVE  /\ Bits(Dealt(takes, frees)) \in Did
         /\ \A l \in Lock : /\ Bits(Dealt(takes, frees)).net[l] = Bit(l, takes) - Bit(l, frees)
                            /\ Bits(Dealt(takes, frees)).needs[l] = Bit(l, frees)
<1> DEFINE d == Dealt(takes, frees)
<1>1. d.held = takes /\ d.freed = frees
  BY DEF Dealt
<1> HIDE DEF d
<1>2. Bits(d) \in Did /\ \A l \in Lock : Bits(d).net[l] = Bit(l, takes) - Bit(l, frees) /\ Bits(d).needs[l] = Bit(l, frees)
  BY <1>1, BitsAre
<1> QED
  BY <1>2 DEF d

LEMMA SameDid ==
  ASSUME NEW d \in Did, NEW e \in Did, \A l \in Lock : d.net[l] = e.net[l] /\ d.needs[l] = e.needs[l]
  PROVE  d = e
<1>1. d.net \in [Lock -> Int] /\ e.net \in [Lock -> Int] /\ d.needs \in [Lock -> Int] /\ e.needs \in [Lock -> Int]
  BY DEF Did
<1>2. d.net = e.net /\ d.needs = e.needs
  BY <1>1
<1>3. d = [net |-> d.net, needs |-> d.needs] /\ e = [net |-> e.net, needs |-> e.needs]
  BY DEF Did
<1> QED
  BY <1>2, <1>3

LEMMA SinglesAreBits ==
  /\ Keeps = Bits(Nothing) /\ Keeps = Bits(Dealt({}, {}))
  /\ \A l \in Lock : Gains(l) = Bits(Dealt({l}, {})) /\ Loses(l) = Bits(Dealt({}, {l}))
<1>1. Keeps = Bits(Nothing) /\ Keeps = Bits(Dealt({}, {}))
  <2>1. Bits(Nothing) \in Did /\ Bits(Dealt({}, {})) \in Did /\ Keeps \in Did
    BY BitsAre, SingleDid
  <2>2. \A l \in Lock : Keeps.net[l] = 0 /\ Keeps.needs[l] = 0
    BY DEF Keeps
  <2>3. \A l \in Lock : Bit(l, {}) = 0
    BY DEF Bit
  <2>4. \A l \in Lock : Bits(Nothing).net[l] = 0 /\ Bits(Nothing).needs[l] = 0 /\ Bits(Dealt({}, {})).net[l] = 0 /\ Bits(Dealt({}, {})).needs[l] = 0
    <3>1. Nothing = Dealt({}, {})
      BY DEF Nothing, Dealt
    <3> QED
      BY <2>3, <3>1, DealtAre
  <2> QED
    BY <2>1, <2>2, <2>4, SameDid
<1>2. ASSUME NEW l \in Lock PROVE Gains(l) = Bits(Dealt({l}, {}))
  <2>1. Bits(Dealt({l}, {})) \in Did /\ Gains(l) \in Did
    BY BitsAre, SingleDid
  <2>2. \A o \in Lock : Gains(l).net[o] = (IF o = l THEN 1 ELSE 0) /\ Gains(l).needs[o] = 0
    BY DEF Gains
  <2>3. \A o \in Lock : Bit(o, {l}) = (IF o = l THEN 1 ELSE 0) /\ Bit(o, {}) = 0
    BY DEF Bit
  <2>4. \A o \in Lock : Bits(Dealt({l}, {})).net[o] = Bit(o, {l}) - Bit(o, {}) /\ Bits(Dealt({l}, {})).needs[o] = Bit(o, {})
    BY DealtAre
  <2>5. \A o \in Lock : Gains(l).net[o] = Bits(Dealt({l}, {})).net[o] /\ Gains(l).needs[o] = Bits(Dealt({l}, {})).needs[o]
    BY <2>2, <2>3, <2>4
  <2> QED
    BY <2>1, <2>5, SameDid
<1>3. ASSUME NEW l \in Lock PROVE Loses(l) = Bits(Dealt({}, {l}))
  <2>1. Bits(Dealt({}, {l})) \in Did /\ Loses(l) \in Did
    BY BitsAre, SingleDid
  <2>2. \A o \in Lock : Loses(l).net[o] = (IF o = l THEN -1 ELSE 0) /\ Loses(l).needs[o] = IF o = l THEN 1 ELSE 0
    BY DEF Loses
  <2>3. \A o \in Lock : Bit(o, {l}) = (IF o = l THEN 1 ELSE 0) /\ Bit(o, {}) = 0
    BY DEF Bit
  <2>4. \A o \in Lock : Bits(Dealt({}, {l})).net[o] = Bit(o, {}) - Bit(o, {l}) /\ Bits(Dealt({}, {l})).needs[o] = Bit(o, {l})
    BY DealtAre
  <2>5. \A o \in Lock : Loses(l).net[o] = Bits(Dealt({}, {l})).net[o] /\ Loses(l).needs[o] = Bits(Dealt({}, {l})).needs[o]
    BY <2>2, <2>3, <2>4
  <2> QED
    BY <2>1, <2>5, SameDid
<1> QED
  BY <1>1, <1>2, <1>3

\* What was done, then what is done next, where they fit.
LEMMA ThenIsAfter ==
  ASSUME NEW s, NEW takes, NEW frees, Fits(s, takes, frees)
  PROVE  Then(Bits(s), Bits(Dealt(takes, frees))) = Bits(After(s, takes, frees))
<1> DEFINE a == After(s, takes, frees)
           d == Dealt(takes, frees)
<1>1. Bits(s) \in Did /\ Bits(d) \in Did /\ Bits(a) \in Did
  BY BitsAre
<1>2. Then(Bits(s), Bits(d)) \in Did
  BY <1>1, ThenIs
<1>3. a.held = (s.held \ frees) \cup takes /\ a.freed = s.freed \cup (frees \ s.held) /\ d.held = takes /\ d.freed = frees
  BY DEF After, Dealt
<1> HIDE DEF a, d
<1>4. ASSUME NEW l \in Lock
      PROVE  Then(Bits(s), Bits(d)).net[l] = Bits(a).net[l] /\ Then(Bits(s), Bits(d)).needs[l] = Bits(a).needs[l]
  <2>1. /\ Then(Bits(s), Bits(d)).net[l] = Bits(s).net[l] + Bits(d).net[l]
        /\ Then(Bits(s), Bits(d)).needs[l] = Max({Bits(s).needs[l], Bits(d).needs[l] - Bits(s).net[l]})
    BY <1>1, ThenIs
  <2> DEFINE h == Bit(l, s.held)
             f == Bit(l, s.freed)
             t == Bit(l, takes)
             r == Bit(l, frees)
  <2>2. /\ Bits(s).net[l] = h - f /\ Bits(s).needs[l] = f
        /\ Bits(d).net[l] = t - r /\ Bits(d).needs[l] = r
        /\ Bits(a).net[l] = Bit(l, a.held) - Bit(l, a.freed) /\ Bits(a).needs[l] = Bit(l, a.freed)
    BY <1>3, BitsAre
  <2>3. /\ h \in {0, 1} /\ f \in {0, 1} /\ t \in {0, 1} /\ r \in {0, 1}
        /\ ~ (t = 1 /\ h = 1 /\ r = 0) /\ ~ (r = 1 /\ f = 1 /\ h = 0)
        /\ Bit(l, a.held) = (IF (h = 1 /\ r = 0) \/ t = 1 THEN 1 ELSE 0)
        /\ Bit(l, a.freed) = IF f = 1 \/ (r = 1 /\ h = 0) THEN 1 ELSE 0
    BY <1>3 DEF Bit, Fits
  <2> HIDE DEF h, f, t, r
  <2>4. (h - f) + (t - r) = Bit(l, a.held) - Bit(l, a.freed)
    BY <2>3
  <2>5. Max({f, r - (h - f)}) = Bit(l, a.freed)
    <3>1. f \in Int /\ r - (h - f) \in Int
      BY <2>3
    <3>2. CASE f >= r - (h - f)
      <4>1. Max({f, r - (h - f)}) = f
        BY <3>1, <3>2, MaxOfTwo
      <4> QED
        BY <2>3, <3>2, <4>1
    <3>3. CASE r - (h - f) >= f
      <4>1. Max({f, r - (h - f)}) = r - (h - f)
        BY <3>1, <3>3, MaxOfTwo
      <4> QED
        BY <2>3, <3>3, <4>1
    <3> QED
      BY <3>1, <3>2, <3>3
  <2> QED
    BY <2>1, <2>2, <2>4, <2>5
<1>5. Then(Bits(s), Bits(d)) = Bits(a)
  BY <1>1, <1>2, <1>4, SameDid
<1> QED
  BY <1>5 DEF a, d

LEMMA ThenKeeps ==
  ASSUME NEW s
  PROVE  Then(Bits(s), Keeps) = Bits(s)
<1>1. Fits(s, {}, {})
  BY DEF Fits
<1>2. Then(Bits(s), Keeps) = Bits(After(s, {}, {}))
  BY <1>1, ThenIsAfter, SinglesAreBits
<1>3. After(s, {}, {}).held = s.held /\ After(s, {}, {}).freed = s.freed
  BY DEF After
<1>4. \A l \in Lock : Bits(After(s, {}, {})).net[l] = Bits(s).net[l] /\ Bits(After(s, {}, {})).needs[l] = Bits(s).needs[l]
  BY <1>3, BitsAre
<1>5. Bits(s) \in Did /\ Bits(After(s, {}, {})) \in Did
  BY BitsAre
<1> QED
  BY <1>2, <1>4, <1>5, SameDid

-----------------------------------------------------------------------------
(***************************************************************************)
(* Steady helpers and those they call.                                     *)
(***************************************************************************)
Backs(t) == [g \in DOMAIN t.helpers |-> Steady(t, g).back]

\* In this book the helpers `good` of t come back with what they do.
Comes(t, known, good) == \A h \in good : known[h].returns \subseteq {Bits(Steady(t, h).back)}

\* Helper h calls these alone, and what it calls in a try range leaves the locks alone if it throws.
Calls(t, h, known, good) ==
  \A i \in 1 .. Len(t.helpers[h].insns) :
    /\ t.helpers[h].insns[i].op = "Call" => t.helpers[h].insns[i].callee \in good
    /\ HandlersOf(t.helpers[h], i) # {} => Throwing(t.helpers[h].insns[i], known) \subseteq {Keeps}

LEMMA BackIsDealt ==
  ASSUME NEW t \in Methods, NEW h \in DOMAIN t.helpers
  PROVE  /\ Steady(t, h).back = Dealt(Steady(t, h).back.held, Steady(t, h).back.freed)
         /\ Backs(t)[h] = Steady(t, h).back
         /\ IsDone(Steady(t, h).back) /\ \A i \in 1 .. Len(t.helpers[h].insns) : IsDone(Steady(t, h).at[i])
BY SteadyAssumption DEF IsDone, Dealt, Backs

\* A completing instruction of a steady helper does one thing.
LEMMA SteadyInsn ==
  ASSUME NEW t \in Methods, NEW h \in DOMAIN t.helpers, NEW known, NEW good, good \subseteq DOMAIN t.helpers,
         Comes(t, known, good), Calls(t, h, known, good), IsSteady(t.helpers[h], Steady(t, h), Backs(t)),
         NEW i \in 1 .. Len(t.helpers[h].insns), NEW d \in Completing(t.helpers[h].insns[i], known)
  PROVE  d = Bits(Dealt(Takes(t.helpers[h].insns[i], Backs(t)), Frees(t.helpers[h].insns[i], Backs(t))))
<1> DEFINE insn == t.helpers[h].insns[i]
<1>1. IsInsn(insn) /\ insn.op # "TryAcquire" /\ (insn.op = "Call" => insn.callee \in good)
  BY MethodsAssumption DEF IsMethod, IsBody, IsSteady, Calls
<1> HIDE DEF insn
<1>2. CASE insn.op \in {"Enter", "Acquire"}
  <2>1. insn.lock \in Lock /\ Completing(insn, known) = {Gains(insn.lock)} /\ Takes(insn, Backs(t)) = {insn.lock} /\ Frees(insn, Backs(t)) = {}
    BY <1>1, <1>2 DEF IsInsn, LockOps, Completing, Takes, Frees
  <2> QED
    BY <2>1, SinglesAreBits DEF insn
<1>3. CASE insn.op \in {"Exit", "Release"}
  <2>1. insn.lock \in Lock /\ Completing(insn, known) = {Loses(insn.lock)} /\ Takes(insn, Backs(t)) = {} /\ Frees(insn, Backs(t)) = {insn.lock}
    BY <1>1, <1>3 DEF IsInsn, LockOps, Completing, Takes, Frees
  <2> QED
    BY <2>1, SinglesAreBits DEF insn
<1>4. CASE insn.op = "Call"
  <2>1. insn.callee \in DOMAIN t.helpers /\ Completing(insn, known) = known[insn.callee].returns
    BY <1>1, <1>4 DEF Completing
  <2>2. Backs(t)[insn.callee] = Steady(t, insn.callee).back
    BY <2>1, BackIsDealt
  <2>3. Takes(insn, Backs(t)) = Steady(t, insn.callee).back.held /\ Frees(insn, Backs(t)) = Steady(t, insn.callee).back.freed
    BY <1>4, <2>2 DEF Takes, Frees
  <2>4. d = Bits(Steady(t, insn.callee).back)
    BY <1>1, <1>4, <2>1 DEF Comes, insn
  <2>5. Steady(t, insn.callee).back = Dealt(Steady(t, insn.callee).back.held, Steady(t, insn.callee).back.freed)
    BY <2>1, BackIsDealt
  <2> QED
    BY <2>3, <2>4, <2>5 DEF insn
<1>5. CASE insn.op \notin LockOps \cup {"Call"}
  <2>1. Completing(insn, known) = {Keeps} /\ Takes(insn, Backs(t)) = {} /\ Frees(insn, Backs(t)) = {}
    BY <1>5 DEF LockOps, Completing, Takes, Frees
  <2> QED
    BY <2>1, SinglesAreBits DEF insn
<1> QED
  BY <1>1, <1>2, <1>3, <1>4, <1>5 DEF LockOps

\* Where an execution of a steady helper is tells what it has done.
LEMMA SteadyEnds ==
  ASSUME NEW t \in Methods, NEW h \in DOMAIN t.helpers, NEW known \in Book(DOMAIN t.helpers), NEW good,
         good \subseteq DOMAIN t.helpers, Comes(t, known, good), Calls(t, h, known, good),
         IsSteady(t.helpers[h], Steady(t, h), Backs(t))
  PROVE  Ends(Reach(t.helpers[h], known)).returns \subseteq {Bits(Steady(t, h).back)}
<1> DEFINE b == t.helpers[h]
           s == Steady(t, h)
           S == {x \in Place(b) : /\ x.at > 0 => x.did = Bits(s.at[x.at])
                                  /\ x.at = 0 => x.did = Bits(s.back)}
<1>1. IsBody(b, DOMAIN t.helpers) /\ 1 \in 1 .. Len(b.insns)
  <2>1. IsBody(b, DOMAIN t.helpers)
    BY MethodsAssumption DEF IsMethod
  <2> HIDE DEF b
  <2> QED
    BY <2>1 DEF IsBody
<1>2. Begun \in S
  <2>1. s.at[1] = Nothing
    BY DEF IsSteady
  <2>2. Begun \in Place(b)
    BY <1>1, SingleDid DEF Place, Begun
  <2>3. Begun.at = 1 /\ Begun.did = Keeps
    BY DEF Begun
  <2>4. Begun.did = Bits(s.at[Begun.at])
    BY <2>1, <2>3, SinglesAreBits
  <2> HIDE DEF b, s
  <2> QED
    BY <2>2, <2>3, <2>4
<1>3. ASSUME NEW x \in S \cap Place(b), x.at > 0, NEW y \in Onward(b, known, x) PROVE y \in S
  <2> DEFINE i == x.at
             insn == b.insns[i]
  <2>1. i \in 1 .. Len(b.insns) /\ x.did = Bits(s.at[i])
    BY <1>3 DEF Place, Gone
  <2>2. y \in Place(b)
    BY <1>1, <1>3, OnwardIsPlace
  <2>3. CASE \E d \in Completing(insn, known) : y = [at |-> y.at, did |-> Then(x.did, d)] /\ y.at \in NextOf(b, i)
    <3>1. PICK d \in Completing(insn, known) : y = [at |-> y.at, did |-> Then(x.did, d)] /\ y.at \in NextOf(b, i)
      BY <2>3
    <3>2. d = Bits(Dealt(Takes(insn, Backs(t)), Frees(insn, Backs(t))))
      BY <2>1, SteadyInsn
    <3>3. Fits(s.at[i], Takes(insn, Backs(t)), Frees(insn, Backs(t)))
      BY <2>1 DEF IsSteady
    <3>4. y.did = Bits(After(s.at[i], Takes(insn, Backs(t)), Frees(insn, Backs(t))))
      <4>1. y.did = Then(x.did, d)
        BY <3>1
      <4> QED
        BY <2>1, <3>2, <3>3, <4>1, ThenIsAfter
    <3>5. CASE y.at = 0
      <4>1. insn.op = "Return"
        BY <3>1, <3>5 DEF NextOf
      <4>2. d = Keeps
        BY <4>1 DEF Completing
      <4>3. y.did = Then(x.did, Keeps)
        BY <3>1, <4>2
      <4>4. y.did = Bits(s.at[i]) /\ s.at[i] = s.back
        BY <2>1, <4>1, <4>3, ThenKeeps DEF IsSteady
      <4> QED
        BY <2>2, <3>5, <4>4
    <3>6. CASE y.at # 0
      <4>1. s.at[y.at] = After(s.at[i], Takes(insn, Backs(t)), Frees(insn, Backs(t)))
        BY <2>1, <3>1, <3>6 DEF IsSteady
      <4> QED
        BY <2>2, <3>4, <3>6, <4>1
    <3> QED
      BY <3>5, <3>6
  <2>4. CASE \E d \in Throwing(insn, known) : y = [at |-> y.at, did |-> Then(x.did, d)] /\ y.at \in HandlersOf(b, i) \cup {Gone}
    <3>1. PICK d \in Throwing(insn, known) : y = [at |-> y.at, did |-> Then(x.did, d)] /\ y.at \in HandlersOf(b, i) \cup {Gone}
      BY <2>4
    <3>2. CASE y.at = Gone
      <4>1. ~ (y.at > 0) /\ y.at # 0
        BY <3>2 DEF Gone
      <4> QED
        BY <2>2, <4>1
    <3>3. CASE y.at \in HandlersOf(b, i)
      <4>1. d = Keeps
        BY <2>1, <3>1, <3>3 DEF Calls
      <4>2. y.did = Bits(s.at[i])
        <5>1. y.did = Then(x.did, d)
          BY <3>1
        <5> QED
          BY <2>1, <4>1, <5>1, ThenKeeps
      <4>3. s.at[y.at] = s.at[i]
        BY <2>1, <3>3 DEF IsSteady
      <4>4. y.at # 0
        BY <1>1, <3>3 DEF HandlersOf
      <4> QED
        BY <2>2, <4>2, <4>3, <4>4
    <3> QED
      BY <3>1, <3>2, <3>3
  <2> QED
    BY <1>3, <2>3, <2>4, OnwardIs
<1> HIDE DEF S, b
<1>4. \A x \in S \cap Place(b) : x.at > 0 => Onward(b, known, x) \subseteq S
  BY <1>3
<1>5. Reach(b, known) \subseteq S \cap Place(b)
  BY <1>1, <1>2, <1>4, ReachInduction
<1>6. ASSUME NEW d \in Ends(Reach(b, known)).returns PROVE d = Bits(s.back)
  <2>1. PICK x \in Reach(b, known) : x.at = 0 /\ x.did = d
    BY EndsAre
  <2> QED
    BY <1>5, <2>1 DEF S
<1> QED
  BY <1>6 DEF b

\* Deeper executions come to more.
LEMMA DeepGrows ==
  ASSUME NEW t \in Methods, NEW g, IsDeep(g, t)
  PROVE  \A n \in 0 .. MaxCalls : Below(g[n], Runs(t), DOMAIN t.helpers)
<1> DEFINE hs == DOMAIN t.helpers
<1>1. MaxCalls \in Nat
  BY BoundsAssumption
<1>2. /\ g[0] = Blank(hs) /\ Runs(t) = g[MaxCalls]
      /\ \A n \in 1 .. MaxCalls : g[n] = Deeper(t, g[n - 1])
      /\ \A n \in 0 .. MaxCalls : g[n] \in Book(hs)
  BY DEF IsDeep
<1>3. \A h \in hs : IsBody(t.helpers[h], hs)
  BY MethodsAssumption DEF IsMethod
<1> HIDE DEF hs
<1> DEFINE Grows == {n \in 0 .. MaxCalls : n = MaxCalls \/ Below(g[n], g[n + 1], hs)}
           Lesser(n) == Below(g[MaxCalls - n], g[MaxCalls], hs)
           Low == {n \in 0 .. MaxCalls : Lesser(n)}
<1>4. 0 \in Grows
  <2>1. Below(g[0], g[1], hs)
    BY <1>2 DEF Below, Blank
  <2> QED
    BY <1>1, <2>1
<1>5. ASSUME NEW n \in Grows, n \in 0 .. MaxCalls - 1 PROVE n + 1 \in Grows
  <2>1. SUFFICES ASSUME n + 1 # MaxCalls PROVE Below(g[n + 1], g[(n + 1) + 1], hs)
    BY <1>1, <1>5
  <2>2. Below(g[n], g[n + 1], hs)
    BY <1>1, <1>5
  <2>3. n + 1 \in 1 .. MaxCalls /\ (n + 1) - 1 = n /\ (n + 1) + 1 \in 1 .. MaxCalls /\ ((n + 1) + 1) - 1 = n + 1 /\ n + 1 \in 0 .. MaxCalls
    BY <1>1, <1>5, <2>1
  <2>4. g[n + 1] = Deeper(t, g[n]) /\ g[(n + 1) + 1] = Deeper(t, g[n + 1])
    BY <1>2, <2>3
  <2>5. g[n] \in Book(hs) /\ g[n + 1] \in Book(hs)
    BY <1>2, <1>5, <2>3
  <2>6. ASSUME NEW h \in hs
        PROVE  g[n + 1][h].returns \subseteq g[(n + 1) + 1][h].returns /\ g[n + 1][h].throws \subseteq g[(n + 1) + 1][h].throws
    <3>1. Reach(t.helpers[h], g[n]) \subseteq Reach(t.helpers[h], g[n + 1])
      BY <1>3, <2>2, <2>5, <2>6, ReachGrows
    <3>2. g[n + 1][h] = Ends(Reach(t.helpers[h], g[n])) /\ g[(n + 1) + 1][h] = Ends(Reach(t.helpers[h], g[n + 1]))
      BY <2>4, <2>6 DEF Deeper, hs
    <3> QED
      BY <3>1, <3>2 DEF Ends
  <2> QED
    BY <2>6 DEF Below
<1>6. 0 .. MaxCalls \subseteq Grows
  <2> HIDE DEF Grows
  <2> QED
    BY <1>1, <1>4, <1>5, IntervalInduction
<1>7. 0 \in Low
  BY <1>1 DEF Below
<1>8. ASSUME NEW n \in Low, n \in 0 .. MaxCalls - 1 PROVE n + 1 \in Low
  <2> DEFINE k == MaxCalls - (n + 1)
  <2>1. k \in 0 .. MaxCalls /\ k # MaxCalls /\ k + 1 = MaxCalls - n /\ n + 1 \in 0 .. MaxCalls
    BY <1>1, <1>8
  <2>2. Below(g[MaxCalls - n], g[MaxCalls], hs)
    BY <1>8
  <2> HIDE DEF k
  <2>3. Below(g[k], g[k + 1], hs)
    BY <1>6, <2>1
  <2>4. Below(g[k], g[MaxCalls], hs)
    BY <2>1, <2>2, <2>3 DEF Below
  <2> QED
    BY <2>1, <2>4 DEF k
<1>9. 0 .. MaxCalls \subseteq Low
  <2> HIDE DEF Low
  <2> QED
    BY <1>1, <1>7, <1>8, IntervalInduction
<1>10. ASSUME NEW n \in 0 .. MaxCalls PROVE Below(g[n], g[MaxCalls], hs)
  <2>1. MaxCalls - n \in 0 .. MaxCalls /\ MaxCalls - (MaxCalls - n) = n
    BY <1>1
  <2>2. Lesser(MaxCalls - n)
    BY <1>9, <2>1
  <2> QED
    BY <2>1, <2>2
<1> QED
  BY <1>2, <1>10 DEF hs
-----------------------------------------------------------------------------
(***************************************************************************)
(* The settled helpers: a recursive function, so that it is one has to be  *)
(* proved first.                                                           *)
(***************************************************************************)
Steadily(h) == IsSteady(top.helpers[h], Steady(top, h), Backs(top))

\* Helper h is steady and returns, and calls `good` alone.
Ready(h, good) == runs[h].returns # {} /\ Calls(top, h, runs, good) /\ Steadily(h)

LEMMA SettledSteps ==
  /\ Settled[0] = {}
  /\ \A n \in 1 .. MaxRounds : Settled[n] = {h \in DOMAIN top.helpers : Ready(h, Settled[n - 1])}
<1> DEFINE S == SUBSET DOMAIN top.helpers
           More(x) == {h \in DOMAIN top.helpers : Ready(h, x)}
           Row(g, n) ==
             IF n = 0 THEN {}
             ELSE {h \in DOMAIN top.helpers :
                     LET b == top.helpers[h]
                     IN  /\ runs[h].returns # {}
                         /\ \A i \in 1 .. Len(b.insns) :
                              /\ b.insns[i].op = "Call" => b.insns[i].callee \in g[n - 1]
                              /\ HandlersOf(b, i) # {} => Throwing(b.insns[i], runs) \subseteq {Keeps}
                         /\ IsSteady(b, Steady(top, h), [x \in DOMAIN top.helpers |-> Steady(top, x).back])}
           Is(g) == g = [n \in 0 .. MaxRounds |-> Row(g, n)]
           f == CHOOSE g : Is(g)
<1>1. MaxRounds \in Nat /\ 0 \in Nat /\ 0 <= MaxRounds
  BY BoundsAssumption
<1>2. {} \in S /\ \A x \in S : More(x) \in S
  OBVIOUS
<1>3. \A g, n : /\ n = 0 => Row(g, n) = {}
                /\ n # 0 => Row(g, n) = More(g[n - 1])
  BY DEF Ready, Calls, Steadily, Backs
<1>4. Settled = f
  BY DEF Settled
<1> HIDE DEF More, S, Row
<1>5. PICK k \in [0 .. MaxRounds -> S] : k[0] = {} /\ \A n \in 1 .. MaxRounds : k[n] = More(k[n - 1])
  <2> DEFINE step == [n \in 1 .. MaxRounds |-> [x \in S |-> More(x)]]
  <2>1. Steps(step, S, 0, MaxRounds)
    BY <1>1, <1>2 DEF Steps
  <2>2. ASSUME NEW g \in [0 .. MaxRounds -> S], NEW n \in 1 .. MaxRounds
        PROVE  step[n][g[n - 1]] = More(g[n - 1])
    <3>1. g[n - 1] \in S
      BY <1>1
    <3> QED
      BY <3>1
  <2> HIDE DEF step
  <2>3. PICK g : Trace(g, step, S, 0, MaxRounds, {})
    BY <1>1, <1>2, <2>1, IterationExists
  <2>4. g \in [0 .. MaxRounds -> S] /\ g[0] = {} /\ \A n \in 1 .. MaxRounds : g[n] = step[n][g[n - 1]]
    BY <2>3 DEF Trace
  <2> QED
    BY <1>1, <2>2, <2>4
<1>6. Is(f)
  <2>1. \A n \in 0 .. MaxRounds : n # 0 => n \in 1 .. MaxRounds
    BY <1>1
  <2>2. \A n \in 0 .. MaxRounds : k[n] = Row(k, n)
    BY <1>3, <1>5, <2>1
  <2>3. Is(k)
    BY <1>5, <2>2
  <2> HIDE DEF Is
  <2> QED
    BY <2>3
<1> HIDE DEF f
<1>7. Settled[0] = {}
  <2>1. 0 \in 0 .. MaxRounds
    BY <1>1
  <2> QED
    BY <1>3, <1>4, <1>6, <2>1
<1>8. ASSUME NEW n \in 1 .. MaxRounds PROVE Settled[n] = More(Settled[n - 1])
  <2>1. n \in 0 .. MaxRounds /\ n # 0
    BY <1>1
  <2> QED
    BY <1>3, <1>4, <1>6, <2>1
<1> HIDE DEF Is
<1> QED
  BY <1>7, <1>8 DEF More

LEMMA SettledIs ==
  ASSUME NEW n \in 0 .. MaxRounds
  PROVE  Settled[n] \subseteq DOMAIN top.helpers /\ \A h \in Settled[n] : Ready(h, Settled[n - 1]) /\ n # 0
<1>1. MaxRounds \in Nat
  BY BoundsAssumption
<1>2. CASE n = 0
  BY <1>2, SettledSteps
<1>3. CASE n # 0
  <2>1. n \in 1 .. MaxRounds
    BY <1>1, <1>3
  <2> QED
    BY <1>3, <2>1, SettledSteps
<1> QED
  BY <1>2, <1>3

\* A settled helper has one way to return.
LEMMA SettledReturns ==
  ASSUME top \in Methods, runs = Runs(top), NEW n \in 0 .. MaxRounds, NEW h \in Settled[n]
  PROVE  runs[h].returns = {Bits(Steady(top, h).back)}
<1> DEFINE hs == DOMAIN top.helpers
<1>1. PICK g : IsDeep(g, top)
  BY RunsSteps
<1>2. /\ g[0] = Blank(hs) /\ runs = g[MaxCalls]
      /\ \A c \in 1 .. MaxCalls : g[c] = Deeper(top, g[c - 1])
      /\ \A c \in 0 .. MaxCalls : g[c] \in Book(hs)
      /\ \A c \in 0 .. MaxCalls : Below(g[c], runs, hs)
  BY <1>1, DeepGrows DEF IsDeep
<1>3. MaxRounds \in Nat /\ MaxCalls \in Nat
  BY BoundsAssumption
<1> DEFINE Single(x) == \A c \in 0 .. MaxCalls : g[c][x].returns \subseteq {Bits(Steady(top, x).back)}
           Nice == {k \in 0 .. MaxRounds : \A x \in Settled[k] : Single(x)}
<1>4. 0 \in Nice
  BY <1>3, SettledSteps
<1>5. ASSUME NEW k \in Nice, k \in 0 .. MaxRounds - 1 PROVE k + 1 \in Nice
  <2>1. k + 1 \in 0 .. MaxRounds /\ (k + 1) - 1 = k /\ k \in 0 .. MaxRounds
    BY <1>3, <1>5
  <2>2. ASSUME NEW x \in Settled[k + 1], NEW c \in 0 .. MaxCalls PROVE g[c][x].returns \subseteq {Bits(Steady(top, x).back)}
    <3>1. x \in hs /\ Ready(x, Settled[k]) /\ Settled[k] \subseteq hs
      BY <2>1, SettledIs
    <3>2. CASE c = 0
      <4>1. g[c][x].returns = {}
        BY <1>2, <3>1, <3>2 DEF Blank
      <4> QED
        BY <4>1
    <3>3. CASE c # 0
      <4> DEFINE known == g[c - 1]
      <4>1. c \in 1 .. MaxCalls /\ c - 1 \in 0 .. MaxCalls
        BY <1>3, <3>3
      <4>2. known \in Book(hs) /\ Below(known, runs, hs) /\ g[c] = Deeper(top, known)
        BY <1>2, <4>1
      <4>3. Comes(top, known, Settled[k])
        BY <1>5, <4>1 DEF Comes
      <4> HIDE DEF known
      <4>4. Calls(top, x, known, Settled[k])
        <5> SUFFICES ASSUME NEW i \in 1 .. Len(top.helpers[x].insns)
                     PROVE  /\ top.helpers[x].insns[i].op = "Call" => top.helpers[x].insns[i].callee \in Settled[k]
                            /\ HandlersOf(top.helpers[x], i) # {} => Throwing(top.helpers[x].insns[i], known) \subseteq {Keeps}
          BY DEF Calls
        <5>1. /\ top.helpers[x].insns[i].op = "Call" => top.helpers[x].insns[i].callee \in Settled[k]
              /\ HandlersOf(top.helpers[x], i) # {} => Throwing(top.helpers[x].insns[i], runs) \subseteq {Keeps}
          BY <3>1 DEF Ready, Calls
        <5>2. Throwing(top.helpers[x].insns[i], known) \subseteq Throwing(top.helpers[x].insns[i], runs)
          BY <3>1, <4>2, <5>1, InsnGrows
        <5> QED
          BY <5>1, <5>2
      <4>5. Ends(Reach(top.helpers[x], known)).returns \subseteq {Bits(Steady(top, x).back)}
        BY <3>1, <4>2, <4>3, <4>4, SteadyEnds DEF Ready, Steadily
      <4>6. g[c][x] = Ends(Reach(top.helpers[x], known))
        BY <3>1, <4>2 DEF Deeper
      <4> QED
        BY <4>5, <4>6
    <3> QED
      BY <3>2, <3>3
  <2> QED
    BY <2>1, <2>2
<1>6. 0 .. MaxRounds \subseteq Nice
  <2> HIDE DEF Nice
  <2> QED
    BY <1>3, <1>4, <1>5, IntervalInduction
<1>7. Single(h)
  BY <1>6
<1>8. runs[h].returns \subseteq {Bits(Steady(top, h).back)}
  BY <1>2, <1>3, <1>7
<1>9. runs[h].returns # {}
  BY SettledIs DEF Ready
<1> QED
  BY <1>8, <1>9
-----------------------------------------------------------------------------
(***************************************************************************)
(* The dataflow over a steady helper.                                      *)
(***************************************************************************)
\* The dataflow has exactly this.
Fit(st, s) == Once(st) /\ Held(st) = s.held /\ st.unmatched = s.freed

\* The effect of a helper is what it does.
Known(h, e) == e.acquires = Steady(top, h).back.held /\ e.releases = Steady(top, h).back.freed

CallsKnown(h) ==
  \A i \in 1 .. Len(top.helpers[h].insns) :
    top.helpers[h].insns[i].op = "Call" => Known(top.helpers[h].insns[i].callee, eff[top.helpers[h].insns[i].callee])

\* The dataflow is run over helper h, which is steady and calls what is known.
Over(h) ==
  /\ top \in Methods /\ h \in DOMAIN top.helpers /\ m = HelperOf(top, h)
  /\ eff \in [DOMAIN m.helpers -> Effect]
  /\ Steadily(h) /\ CallsKnown(h)

LEMMA OverFacts ==
  ASSUME NEW h, Over(h)
  PROVE  /\ m \in Bodies /\ m.insns = top.helpers[h].insns /\ m.catches = top.helpers[h].catches /\ m.helpers = top.helpers
         /\ Size = Len(top.helpers[h].insns)
         /\ \A i : NextOf(m, i) = NextOf(top.helpers[h], i) /\ HandlersOf(m, i) = HandlersOf(top.helpers[h], i)
<1>1. m \in Bodies
  BY HelperIsBody DEF Over
<1>2. m.insns = top.helpers[h].insns /\ m.catches = top.helpers[h].catches /\ m.helpers = top.helpers
  BY DEF Over, HelperOf
<1> QED
  BY <1>1, <1>2 DEF Size, NextOf, HandlersOf

\* What an instruction does to a state.
LEMMA ApplyFits ==
  ASSUME NEW h, Over(h), NEW i \in 1 .. Size, NEW st \in State, Fit(st, Steady(top, h).at[i])
  PROVE  Fit(Apply(st, i), After(Steady(top, h).at[i], Takes(m.insns[i], Backs(top)), Frees(m.insns[i], Backs(top))))
<1> DEFINE s == Steady(top, h).at[i]
           insn == m.insns[i]
           takes == Takes(insn, Backs(top))
           frees == Frees(insn, Backs(top))
<1>1. m \in Bodies /\ i \in 1 .. Len(top.helpers[h].insns) /\ insn = top.helpers[h].insns[i] /\ m.helpers = top.helpers
  BY OverFacts
<1>2. IsInsn(insn) /\ m.lines[i] \in Nat /\ (insn.op = "Call" => insn.callee \in DOMAIN top.helpers)
  BY <1>1, MethodFacts DEF Op
<1>3. /\ insn.op # "TryAcquire" /\ (insn.op \in LockOps => insn.named) /\ (insn.op = "Exit" => insn.lock \in s.held)
      /\ Fits(s, takes, frees)
  BY <1>1 DEF Over, Steadily, IsSteady
<1>4. After(s, takes, frees).held = (s.held \ frees) \cup takes /\ After(s, takes, frees).freed = s.freed \cup (frees \ s.held)
  BY DEF After
<1>5. Once(st) /\ Held(st) = s.held /\ st.unmatched = s.freed
  BY DEF Fit
<1>6. Op(i) = insn.op
  BY DEF Op
<1> HIDE DEF s, insn, takes, frees
<1>7. CASE insn.op \in {"Enter", "Acquire"}
  <2>1. insn.lock \in Lock /\ insn.named /\ takes = {insn.lock} /\ frees = {}
    BY <1>2, <1>3, <1>7 DEF IsInsn, LockOps, Takes, Frees, takes, frees
  <2>2. Apply(st, i) = Push(st, <<insn.lock>>, m.lines[i])
    BY <1>7, <2>1 DEF Apply, Operand, insn
  <2>3. <<insn.lock>> \in Seq(Item) /\ IsInjective(<<insn.lock>>) /\ Len(<<insn.lock>>) = 1
    BY <2>1 DEF Item, IsInjective
  <2>4. insn.lock \notin Held(st)
    BY <1>3, <1>5, <2>1 DEF Fits
  <2>5. \A k \in 1 .. Len(<<insn.lock>>) : <<insn.lock>>[k] \notin Held(st)
    BY <2>3, <2>4
  <2>6. Once(Push(st, <<insn.lock>>, m.lines[i]))
    BY <1>2, <1>5, <2>3, <2>5, PushKeepsOnce
  <2>7. /\ Held(Push(st, <<insn.lock>>, m.lines[i])) = Held(st) \cup {<<insn.lock>>[k] : k \in 1 .. Len(<<insn.lock>>)}
        /\ Push(st, <<insn.lock>>, m.lines[i]).unmatched = st.unmatched
    BY <1>2, <2>3, PushAdds
  <2>8. {<<insn.lock>>[k] : k \in 1 .. Len(<<insn.lock>>)} = {insn.lock}
    BY <2>3
  <2> QED
    BY <1>4, <1>5, <2>1, <2>2, <2>6, <2>7, <2>8 DEF Fit, s, insn, takes, frees
<1>8. CASE insn.op = "Exit"
  <2>1. insn.named /\ takes = {} /\ frees = {insn.lock} /\ insn.lock \in s.held
    BY <1>3, <1>8 DEF LockOps, Takes, Frees, takes, frees
  <2>2. Apply(st, i) = Pop(st, {insn.lock})
    BY <1>8, <2>1 DEF Apply, insn
  <2>3. /\ Pop(st, {insn.lock}).locks \subseteq st.locks /\ Pop(st, {insn.lock}).unmatched = st.unmatched
        /\ Held(Pop(st, {insn.lock})) = Held(st) \ {insn.lock}
    BY <1>5, PopDrops
  <2>4. Once(Pop(st, {insn.lock}))
    BY <1>5, <2>3, FewerHeld
  <2> QED
    <3>1. After(s, takes, frees).held = Held(st) \ {insn.lock} /\ After(s, takes, frees).freed = st.unmatched
      BY <1>4, <1>5, <2>1
    <3>2. Fit(Apply(st, i), After(s, takes, frees))
      BY <2>2, <2>3, <2>4, <3>1 DEF Fit
    <3> QED
      BY <3>2 DEF s, insn, takes, frees
<1>9. CASE insn.op = "Release"
  <2>1. insn.named /\ takes = {} /\ frees = {insn.lock} /\ insn.lock \in Lock
    BY <1>2, <1>3, <1>9 DEF IsInsn, LockOps, Takes, Frees, takes, frees
  <2>2. Apply(st, i) = Release(st, {insn.lock})
    BY <1>9, <2>1 DEF Apply, insn
  <2>3. /\ Release(st, {insn.lock}).locks \subseteq st.locks
        /\ Release(st, {insn.lock}).unmatched = st.unmatched \cup ({insn.lock} \ Held(st))
        /\ Held(Release(st, {insn.lock})) = Held(st) \ {insn.lock}
    BY <1>5, <2>1, ReleaseDrops
  <2>4. Once(Release(st, {insn.lock}))
    BY <1>5, <2>3, FewerHeld
  <2>5. After(s, takes, frees).held = Held(st) \ {insn.lock} /\ After(s, takes, frees).freed = st.unmatched \cup ({insn.lock} \ Held(st))
    BY <1>4, <1>5, <2>1
  <2>6. Fit(Apply(st, i), After(s, takes, frees))
    BY <2>2, <2>3, <2>4, <2>5 DEF Fit
  <2> QED
    BY <2>6 DEF s, insn, takes, frees
<1>10. CASE insn.op = "Call"
  <2> DEFINE e == eff[insn.callee]
  <2>1. e \in Effect
    BY <1>1, <1>2, <1>10 DEF Over
  <2>2. Backs(top)[insn.callee] = Steady(top, insn.callee).back
    BY <1>2, <1>10 DEF Backs
  <2>3. takes = e.acquires /\ frees = e.releases
    <3>1. Known(insn.callee, e)
      BY <1>1, <1>10 DEF Over, CallsKnown, insn
    <3> QED
      BY <1>10, <2>2, <3>1 DEF Known, Takes, Frees, takes, frees
  <2>4. Apply(st, i) = Returned(st, e, m.lines[i])
    BY <1>10 DEF Apply, insn
  <2> HIDE DEF e
  <2>5. e.acquires \cap (Held(st) \ e.releases) = {}
    BY <1>3, <1>5, <2>3 DEF Fits
  <2>6. /\ Returned(st, e, m.lines[i]).unmatched = st.unmatched \cup (e.releases \ Held(st))
        /\ Held(Returned(st, e, m.lines[i])) = (Held(st) \ e.releases) \cup e.acquires
        /\ Once(Returned(st, e, m.lines[i]))
    BY <1>2, <1>5, <2>1, <2>5, ReturnedDoes
  <2> QED
    BY <1>4, <1>5, <2>3, <2>4, <2>6 DEF Fit, s, insn, takes, frees
<1>11. CASE insn.op \notin LockOps \cup {"Call"}
  <2>1. Apply(st, i) = st /\ takes = {} /\ frees = {}
    BY <1>11 DEF Apply, LockOps, Takes, Frees, takes, frees, insn
  <2> QED
    BY <1>4, <1>5, <2>1 DEF Fit, s, insn, takes, frees
<1> QED
  BY <1>3, <1>7, <1>8, <1>9, <1>10, <1>11 DEF LockOps

\* Within a block, the next instruction is the only one to follow.
LEMMA InsideIsNext ==
  ASSUME m \in Bodies, NEW b \in Blocks, NEW i \in b .. Size, i + 1 < End(b)
  PROVE  i + 1 \in NextOf(m, i)
<1>1. Size \in Nat /\ b \in 1 .. Size
  BY MethodFacts, LeadersAreNumbers
<1>2. End(b) \in b + 1 .. Size + 1 /\ \A l \in Leaders : l > b => End(b) <= l
  BY <1>1, EndIsNextLeader
<1>3. i + 1 \notin Leaders
  BY <1>1, <1>2
<1>4. i \in 1 .. Size /\ i + 1 \in 1 .. Size
  BY <1>1, <1>2
<1>5. Op(i) \notin Jumps \cup {"Return", "Throw"}
  BY <1>3, <1>4 DEF Leaders
<1> QED
  BY <1>4, <1>5 DEF NextOf, Size, Op, Jumps

LEMMA SuccessorIsNext ==
  ASSUME m \in Bodies, NEW b \in Blocks, NEW j \in Succ(b)
  PROVE  j \in NextOf(m, End(b) - 1) /\ j # 0
<1>1. Size \in Nat /\ Blocks \subseteq 1 .. Size
  BY MethodFacts, LeadersAreNumbers
<1>2. End(b) \in b + 1 .. Size + 1
  BY <1>1, EndIsNextLeader
<1>3. (End(b) - 1) + 1 = End(b)
  BY <1>1, <1>2
<1>4. j \in Blocks /\ j \in 1 .. Size /\ j # 0
  <2>1. j \in Blocks
    BY EdgesStayInside
  <2>2. j \in 1 .. Size
    BY <1>1, <2>1
  <2> QED
    BY <1>1, <2>1, <2>2
<1>5. CASE m.insns[End(b) - 1].op = "Goto"
  BY <1>4, <1>5 DEF Succ, NextOf, Size
<1>6. CASE m.insns[End(b) - 1].op \in {"Branch", "Switch"}
  BY <1>3, <1>4, <1>6 DEF Succ, Fall, NextOf, Size
<1>7. CASE m.insns[End(b) - 1].op \in {"Return", "Throw"}
  BY <1>7 DEF Succ
<1>8. CASE m.insns[End(b) - 1].op \notin {"Goto", "Branch", "Switch", "Return", "Throw"}
  BY <1>3, <1>4, <1>8 DEF Succ, Fall, NextOf, Size
<1> QED
  BY <1>5, <1>6, <1>7, <1>8

\* A handler of a block covers its first instruction.
LEMMA BlockIsCovered ==
  ASSUME m \in Bodies, NEW b \in Blocks, NEW j \in Exc(b)
  PROVE  j \in HandlersOf(m, b)
<1>1. Size \in Nat /\ Blocks \subseteq 1 .. Size
  BY MethodFacts, LeadersAreNumbers
<1>2. End(b) \in b + 1 .. Size + 1 /\ \A l \in Leaders : l > b => End(b) <= l
  BY <1>1, EndIsNextLeader
<1>3. PICK c \in m.catches : b < c[2] /\ End(b) > c[1] /\ c[3] = j /\ j \in Blocks
  BY DEF Exc
<1>4. c[1] \in Nat /\ c[2] \in Nat /\ c[1] \in Leaders
  BY MethodFacts DEF Leaders
<1>5. c[1] <= b
  BY <1>1, <1>2, <1>3, <1>4
<1>6. j \in 1 .. Size
  BY <1>1, <1>3
<1> QED
  BY <1>3, <1>5, <1>6 DEF HandlersOf, Size

LEMMA BeforeFits ==
  ASSUME NEW h, Over(h), NEW b \in Blocks, NEW st \in State, Fit(st, Steady(top, h).at[b])
  PROVE  /\ \A i \in b .. End(b) - 1 : Fit(Before(b, st, i), Steady(top, h).at[i])
         /\ Fit(Out(b, st), After(Steady(top, h).at[End(b) - 1],
                                  Takes(m.insns[End(b) - 1], Backs(top)), Frees(m.insns[End(b) - 1], Backs(top))))
<1> DEFINE s == Steady(top, h)
           last == End(b) - 1
           Good == {i \in b .. last : Fit(Before(b, st, i), s.at[i])}
<1>1. m \in Bodies /\ eff \in [DOMAIN m.helpers -> Effect]
  BY OverFacts DEF Over
<1>2. Size \in Nat /\ b \in 1 .. Size
  BY <1>1, MethodFacts, LeadersAreNumbers
<1>3. End(b) \in b + 1 .. Size + 1
  BY <1>1, <1>2, EndIsNextLeader
<1>4. /\ Before(b, st, b) = st
      /\ \A i \in b .. Size : Before(b, st, i + 1) = Apply(Before(b, st, i), i)
      /\ \A i \in b .. Size + 1 : Before(b, st, i) \in State
  BY <1>1, <1>2, BeforeSteps
<1>5. last \in b .. Size /\ last + 1 = End(b) /\ b \in Nat /\ last \in Nat /\ b \in b .. last
  BY <1>2, <1>3
<1>6. b \in Good
  BY <1>4, <1>5
<1>7. ASSUME NEW i \in Good, i \in b .. last - 1 PROVE i + 1 \in Good
  <2>1. i \in 1 .. Size /\ i \in b .. Size /\ i \in b .. Size + 1 /\ i + 1 < End(b) /\ i + 1 \in b .. last /\ i + 1 # 0
    BY <1>2, <1>3, <1>5, <1>7
  <2>2. Fit(Apply(Before(b, st, i), i), After(s.at[i], Takes(m.insns[i], Backs(top)), Frees(m.insns[i], Backs(top))))
    BY <1>4, <1>7, <2>1, ApplyFits
  <2>3. i + 1 \in NextOf(m, i)
    BY <1>1, <2>1, InsideIsNext
  <2>4. i + 1 \in NextOf(top.helpers[h], i) \ {0} /\ i \in 1 .. Len(top.helpers[h].insns) /\ m.insns[i] = top.helpers[h].insns[i]
    BY <2>1, <2>3, OverFacts
  <2>5. s.at[i + 1] = After(s.at[i], Takes(m.insns[i], Backs(top)), Frees(m.insns[i], Backs(top)))
    BY <2>4 DEF Over, Steadily, IsSteady
  <2>6. Before(b, st, i + 1) = Apply(Before(b, st, i), i)
    BY <1>4, <2>1
  <2> QED
    BY <2>1, <2>2, <2>5, <2>6
<1>8. b .. last \subseteq Good
  <2> HIDE DEF Good, last
  <2> QED
    BY <1>5, <1>6, <1>7, IntervalInduction
<1>9. Fit(Apply(Before(b, st, last), last), After(s.at[last], Takes(m.insns[last], Backs(top)), Frees(m.insns[last], Backs(top))))
  <2>1. last \in 1 .. Size /\ last \in b .. Size + 1 /\ last \in b .. last
    BY <1>2, <1>5
  <2>2. Before(b, st, last) \in State /\ Fit(Before(b, st, last), s.at[last])
    BY <1>4, <1>8, <2>1
  <2> HIDE DEF last
  <2> QED
    BY <2>1, <2>2, ApplyFits
<1>10. Out(b, st) = Apply(Before(b, st, last), last)
  BY <1>4, <1>5 DEF Out
<1> QED
  BY <1>8, <1>9, <1>10

LEMMA EdgesFit ==
  ASSUME NEW h, Over(h), NEW b \in Blocks, b \in DOMAIN inn, inn[b] \in State, Fit(inn[b], Steady(top, h).at[b]),
         NEW e \in EdgesFrom(b)
  PROVE  Fit(e[2], Steady(top, h).at[e[1]])
<1> DEFINE s == Steady(top, h)
           last == End(b) - 1
<1>1. m \in Bodies
  BY OverFacts
<1>2. Size \in Nat /\ b \in 1 .. Size
  BY <1>1, MethodFacts, LeadersAreNumbers
<1>3. End(b) \in b + 1 .. Size + 1
  BY <1>1, <1>2, EndIsNextLeader
<1>4. last \in 1 .. Size
  BY <1>2, <1>3
<1>5. CASE e \in {<<j, Out(b, inn[b])>> : j \in Succ(b)}
  <2>1. PICK j \in Succ(b) : e = <<j, Out(b, inn[b])>>
    BY <1>5
  <2>2. j \in NextOf(m, last) /\ j # 0
    BY <1>1, SuccessorIsNext
  <2>3. j \in NextOf(top.helpers[h], last) \ {0} /\ last \in 1 .. Len(top.helpers[h].insns) /\ m.insns[last] = top.helpers[h].insns[last]
    BY <1>4, <2>2, OverFacts
  <2>4. s.at[j] = After(s.at[last], Takes(m.insns[last], Backs(top)), Frees(m.insns[last], Backs(top)))
    BY <2>3 DEF Over, Steadily, IsSteady
  <2>5. Fit(Out(b, inn[b]), s.at[j])
    BY <2>4, BeforeFits
  <2> QED
    BY <2>1, <2>5
<1>6. CASE e \in {<<j, inn[b]>> : j \in Exc(b)}
  <2>1. PICK j \in Exc(b) : e = <<j, inn[b]>>
    BY <1>6
  <2>2. j \in HandlersOf(top.helpers[h], b) /\ b \in 1 .. Len(top.helpers[h].insns)
    BY <1>1, <1>2, BlockIsCovered, OverFacts
  <2>3. s.at[j] = s.at[b]
    BY <2>2 DEF Over, Steadily, IsSteady
  <2> QED
    BY <2>1, <2>3
<1> QED
  BY <1>5, <1>6 DEF EdgesFrom

LEMMA MeetFits ==
  ASSUME NEW st \in State, NEW other \in State, NEW s, Fit(st, s), Fit(other, s)
  PROVE  Fit(Meet(st, other), s)
<1>1. {e \in st.locks : e.lock \in Held(other)} = st.locks
  BY DEF Fit, Held
<1>2. Meet(st, other) = [locks |-> st.locks, unmatched |-> s.freed]
  BY <1>1 DEF Meet, Fit
<1>3. Held(Meet(st, other)) = Held(st) /\ Meet(st, other).unmatched = s.freed /\ Meet(st, other).locks = st.locks
  BY <1>2 DEF Held
<1> QED
  BY <1>3 DEF Fit, Once
-----------------------------------------------------------------------------
(***************************************************************************)
(* The effects: a helper that is steady and calls what is known, and       *)
(* returns, is known when its turn is over.                                *)
(***************************************************************************)
Grounded(h) == Steadily(h) /\ CallsKnown(h)

Fitting(h) ==
  /\ \A b \in DOMAIN inn : Fit(inn[b], Steady(top, h).at[b])
  /\ \A e \in edges : Fit(e[2], Steady(top, h).at[e[1]])

HelperInv == phase = "helper" /\ Grounded(Turn) => Fitting(Turn)

Seeking == phase \in {"effects", "helper"}

Answered ==
  Seeking => \A h \in DOMAIN top.helpers \ todo : Grounded(h) /\ runs[h].returns # {} => Known(h, next[h])

KnownTo(n) == \A h \in Settled[n] : Known(h, eff[h])

RoundsKnown == (Seeking => KnownTo(round)) /\ (~ Seeking => KnownTo(MaxRounds))

EffectsInv == runs = Runs(top) /\ HelperInv /\ Answered /\ RoundsKnown

LEMMA TurnIsOver ==
  ASSUME TypeOK, phase = "helper", Grounded(Turn)
  PROVE  Over(Turn) /\ Turn \in todo /\ Turn \in DOMAIN top.helpers
<1>1. top \in Methods /\ todo # {} /\ m = HelperOf(top, Turn) /\ todo \subseteq DOMAIN m.helpers /\ m.helpers = top.helpers
      /\ eff \in [DOMAIN m.helpers -> Effect]
  BY DEF TypeOK
<1>2. Turn \in todo
  BY <1>1 DEF Turn
<1> QED
  BY <1>1, <1>2 DEF Over, Grounded

LEMMA ReturnIsReached ==
  ASSUME FlowInv, runs = Runs(top), phase = "helper", work = <<>>, edges = {}, runs[Turn].returns # {}
  PROVE  Returns # {}
<1> DEFINE h == Turn
           b == top.helpers[h]
           hs == DOMAIN top.helpers
<1>1. top \in Methods /\ m = HelperOf(top, h) /\ h \in hs /\ m \in Bodies /\ DOMAIN inn \subseteq Blocks
  BY DEF FlowInv, TypeOK, Turn
<1> HIDE DEF h
<1>2. m.insns = b.insns /\ m.catches = b.catches /\ Size = Len(b.insns) /\ IsBody(b, hs)
  <2>1. m.insns = b.insns /\ m.catches = b.catches
    BY <1>1 DEF HelperOf
  <2>2. IsBody(b, hs)
    BY <1>1, MethodsAssumption DEF IsMethod
  <2> QED
    BY <2>1, <2>2 DEF Size
<1>3. \A i : NextOf(b, i) = NextPc(i) /\ HandlersOf(b, i) = HandlersOf(m, i)
  BY <1>2 DEF NextOf, NextPc, HandlersOf
<1> DEFINE S == {x \in Place(b) : /\ x.at > 0 => BlockOf(x.at) \in DOMAIN inn
                                  /\ x.at = 0 => Returns # {}}
<1>4. Size \in Nat \ {0} /\ Blocks \subseteq 1 .. Size /\ 1 \in Blocks /\ 1 \in DOMAIN inn
  BY <1>1, MethodFacts, LeadersAreNumbers DEF FlowInv, Entering
<1> HIDE DEF b
<1>5. Begun \in S
  <2>1. Begun.at = 1 /\ Begun \in Place(b)
    BY <1>2, <1>4, SingleDid DEF Begun, Place
  <2>2. BlockOf(1) = 1
    BY <1>1, <1>4, BlockOfLeader
  <2> QED
    BY <1>4, <2>1, <2>2
<1>6. ASSUME NEW known \in Book(hs), NEW x \in S \cap Place(b), x.at > 0, NEW y \in Onward(b, known, x) PROVE y \in S
  <2> DEFINE i == x.at
  <2>1. i \in 1 .. Size /\ BlockOf(i) \in DOMAIN inn
    BY <1>2, <1>6 DEF Place, Gone
  <2>2. y \in Place(b)
    BY <1>2, <1>6, OnwardIsPlace
  <2> HIDE DEF i
  <2>3. CASE y.at \in NextPc(i) /\ y.at # 0
    <3>1. /\ y.at \in 1 .. Size
          /\ BlockOf(y.at) = BlockOf(i) \/ y.at \in Succ(BlockOf(i))
      BY <1>1, <2>1, <2>3, NextIsSuccessor
    <3>2. CASE BlockOf(y.at) = BlockOf(i)
      BY <2>1, <2>2, <2>3, <3>2
    <3>3. CASE y.at \in Succ(BlockOf(i))
      <4>1. <<y.at, Out(BlockOf(i), inn[BlockOf(i)])>> \in EdgesFrom(BlockOf(i))
        BY <3>3 DEF EdgesFrom
      <4>2. y.at \in DOMAIN inn
        BY <2>1, <4>1, DoneIsClosed DEF Under
      <4>3. BlockOf(y.at) = y.at
        BY <1>1, <4>2, BlockOfLeader
      <4> QED
        BY <2>2, <2>3, <4>2, <4>3
    <3> QED
      BY <3>1, <3>2, <3>3
  <2>4. CASE y.at \in NextPc(i) /\ y.at = 0
    <3>1. Op(i) = "Return"
      BY <1>4, <2>4 DEF NextPc, NextOf, Op
    <3>2. i + 1 \in Leaders
      BY <2>1, <3>1 DEF Leaders
    <3>3. BlockOf(i) \in 1 .. Size /\ BlockOf(i) <= i /\ i < End(BlockOf(i))
      BY <1>1, <1>4, <2>1, BlockOfIsGreatest
    <3>4. End(BlockOf(i)) <= i + 1 /\ End(BlockOf(i)) \in Int
      BY <1>1, <1>4, <2>1, <3>2, <3>3, EndIsNextLeader
    <3>5. End(BlockOf(i)) - 1 = i
      BY <2>1, <3>3, <3>4
    <3>6. BlockOf(i) \in Returns
      BY <2>1, <3>1, <3>5 DEF Returns
    <3> QED
      BY <2>2, <2>4, <3>6
  <2>5. CASE y.at \in HandlersOf(m, i)
    <3>1. PICK c \in m.catches : c[1] <= i /\ i < c[2] /\ c[3] = y.at /\ y.at \in 1 .. Size
      BY <2>5 DEF HandlersOf, Size
    <3>2. y.at \in Exc(BlockOf(i))
      BY <1>1, <2>1, <3>1, HandlerIsHandler
    <3>3. <<y.at, inn[BlockOf(i)]>> \in EdgesFrom(BlockOf(i))
      BY <3>2 DEF EdgesFrom
    <3>4. y.at \in DOMAIN inn
      BY <2>1, <3>3, DoneIsClosed DEF Under
    <3>5. BlockOf(y.at) = y.at
      BY <1>1, <3>4, BlockOfLeader
    <3>6. y.at # 0
      BY <1>4, <3>1
    <3> QED
      BY <2>2, <3>4, <3>5, <3>6
  <2>6. CASE y.at = Gone
    <3>1. ~ (y.at > 0) /\ y.at # 0
      BY <2>6 DEF Gone
    <3> QED
      BY <2>2, <3>1
  <2>7. y.at \in NextOf(b, i) \/ y.at \in HandlersOf(b, i) \cup {Gone}
    BY <1>6, OnwardIs DEF i
  <2> QED
    BY <1>3, <2>3, <2>4, <2>5, <2>6, <2>7
<1>7. PICK g : IsDeep(g, top)
  BY <1>1, RunsSteps
<1> DEFINE known == g[MaxCalls - 1]
<1>8. known \in Book(hs) /\ runs = Deeper(top, known)
  <2>1. MaxCalls \in 1 .. MaxCalls /\ MaxCalls - 1 \in 0 .. MaxCalls
    BY BoundsAssumption
  <2> QED
    BY <1>7, <2>1 DEF IsDeep
<1> HIDE DEF S, known
<1>9. Reach(b, known) \subseteq S \cap Place(b)
  <2>1. \A x \in S \cap Place(b) : x.at > 0 => Onward(b, known, x) \subseteq S
    BY <1>6, <1>8
  <2> QED
    BY <1>2, <1>5, <1>8, <2>1, ReachInduction
<1>10. runs[h] = Ends(Reach(b, known))
  BY <1>1, <1>8 DEF Deeper, b
<1>11. PICK x \in Reach(b, known) : x.at = 0
  <2>1. runs[h].returns # {}
    BY DEF h
  <2> QED
    BY <1>10, <2>1, EndsAre
<1> QED
  BY <1>9, <1>11 DEF S

\* The effect found of the helper whose turn it is.
LEMMA TurnIsKnown ==
  ASSUME FlowInv, EffectsInv, Solved, Grounded(Turn), runs[Turn].returns # {}
  PROVE  Known(Turn, NetEffect)
<1> DEFINE h == Turn
           back == Steady(top, h).back
           outs == {Out(b, inn[b]) : b \in Returns}
<1>1. phase = "helper" /\ edges = {} /\ work = <<>> /\ TypeOK /\ runs = Runs(top)
  BY DEF Solved, FlowInv, EffectsInv
<1>2. Over(h) /\ h \in DOMAIN top.helpers /\ top \in Methods
  BY <1>1, TurnIsOver DEF TypeOK
<1>3. Fitting(h)
  BY <1>1 DEF EffectsInv, HelperInv
<1>4. Returns # {}
  BY <1>1, ReturnIsReached
<1> HIDE DEF h
<1>5. ASSUME NEW b \in Returns PROVE Held(Out(b, inn[b])) = back.held /\ Out(b, inn[b]).unmatched = back.freed
  <2> DEFINE last == End(b) - 1
             s == Steady(top, h)
  <2>1. b \in DOMAIN inn /\ b \in Blocks /\ inn[b] \in State /\ Op(last) = "Return" /\ m \in Bodies
    BY <1>1 DEF Returns, TypeOK
  <2>2. Fit(inn[b], s.at[b])
    BY <1>3, <2>1 DEF Fitting
  <2>3. Fit(Out(b, inn[b]), After(s.at[last], Takes(m.insns[last], Backs(top)), Frees(m.insns[last], Backs(top))))
    BY <1>2, <2>1, <2>2, BeforeFits
  <2>4. Takes(m.insns[last], Backs(top)) = {} /\ Frees(m.insns[last], Backs(top)) = {}
    BY <2>1 DEF Takes, Frees, Op
  <2>5. last \in 1 .. Len(top.helpers[h].insns) /\ m.insns[last] = top.helpers[h].insns[last]
    <3>1. b \in 1 .. Size /\ Size \in Nat
      BY <2>1, MethodFacts, LeadersAreNumbers
    <3>2. End(b) \in b + 1 .. Size + 1
      BY <2>1, <3>1, EndIsNextLeader
    <3> QED
      BY <1>2, <3>1, <3>2, OverFacts
  <2>6. s.at[last] = s.back
    BY <1>2, <2>1, <2>5 DEF Over, Steadily, IsSteady, Op
  <2> HIDE DEF last, s
  <2>7. After(s.at[last], {}, {}).held = s.at[last].held /\ After(s.at[last], {}, {}).freed = s.at[last].freed
    BY DEF After
  <2>8. Held(Out(b, inn[b])) = s.at[last].held /\ Out(b, inn[b]).unmatched = s.at[last].freed
    BY <2>3, <2>4, <2>7 DEF Fit
  <2> QED
    BY <2>6, <2>8 DEF s
<1>6. {Held(st) : st \in outs} = {back.held} /\ {st.unmatched : st \in outs} = {back.freed}
  <2>1. PICK b \in Returns : TRUE
    BY <1>4
  <2>2. Out(b, inn[b]) \in outs
    BY <2>1
  <2>3. \A st \in outs : Held(st) = back.held /\ st.unmatched = back.freed
    BY <1>5
  <2> HIDE DEF outs, back
  <2> QED
    BY <2>2, <2>3
<1> HIDE DEF outs
<1>7. OnEvery({back.held}) = back.held /\ OnEvery({back.freed}) = back.freed
  BY DEF OnEvery
<1>8. back.held \subseteq Lock
  BY <1>2, BackIsDealt DEF IsDone
<1>9. NetEffect.acquires = OnEvery({Held(st) : st \in outs}) \cap Lock /\ NetEffect.releases = OnEvery({st.unmatched : st \in outs})
  BY DEF NetEffect, outs
<1> QED
  BY <1>6, <1>7, <1>8, <1>9 DEF Known, h

\* What is known of the callees of a settled helper makes it grounded.
LEMMA SettledIsGrounded ==
  ASSUME NEW n \in 1 .. MaxRounds, KnownTo(n - 1), NEW h \in Settled[n]
  PROVE  h \in DOMAIN top.helpers /\ Grounded(h) /\ runs[h].returns # {}
<1>1. n \in 0 .. MaxRounds
  BY BoundsAssumption
<1>2. h \in DOMAIN top.helpers /\ Ready(h, Settled[n - 1])
  BY <1>1, SettledIs
<1>3. CallsKnown(h)
  BY <1>2 DEF Ready, Calls, CallsKnown, KnownTo
<1> QED
  BY <1>2, <1>3 DEF Ready, Grounded

LEMMA EffectsSame ==
  ASSUME EffectsInv, UNCHANGED <<top, runs, eff>>
  PROVE  /\ runs' = Runs(top')
         /\ \A h, e : Known(h, e)' <=> Known(h, e')
         /\ \A h : Grounded(h)' <=> Grounded(h)
         /\ \A n : KnownTo(n)' <=> KnownTo(n)
<1>1. runs' = Runs(top')
  BY DEF EffectsInv
<1>2. \A h, e : Known(h, e)' <=> Known(h, e')
  BY DEF Known
<1>3. \A h : Grounded(h)' <=> Grounded(h)
  BY DEF Grounded, Steadily, CallsKnown, Known, Backs
<1>4. Settled' = Settled
  BY DEF Settled
<1>5. \A n : KnownTo(n)' <=> KnownTo(n)
  BY <1>4 DEF KnownTo, Known
<1> QED
  BY <1>1, <1>2, <1>3, <1>5
-----------------------------------------------------------------------------
LEMMA EffectsInit == Init => EffectsInv
<1> SUFFICES ASSUME Init PROVE EffectsInv
  OBVIOUS
<1>1. runs = Runs(top) /\ phase = "effects" /\ round = 0 /\ todo = DOMAIN top.helpers
  BY DEF Init
<1>2. KnownTo(0)
  BY SettledSteps DEF KnownTo
<1>3. Seeking
  BY <1>1 DEF Seeking
<1> QED
  BY <1>1, <1>2, <1>3 DEF EffectsInv, HelperInv, Answered, RoundsKnown

LEMMA EffectsPick == FlowInv /\ EffectsInv /\ Pick => EffectsInv'
<1> SUFFICES ASSUME FlowInv, EffectsInv, Pick PROVE EffectsInv'
  OBVIOUS
<1>1. /\ phase = "effects" /\ phase' = "helper" /\ Enter(HelperOf(top, Turn))
      /\ UNCHANGED <<top, runs, eff, next, todo, round, pc, has>>
  BY DEF Pick
<1>2. Seeking /\ Seeking' /\ Turn' = Turn
  BY <1>1 DEF Seeking, Turn
<1>3. HelperInv'
  <2> SUFFICES ASSUME Grounded(Turn)' PROVE Fitting(Turn)'
    BY DEF HelperInv
  <2> DEFINE h == Turn
  <2>1. Grounded(h)
    BY <1>1, <1>2, EffectsSame DEF Grounded, Steadily, CallsKnown, Known, Backs
  <2>2. m \in Bodies /\ h \in DOMAIN top.helpers
    <3>1. Pick => todo # {}
      BY DEF Pick
    <3> QED
      BY <3>1 DEF FlowInv, TypeOK, Turn
  <2>3. inn' = [b \in {1} |-> Entered(<<>>)] /\ edges' = {}
    BY <1>1 DEF Enter, HelperOf
  <2>4. Steady(top, h).at[1] = Nothing
    BY <2>1 DEF Grounded, Steadily, IsSteady
  <2>5. Fit(Entered(<<>>), Nothing)
    <3>1. <<>> \in Seq(Lock) /\ Len(<<>>) = 0 /\ {<<>>[d] : d \in 1 .. 0} = {}
      OBVIOUS
    <3>2. Entered(<<>>).locks = {} /\ Entered(<<>>).unmatched = {}
      BY <3>1 DEF Entered
    <3> QED
      BY <3>2 DEF Fit, Nothing, Once, Held
  <2> HIDE DEF h
  <2>6. \A b \in DOMAIN inn' : inn'[b] = Entered(<<>>) /\ b = 1
    BY <2>3
  <2>7. \A b \in DOMAIN inn' : Fit(inn'[b], Steady(top, h).at[b])
    BY <2>4, <2>5, <2>6
  <2>8. \A b \in DOMAIN inn' : Fit(inn[b], Steady(top, Turn).at[b])'
    BY <1>1, <1>2, <2>7 DEF Fit, Once, Held, h
  <2> QED
    BY <1>2, <2>3, <2>8 DEF Fitting
<1>4. Answered'
  BY <1>1, <1>2, EffectsSame DEF EffectsInv, Answered
<1>5. RoundsKnown'
  BY <1>1, <1>2, EffectsSame DEF EffectsInv, RoundsKnown
<1> QED
  BY <1>1, <1>3, <1>4, <1>5, EffectsSame DEF EffectsInv

LEMMA EffectsSolved == FlowInv /\ EffectsInv /\ Solved => EffectsInv'
<1> SUFFICES ASSUME FlowInv, EffectsInv, Solved PROVE EffectsInv'
  OBVIOUS
<1>1. /\ phase = "helper" /\ phase' = "effects" /\ next' = [next EXCEPT ![Turn] = NetEffect] /\ todo' = todo \ {Turn}
      /\ UNCHANGED <<top, runs, m, eff, round, inn, work, edges, pc, has>>
  BY DEF Solved
<1>2. Seeking /\ Seeking' /\ Turn \in todo /\ next \in [DOMAIN top.helpers -> Effect] /\ Turn \in DOMAIN top.helpers
  BY <1>1 DEF Seeking, Turn, FlowInv, TypeOK
<1>3. Answered'
  <2> SUFFICES ASSUME NEW h \in DOMAIN top.helpers \ todo', Grounded(h), runs[h].returns # {}
               PROVE  Known(h, next'[h])
    BY <1>1, EffectsSame DEF Answered
  <2>1. CASE h = Turn
    <3>1. next'[h] = NetEffect
      BY <1>1, <1>2, <2>1
    <3>2. Known(Turn, NetEffect)
      BY <2>1, TurnIsKnown
    <3> QED
      BY <2>1, <3>1, <3>2
  <2>2. CASE h # Turn
    BY <1>1, <1>2, <2>2 DEF EffectsInv, Answered
  <2> QED
    BY <2>1, <2>2
<1>4. HelperInv' /\ RoundsKnown'
  BY <1>1, <1>2, EffectsSame DEF EffectsInv, HelperInv, RoundsKnown
<1> QED
  BY <1>1, <1>3, <1>4, EffectsSame DEF EffectsInv

LEMMA EffectsRound == FlowInv /\ EffectsInv /\ Round => EffectsInv'
<1> SUFFICES ASSUME FlowInv, EffectsInv, Round PROVE EffectsInv'
  OBVIOUS
<1>1. /\ phase = "effects" /\ phase' = "effects" /\ round < MaxRounds /\ todo = {} /\ todo' = DOMAIN top.helpers
      /\ eff' = next /\ round' = round + 1 /\ UNCHANGED <<top, runs, next>>
  BY DEF Round
<1>2. Seeking /\ Seeking' /\ round \in 0 .. MaxRounds
  BY <1>1 DEF Seeking, FlowInv, TypeOK
<1>3. round + 1 \in 1 .. MaxRounds /\ (round + 1) - 1 = round
  BY <1>1, <1>2, BoundsAssumption
<1>4. ASSUME NEW h \in Settled[round + 1] PROVE Known(h, next[h])
  <2>1. KnownTo(round)
    BY <1>2 DEF EffectsInv, RoundsKnown
  <2>2. h \in DOMAIN top.helpers /\ Grounded(h) /\ runs[h].returns # {}
    BY <1>3, <2>1, SettledIsGrounded
  <2> QED
    BY <1>1, <1>2, <2>2 DEF EffectsInv, Answered
<1>5. Settled' = Settled
  BY <1>1 DEF Settled
<1>6. KnownTo(round)'
  BY <1>1, <1>4, <1>5 DEF KnownTo, Known
<1>7. runs' = Runs(top') /\ HelperInv' /\ Answered'
  BY <1>1 DEF EffectsInv, HelperInv, Answered
<1> QED
  BY <1>2, <1>6, <1>7 DEF EffectsInv, RoundsKnown

\* When two rounds agree, every settled helper is known.
LEMMA AgreedIsKnown ==
  ASSUME EffectsInv, phase = "effects", todo = {}, next = eff
  PROVE  KnownTo(MaxRounds)
<1> DEFINE Good == {n \in 0 .. MaxRounds : KnownTo(n)}
<1>1. MaxRounds \in Nat /\ 0 \in Nat
  BY BoundsAssumption
<1>2. 0 \in Good
  BY <1>1, SettledSteps DEF KnownTo
<1>3. ASSUME NEW n \in Good, n \in 0 .. MaxRounds - 1 PROVE n + 1 \in Good
  <2>1. n + 1 \in 1 .. MaxRounds /\ (n + 1) - 1 = n /\ n + 1 \in 0 .. MaxRounds
    BY <1>1, <1>3
  <2>2. ASSUME NEW h \in Settled[n + 1] PROVE Known(h, eff[h])
    <3>1. h \in DOMAIN top.helpers /\ Grounded(h) /\ runs[h].returns # {}
      BY <1>3, <2>1, SettledIsGrounded
    <3> QED
      BY <3>1 DEF EffectsInv, Answered, Seeking
  <2> QED
    BY <2>1, <2>2 DEF KnownTo
<1> HIDE DEF Good
<1>4. 0 .. MaxRounds \subseteq Good
  BY <1>1, <1>2, <1>3, IntervalInduction
<1>5. MaxRounds \in 0 .. MaxRounds
  BY <1>1
<1> QED
  BY <1>4, <1>5 DEF Good

LEMMA EffectsAgreed == FlowInv /\ EffectsInv /\ Agreed => EffectsInv'
<1> SUFFICES ASSUME FlowInv, EffectsInv, Agreed PROVE EffectsInv'
  OBVIOUS
<1>1. /\ phase = "effects" /\ phase' = "solve" /\ (round = MaxRounds \/ (todo = {} /\ next = eff))
      /\ UNCHANGED <<top, runs, eff, next, todo, round, pc, has>>
  BY DEF Agreed
<1>2. Seeking /\ ~ Seeking'
  BY <1>1 DEF Seeking
<1>3. KnownTo(MaxRounds)
  BY <1>1, <1>2, AgreedIsKnown DEF EffectsInv, RoundsKnown
<1>4. KnownTo(MaxRounds)'
  BY <1>1, <1>3, EffectsSame
<1>5. HelperInv' /\ Answered'
  BY <1>1, <1>2 DEF HelperInv, Answered
<1> QED
  BY <1>1, <1>2, <1>4, <1>5, EffectsSame DEF EffectsInv, RoundsKnown

\* Steps that leave the effects alone.
LEMMA EffectsKeep ==
  ASSUME EffectsInv, UNCHANGED <<top, runs, eff, next, todo, round>>, HelperInv',
         phase' = phase \/ (~ Seeking /\ ~ Seeking')
  PROVE  EffectsInv'
<1>1. Seeking' <=> Seeking
  BY DEF Seeking
<1>2. Answered'
  BY <1>1, EffectsSame DEF EffectsInv, Answered
<1>3. RoundsKnown'
  BY <1>1, EffectsSame DEF EffectsInv, RoundsKnown
<1> QED
  BY <1>2, <1>3, EffectsSame DEF EffectsInv

LEMMA EffectsPopBlock == FlowInv /\ EffectsInv /\ PopBlock => EffectsInv'
<1> SUFFICES ASSUME FlowInv, EffectsInv, PopBlock PROVE EffectsInv'
  OBVIOUS
<1>1. /\ work # <<>> /\ edges' = EdgesFrom(Head(work))
      /\ UNCHANGED <<top, runs, m, phase, eff, next, todo, round, inn, pc, has>>
  BY DEF PopBlock
<1>2. TypeOK /\ Turn' = Turn
  BY <1>1 DEF FlowInv, Turn
<1>3. Head(work) \in DOMAIN inn
  BY <1>1, <1>2 DEF TypeOK
<1>4. ASSUME phase = "helper", Grounded(Turn) PROVE Fitting(Turn)'
  <2> DEFINE h == Turn
             b == Head(work)
  <2>1. Over(h) /\ Fitting(h)
    BY <1>2, <1>4, TurnIsOver DEF EffectsInv, HelperInv
  <2>2. b \in DOMAIN inn /\ b \in Blocks /\ inn[b] \in State
    BY <1>2, <1>3 DEF TypeOK
  <2> HIDE DEF h, b
  <2>3. \A e \in EdgesFrom(b) : Fit(e[2], Steady(top, h).at[e[1]])
    BY <2>1, <2>2, EdgesFit DEF Fitting
  <2>4. edges' = EdgesFrom(b)
    BY <1>1 DEF b
  <2> QED
    BY <1>1, <1>2, <2>1, <2>3, <2>4 DEF Fitting, Fit, Once, Held, h
<1>5. HelperInv'
  BY <1>1, <1>2, <1>4, EffectsSame DEF HelperInv
<1> QED
  BY <1>1, <1>5, EffectsKeep

LEMMA EffectsTakeEdge == ASSUME FlowInv, EffectsInv, NEW e \in edges, TakeEdge(e) PROVE EffectsInv'
<1> DEFINE j == e[1]
           st == Joined(j, e[2])
<1>1. /\ edges' = edges \ {e}
      /\ inn' = [b \in DOMAIN inn \cup {j} |-> IF b = j THEN st ELSE inn[b]]
      /\ UNCHANGED <<top, runs, m, phase, eff, next, todo, round, pc, has>>
  BY DEF TakeEdge
<1>2. TypeOK /\ Turn' = Turn
  BY <1>1 DEF FlowInv, Turn
<1> HIDE DEF st
<1>3. ASSUME phase = "helper", Grounded(Turn) PROVE Fitting(Turn)'
  <2> DEFINE s == Steady(top, Turn)
  <2>1. Fitting(Turn)
    BY <1>3 DEF EffectsInv, HelperInv
  <2>2. e[2] \in State /\ Fit(e[2], s.at[j])
    BY <1>2, <2>1 DEF Fitting, TypeOK
  <2>3. Fit(st, s.at[j])
    <3>1. CASE j \in DOMAIN inn
      <4>1. inn[j] \in State /\ Fit(inn[j], s.at[j])
        BY <1>2, <2>1, <3>1 DEF Fitting, TypeOK
      <4>2. st = Meet(inn[j], e[2])
        BY <3>1 DEF Joined, st
      <4> QED
        BY <2>2, <4>1, <4>2, MeetFits
    <3>2. CASE j \notin DOMAIN inn
      BY <2>2, <3>2 DEF Joined, st
    <3> QED
      BY <3>1, <3>2
  <2>4. \A b \in DOMAIN inn' : Fit(inn'[b], s.at[b])
    BY <1>1, <2>1, <2>3 DEF Fitting
  <2>5. \A d \in edges' : Fit(d[2], s.at[d[1]])
    BY <1>1, <2>1 DEF Fitting
  <2> QED
    BY <1>1, <1>2, <2>4, <2>5 DEF Fitting, Fit, Once, Held
<1>4. HelperInv'
  BY <1>1, <1>2, <1>3, EffectsSame DEF HelperInv
<1> QED
  BY <1>1, <1>4, EffectsKeep

LEMMA EffectsNext == FlowInv /\ EffectsInv /\ [Next]_vars => EffectsInv'
<1> SUFFICES ASSUME FlowInv, EffectsInv, [Next]_vars PROVE EffectsInv'
  OBVIOUS
<1>1. CASE Pick
  BY <1>1, EffectsPick
<1>2. CASE Solved
  BY <1>2, EffectsSolved
<1>3. CASE Round
  BY <1>3, EffectsRound
<1>4. CASE Agreed
  BY <1>4, EffectsAgreed
<1>5. CASE PopBlock
  BY <1>5, EffectsPopBlock
<1>6. CASE \E e \in edges : TakeEdge(e)
  BY <1>6, EffectsTakeEdge
<1>7. CASE Converge
  <2>1. phase = "solve" /\ phase' = "done" /\ UNCHANGED <<top, runs, eff, next, todo, round>>
    BY <1>7 DEF Converge
  <2> QED
    BY <2>1, EffectsKeep DEF HelperInv, Seeking
<1>8. CASE Execution
  <2>1. phase' = phase /\ phase = "done" /\ UNCHANGED <<top, runs, eff, next, todo, round>>
    BY <1>8 DEF Execution, Start, Complete, Unwind, FlowInv, Idle
  <2> QED
    BY <2>1, EffectsKeep DEF HelperInv
<1>9. CASE UNCHANGED vars
  <2>1. UNCHANGED <<top, runs, eff, next, todo, round, phase, inn, edges>>
    BY <1>9 DEF vars
  <2>2. HelperInv'
    BY <2>1, EffectsSame DEF EffectsInv, HelperInv, Fitting, Turn, Fit, Once, Held
  <2> QED
    BY <2>1, <2>2, EffectsKeep
<1> QED
  BY <1>1, <1>2, <1>3, <1>4, <1>5, <1>6, <1>7, <1>8, <1>9 DEF Next, Solver

LEMMA EffectsHold == Spec => []EffectsInv
BY EffectsInit, EffectsNext, FlowHolds, PTL DEF Spec

LEMMA CountOfOne ==
  ASSUME NEW l, NEW S
  PROVE  Cardinality({l} \cap S) = Bit(l, S)
<1>1. CASE l \in S
  <2>1. {l} \cap S = {l}
    BY <1>1
  <2> QED
    BY <1>1, <2>1, FS_Singleton DEF Bit
<1>2. CASE l \notin S
  <2>1. {l} \cap S = {}
    BY <1>2
  <2> QED
    BY <1>2, <2>1, FS_EmptySet DEF Bit
<1> QED
  BY <1>1, <1>2

\* What a regular helper does is its effect.
LEMMA RegularDoes ==
  ASSUME TypeOK, EffectsInv, ~ Seeking, NEW h, Regular(h), NEW d \in runs[h].returns
  PROVE  /\ h \in DOMAIN top.helpers
         /\ \A l \in Lock : /\ d.net[l] = Bit(l, eff[h].acquires) - Bit(l, eff[h].releases)
                            /\ d.needs[l] = Bit(l, eff[h].releases)
<1> DEFINE back == Steady(top, h).back
<1>1. top \in Methods /\ runs = Runs(top) /\ MaxRounds \in 0 .. MaxRounds /\ h \in Settled[MaxRounds]
  BY BoundsAssumption DEF TypeOK, EffectsInv, Regular
<1>2. h \in DOMAIN top.helpers /\ d = Bits(back)
  BY <1>1, SettledIs, SettledReturns
<1>3. eff[h].acquires = back.held /\ eff[h].releases = back.freed
  BY <1>1 DEF EffectsInv, RoundsKnown, KnownTo, Known
<1> HIDE DEF back
<1>4. \A l \in Lock : Bits(back).net[l] = Bit(l, back.held) - Bit(l, back.freed) /\ Bits(back).needs[l] = Bit(l, back.freed)
  BY BitsAre
<1> QED
  BY <1>2, <1>3, <1>4

\* The effect applied at the calls of a helper in which no way matters is what
\* it does to the locks of its caller, whichever way it returns and however
\* deep the helpers nest within the rounds (`effects`, flow.rs:434-515).
THEOREM EffectsExact == Spec => []EffectsAreExact
<1>1. FlowInv /\ EffectsInv => EffectsAreExact
  <2> SUFFICES ASSUME FlowInv, EffectsInv, phase = "solve", NEW h \in DOMAIN top.helpers, Regular(h),
                      NEW l \in Lock, NEW d \in runs[h].returns
               PROVE  /\ d.net[l] = Cardinality({l} \cap eff[h].acquires) - Cardinality({l} \cap eff[h].releases)
                      /\ d.needs[l] = Cardinality({l} \cap eff[h].releases)
    BY DEF EffectsAreExact
  <2>1. TypeOK /\ ~ Seeking
    BY DEF FlowInv, Seeking
  <2>2. Cardinality({l} \cap eff[h].acquires) = Bit(l, eff[h].acquires) /\ Cardinality({l} \cap eff[h].releases) = Bit(l, eff[h].releases)
    BY CountOfOne
  <2> QED
    BY <2>1, <2>2, RegularDoes
<1> QED
  BY <1>1, FlowHolds, EffectsHold, PTL
-----------------------------------------------------------------------------
(***************************************************************************)
(* Soundness: what the replay reports held is held.                        *)
(***************************************************************************)
LEMMA DisciplinedFacts ==
  ASSUME Disciplined, NEW i \in 1 .. Size
  PROVE  /\ Op(i) # "TryAcquire"
         /\ Op(i) \in {"Exit", "Release"} => m.insns[i].named
         /\ Op(i) = "Call" => Regular(m.insns[i].callee)
BY DEF Disciplined, MayFail, Untracked, CallsIrregular

LEMMA DisciplinedOnce ==
  ASSUME Disciplined, NEW b \in DOMAIN inn, NEW i \in b .. End(b)
  PROVE  Once(Before(b, inn[b], i))
BY DEF Disciplined, Reentrant, Once

\* An instruction that releases nothing leaves held what is held.
LEMMA ApplyKeeps ==
  ASSUME m \in Bodies, eff \in [DOMAIN m.helpers -> Effect], NEW i \in 1 .. Size, NEW st \in State, ~ Drops(i)
  PROVE  Held(st) \subseteq Held(Apply(st, i))
<1>1. m.lines[i] \in Nat /\ Op(i) \notin {"Exit", "Release"} /\ IsInsn(m.insns[i])
  BY MethodFacts DEF Drops
<1>2. CASE Op(i) \in {"Enter", "Acquire", "TryAcquire"}
  <2>1. Operand(i) \in Item /\ <<Operand(i)>> \in Seq(Item)
    BY <1>1, <1>2 DEF Operand, Item, IsInsn, LockOps, Op
  <2>2. Held(st) \subseteq Held(Push(st, <<Operand(i)>>, m.lines[i]))
    BY <1>1, <2>1, PushAdds, ZenonT(30)
  <2>3. Apply(st, i) = Push(st, <<Operand(i)>>, m.lines[i])
    BY <1>2 DEF Apply, Op
  <2> QED
    BY <2>2, <2>3
<1>3. CASE Op(i) = "Call"
  <2> DEFINE e == eff[m.insns[i].callee]
  <2>1. e \in Effect /\ e.releases = {}
    BY <1>3, MethodFacts DEF Drops
  <2> HIDE DEF e
  <2>2. (Held(st) \ e.releases) \cup e.acquires \subseteq Held(Returned(st, e, m.lines[i]))
    BY <1>1, <2>1, ReturnedDoes
  <2>3. Apply(st, i) = Returned(st, e, m.lines[i])
    BY <1>3 DEF Apply, Op, e
  <2> QED
    BY <2>1, <2>2, <2>3
<1>4. CASE Op(i) \notin {"Enter", "Acquire", "TryAcquire", "Call"}
  <2>1. Apply(st, i) = st
    BY <1>1, <1>4 DEF Apply, Op
  <2> QED
    BY <2>1
<1> QED
  BY <1>2, <1>3, <1>4

\* What is held on entry to a block of a try range is held when it throws.
LEMMA HeldWhenThrown ==
  ASSUME m \in Bodies, eff \in [DOMAIN m.helpers -> Effect], ~ DropsThenThrows, NEW b \in Blocks, Exc(b) # {},
         NEW st \in State, NEW i \in b .. End(b) - 1, CanThrow(i)
  PROVE  Held(st) \subseteq Held(Before(b, st, i))
<1> DEFINE Good == {k \in b .. i : Held(st) \subseteq Held(Before(b, st, k))}
<1>1. b \in 1 .. Size /\ End(b) \in b + 1 .. Size + 1 /\ Size \in Nat
  BY LeadersAreNumbers, EndIsNextLeader, MethodFacts
<1>2. b \in Nat /\ i \in Nat /\ b <= i
  BY <1>1
<1>3. b \in Good
  BY <1>1, <1>2, BeforeSteps
<1>4. ASSUME NEW k \in Good, k \in b .. i - 1 PROVE k + 1 \in Good
  <2>1. k \in b .. End(b) - 1 /\ k < i /\ k \in 1 .. Size /\ k \in b .. Size /\ k \in b .. Size + 1 /\ k + 1 \in b .. i
    BY <1>1, <1>2, <1>4
  <2>2. ~ Drops(k)
    BY <2>1 DEF DropsThenThrows
  <2>3. Before(b, st, k + 1) = Apply(Before(b, st, k), k) /\ Before(b, st, k) \in State
    BY <1>1, <2>1, BeforeSteps
  <2>4. Held(Before(b, st, k)) \subseteq Held(Before(b, st, k + 1))
    BY <2>1, <2>2, <2>3, ApplyKeeps
  <2> QED
    BY <1>4, <2>1, <2>4
<1> HIDE DEF Good
<1>5. b .. i \subseteq Good
  BY <1>2, <1>3, <1>4, IntervalInduction
<1> QED
  BY <1>2, <1>5 DEF Good

\* Whatever the state of the analysis and the execution agree on, they agree on after an instruction completes.
LEMMA CompleteAgrees ==
  ASSUME FlowInv, EffectsInv, Disciplined, phase = "done", pc \in 1 .. Size,
         NEW d \in Completing(m.insns[pc], runs), Do(d),
         NEW st \in State, Once(st), \A l \in Held(st) \cap Lock : has[l] > 0
  PROVE  \A l \in Held(Apply(st, pc)) \cap Lock : has'[l] > 0
<1>1. /\ m \in Bodies /\ eff \in [DOMAIN m.helpers -> Effect] /\ has \in [Lock -> Nat] /\ m.lines[pc] \in Nat
      /\ IsInsn(m.insns[pc]) /\ Opaque(pc) \notin Lock /\ m = top /\ TypeOK /\ ~ Seeking
  BY MethodFacts DEF FlowInv, TypeOK, Seeking
<1>6. \A l \in Lock : has'[l] = has[l] + d.net[l] /\ has[l] >= d.needs[l]
  BY DEF Do
<1>2. CASE Op(pc) \in {"Enter", "Acquire"}
  <2>1. Operand(pc) \in Item /\ m.insns[pc].lock \in Lock
    BY <1>1, <1>2 DEF Operand, Item, IsInsn, LockOps, Op
  <2>2. Apply(st, pc) = Push(st, <<Operand(pc)>>, m.lines[pc])
    BY <1>2 DEF Apply, Op
  <2>3. <<Operand(pc)>> \in Seq(Item) /\ {<<Operand(pc)>>[k] : k \in 1 .. Len(<<Operand(pc)>>)} = {Operand(pc)}
    BY <2>1
  <2>4. Held(Apply(st, pc)) = Held(st) \cup {Operand(pc)}
    <3> DEFINE ls == <<Operand(pc)>>
    <3>1. ls \in Seq(Item) /\ {ls[k] : k \in 1 .. Len(ls)} = {Operand(pc)} /\ Apply(st, pc) = Push(st, ls, m.lines[pc])
      BY <2>2, <2>3
    <3> HIDE DEF ls
    <3>2. Held(Push(st, ls, m.lines[pc])) = Held(st) \cup {ls[k] : k \in 1 .. Len(ls)}
      BY <1>1, <3>1, PushAdds
    <3> QED
      BY <3>1, <3>2
  <2>5. d = Gains(m.insns[pc].lock)
    BY <1>2 DEF Completing, Op
  <2>7. \A l \in Lock : d.net[l] = IF l = m.insns[pc].lock THEN 1 ELSE 0
    BY <2>5 DEF Gains
  <2>6. Operand(pc) \in Lock => Operand(pc) = m.insns[pc].lock
    BY <1>1 DEF Operand
  <2> QED
    BY <1>1, <1>6, <2>1, <2>4, <2>6, <2>7
<1>3. CASE Op(pc) \in {"Exit", "Release"}
  <2> DEFINE l0 == m.insns[pc].lock
  <2>1. m.insns[pc].named /\ l0 \in Lock
    BY <1>1, <1>3, DisciplinedFacts DEF IsInsn, LockOps, Op
  <2>2. Held(Apply(st, pc)) = Held(st) \ {l0}
    <3>1. CASE Op(pc) = "Exit"
      <4>1. Apply(st, pc) = Pop(st, {l0})
        BY <2>1, <3>1 DEF Apply, Op
      <4> QED
        BY <4>1, PopDrops
    <3>2. CASE Op(pc) = "Release"
      <4>1. Apply(st, pc) = Release(st, {l0})
        BY <2>1, <3>2 DEF Apply, Op
      <4>2. {l0} \subseteq Lock
        BY <2>1
      <4> HIDE DEF l0
      <4> QED
        BY <4>1, <4>2, ReleaseDrops
    <3> QED
      BY <1>3, <3>1, <3>2
  <2>3. d = Loses(l0)
    BY <1>3 DEF Completing, Op
  <2> HIDE DEF l0
  <2>4. \A l \in Lock : l # l0 => d.net[l] = 0
    BY <2>3 DEF Loses
  <2> QED
    BY <1>1, <1>6, <2>1, <2>2, <2>4
<1>4. CASE Op(pc) = "Call"
  <2> DEFINE h == m.insns[pc].callee
             e == eff[h]
  <2>1. h \in DOMAIN m.helpers /\ Regular(h)
    BY <1>1, <1>4, MethodFacts, DisciplinedFacts
  <2>2. e \in Effect
    BY <1>1, <2>1
  <2>3. Apply(st, pc) = Returned(st, e, m.lines[pc])
    BY <1>4 DEF Apply, Op
  <2>4. d \in runs[h].returns
    BY <1>4 DEF Completing, Op
  <2> HIDE DEF h
  <2>5. \A l \in Lock : d.net[l] = Bit(l, e.acquires) - Bit(l, e.releases) /\ d.needs[l] = Bit(l, e.releases)
    BY <1>1, <2>1, <2>4, RegularDoes
  <2> HIDE DEF e
  <2>6. Held(Apply(st, pc)) = (Held(st) \ e.releases) \cup e.acquires
    BY <1>1, <2>2, <2>3, ReturnedDoes
  <2> SUFFICES ASSUME NEW l \in Lock, l \in Held(Apply(st, pc)) PROVE has'[l] > 0
    OBVIOUS
  <2>7. has'[l] = has[l] + (Bit(l, e.acquires) - Bit(l, e.releases)) /\ has[l] >= Bit(l, e.releases) /\ has[l] \in Nat
    BY <1>1, <1>6, <2>5
  <2>8. CASE l \in e.acquires
    BY <2>7, <2>8 DEF Bit
  <2>9. CASE l \notin e.acquires
    <3>1. l \in Held(st) /\ l \notin e.releases
      BY <2>6, <2>9
    <3>2. has[l] > 0
      BY <3>1
    <3> QED
      BY <2>7, <2>9, <3>1, <3>2 DEF Bit
  <2> QED
    BY <2>8, <2>9
<1>5. CASE Op(pc) \notin {"Enter", "Acquire", "Exit", "Release", "Call"}
  <2>1. Op(pc) # "TryAcquire"
    BY DisciplinedFacts
  <2>2. Apply(st, pc) = st /\ d = Keeps
    BY <1>5, <2>1 DEF Apply, Completing, Op
  <2>3. \A l \in Lock : d.net[l] = 0
    BY <2>2 DEF Keeps
  <2> QED
    BY <1>1, <1>6, <2>2, <2>3
<1> QED
  BY <1>2, <1>3, <1>4, <1>5

\* What an instruction that throws has done.
LEMMA ThrowingIs ==
  ASSUME FlowInv, EffectsInv, phase = "done", NEW i \in 1 .. Size
  PROVE  Completing(m.insns[i], runs) \subseteq Did /\ Throwing(m.insns[i], runs) \subseteq Did
<1>1. m \in Bodies /\ m = top /\ top \in Methods /\ runs = Runs(top)
  BY DEF FlowInv, TypeOK, EffectsInv
<1>2. PICK g : IsDeep(g, top)
  BY <1>1, RunsSteps
<1>3. runs \in Book(DOMAIN top.helpers)
  <2>1. MaxCalls \in 0 .. MaxCalls
    BY BoundsAssumption
  <2> QED
    BY <1>1, <1>2, <2>1 DEF IsDeep
<1>4. IsInsn(m.insns[i]) /\ (m.insns[i].op = "Call" => m.insns[i].callee \in DOMAIN top.helpers)
  BY <1>1, MethodFacts DEF Op
<1> QED
  BY <1>3, <1>4, InsnDoes

LEMMA SoundAfter ==
  ASSUME top' = top, runs' = runs, m' = m, eff' = eff, inn' = inn,
         Disciplined /\ pc' # 0 => \A l \in Held(Before(BlockOf(pc'), inn[BlockOf(pc')], pc')) \cap Lock : has'[l] > 0
  PROVE  DisciplinedHeldIsHeld'
<1>1. MayFail' <=> MayFail
  BY DEF MayFail, Size, Op
<1>2. Untracked' <=> Untracked
  BY DEF Untracked, Size, Op
<1>3. CallsIrregular' <=> CallsIrregular
  BY DEF CallsIrregular, Regular, Settled, Size, Op
<1>4. Reentrant' <=> Reentrant
  BY DEF Reentrant, Before, Apply, Operand, End, Leaders, Size, Op
<1>5. DropsThenThrows' <=> DropsThenThrows
  BY DEF DropsThenThrows, Drops, CanThrow, Exc, End, Blocks, Leaders, Size, Op
<1>6. HeldAt(pc)' = Held(Before(BlockOf(pc'), inn[BlockOf(pc')], pc'))
  <2>1. BlockOf(pc)' = BlockOf(pc')
    BY DEF BlockOf, Blocks, Leaders, Size, Op
  <2>2. Before(BlockOf(pc), inn[BlockOf(pc)], pc)' = Before(BlockOf(pc'), inn[BlockOf(pc')], pc')
    BY <2>1 DEF Before, Apply, Operand, Size
  <2> QED
    BY <2>2 DEF HeldAt, Held
<1>7. Disciplined' => Disciplined
  BY <1>1, <1>2, <1>3, <1>4, <1>5 DEF Disciplined
<1> QED
  BY <1>6, <1>7 DEF DisciplinedHeldIsHeld, HeldIsHeld

\* At the start of a block what is held is what every edge to it brings.
LEMMA SoundAtLeader ==
  ASSUME FlowInv, phase = "done", NEW b \in DOMAIN inn, NEW st, NEW s, <<s, st>> \in EdgesFrom(b)
  PROVE  BlockOf(s) = s /\ Held(Before(s, inn[s], s)) \subseteq Held(st)
<1>1. s \in DOMAIN inn /\ Held(inn[s]) \subseteq Held(st)
  <2>1. phase # "effects" /\ work = <<>> /\ edges = {}
    BY DEF FlowInv, Idle
  <2>2. Under(<<s, st>>)
    BY <2>1, DoneIsClosed
  <2> QED
    BY <2>2 DEF Under
<1>2. m \in Bodies /\ s \in Blocks /\ inn[s] \in State /\ eff \in [DOMAIN m.helpers -> Effect]
  BY <1>1 DEF FlowInv, TypeOK
<1>3. s \in 1 .. Size
  BY <1>2, LeadersAreNumbers
<1> QED
  BY <1>1, <1>2, <1>3, BlockOfLeader, BeforeSteps

LEMMA SoundExecution == FlowInv /\ EffectsInv /\ DisciplinedHeldIsHeld /\ Execution => DisciplinedHeldIsHeld'
<1> SUFFICES ASSUME FlowInv, EffectsInv, DisciplinedHeldIsHeld, Execution PROVE DisciplinedHeldIsHeld'
  OBVIOUS
<1>1. /\ m \in Bodies /\ Size \in Nat \ {0} /\ pc \in 0 .. Size /\ has \in [Lock -> Nat]
      /\ eff \in [DOMAIN m.helpers -> Effect]
      /\ \A b \in DOMAIN inn : b \in Blocks /\ inn[b] \in State
  BY MethodFacts DEF FlowInv, TypeOK
<1>2. CASE Start
  <2>1. 1 \in DOMAIN inn /\ 1 \in Blocks /\ Held(inn[1]) \subseteq {m.entry[d] : d \in 1 .. Len(m.entry)}
    BY <1>1, LeadersAreNumbers DEF FlowInv, Entering
  <2>2. BlockOf(1) = 1 /\ Before(1, inn[1], 1) = inn[1]
    BY <1>1, <2>1, BlockOfLeader, LeadersAreNumbers, BeforeSteps
  <2>3. ASSUME NEW l \in Lock, l \in Held(inn[1]) PROVE has'[l] > 0
    <3> DEFINE S == {k \in 1 .. Len(m.entry) : m.entry[k] = l}
    <3>1. S # {}
      BY <2>1, <2>3
    <3>2. IsFiniteSet(S)
      <4>1. Len(m.entry) \in Nat
        BY <1>1, MethodFacts
      <4>2. IsFiniteSet(1 .. Len(m.entry))
        BY <4>1, FS_Interval
      <4>3. S \in SUBSET (1 .. Len(m.entry))
        OBVIOUS
      <4> QED
        BY <4>2, <4>3, FS_Subset
    <3>3. Cardinality(S) \in Nat /\ Cardinality(S) # 0
      BY <3>1, <3>2, FS_CardinalityType, FS_EmptySet
    <3>4. has'[l] = Cardinality(S)
      BY <1>2 DEF Start, CountOf
    <3> QED
      BY <3>3, <3>4
  <2>4. UNCHANGED <<top, runs, m, eff, inn>> /\ pc' = 1
    BY <1>2 DEF Start
  <2> QED
    BY <2>2, <2>3, <2>4, SoundAfter
<1>3. ASSUME pc # 0, Disciplined
      PROVE  /\ phase = "done" /\ pc \in 1 .. Size /\ BlockOf(pc) \in DOMAIN inn
             /\ pc \in BlockOf(pc) .. End(BlockOf(pc)) - 1 /\ BlockOf(pc) \in 1 .. Size /\ End(BlockOf(pc)) \in 1 .. Size + 1
             /\ \A l \in Held(Before(BlockOf(pc), inn[BlockOf(pc)], pc)) \cap Lock : has[l] > 0
  <2>1. phase = "done" /\ pc \in 1 .. Size /\ BlockOf(pc) \in DOMAIN inn
    BY <1>1, <1>3 DEF FlowInv, Idle, EveryStepIsReplayed
  <2>2. BlockOf(pc) \in 1 .. Size /\ BlockOf(pc) <= pc /\ pc < End(BlockOf(pc))
    BY <1>1, <2>1, BlockOfIsGreatest, LeadersAreNumbers
  <2>3. End(BlockOf(pc)) \in BlockOf(pc) + 1 .. Size + 1
    BY <1>1, <2>2, EndIsNextLeader
  <2>4. \A l \in Held(Before(BlockOf(pc), inn[BlockOf(pc)], pc)) \cap Lock : has[l] > 0
    BY <1>3 DEF DisciplinedHeldIsHeld, HeldIsHeld, HeldAt
  <2> QED
    BY <1>1, <2>1, <2>2, <2>3, <2>4
<1>4. CASE Complete
  <2>1. UNCHANGED <<top, runs, m, phase, eff, inn>> /\ pc # 0 /\ pc' \in NextPc(pc)
    BY <1>4 DEF Complete
  <2>8. PICK d \in Completing(m.insns[pc], runs) : Do(d)
    BY <1>4 DEF Complete
  <2> SUFFICES ASSUME Disciplined, pc' # 0
               PROVE  \A l \in Held(Before(BlockOf(pc'), inn[BlockOf(pc')], pc')) \cap Lock : has'[l] > 0
    BY <2>1, SoundAfter
  <2> DEFINE b == BlockOf(pc)
             st == Before(b, inn[b], pc)
  <2>2. /\ phase = "done" /\ pc \in 1 .. Size /\ b \in DOMAIN inn /\ b \in 1 .. Size /\ inn[b] \in State
        /\ pc \in b .. End(b) /\ pc \in b .. Size /\ pc \in b .. Size + 1
        /\ \A l \in Held(st) \cap Lock : has[l] > 0
    BY <1>1, <1>3, <2>1
  <2>3. Before(b, inn[b], pc + 1) = Apply(st, pc) /\ st \in State
    BY <1>1, <2>2, BeforeSteps
  <2>4. Once(st)
    BY <2>2, DisciplinedOnce
  <2> HIDE DEF b, st
  <2>5. \A l \in Held(Apply(st, pc)) \cap Lock : has'[l] > 0
    BY <2>1, <2>2, <2>3, <2>4, <2>8, CompleteAgrees
  <2>6. CASE pc' = pc + 1 /\ BlockOf(pc') = b
    BY <2>3, <2>5, <2>6
  <2>7. CASE End(b) = pc + 1 /\ pc' \in Succ(b)
    <3>1. <<pc', Apply(st, pc)>> \in EdgesFrom(b)
      BY <2>3, <2>7 DEF EdgesFrom, Out
    <3>2. BlockOf(pc') = pc' /\ Held(Before(pc', inn[pc'], pc')) \subseteq Held(Apply(st, pc))
      BY <2>2, <3>1, SoundAtLeader
    <3> QED
      BY <2>5, <3>2
  <2> QED
    BY <1>1, <2>1, <2>2, <2>6, <2>7, NextIsSuccessor DEF b
<1>5. CASE Unwind
  <2>1. UNCHANGED <<top, runs, m, phase, eff, inn>> /\ pc # 0
    BY <1>5 DEF Unwind
  <2>9. PICK d \in Throwing(m.insns[pc], runs) : Do(d)
    BY <1>5 DEF Unwind
  <2> SUFFICES ASSUME Disciplined, pc' # 0
               PROVE  \A l \in Held(Before(BlockOf(pc'), inn[BlockOf(pc')], pc')) \cap Lock : has'[l] > 0
    BY <2>1, SoundAfter
  <2> DEFINE b == BlockOf(pc)
  <2>2. /\ phase = "done" /\ pc \in 1 .. Size /\ b \in DOMAIN inn /\ b \in Blocks /\ inn[b] \in State
        /\ pc \in b .. End(b) - 1
        /\ \A l \in Held(Before(b, inn[b], pc)) \cap Lock : has[l] > 0
    BY <1>1, <1>3, <2>1
  <2>3. PICK c \in m.catches : c[1] <= pc /\ pc < c[2] /\ c[3] = pc' /\ pc' \in 1 .. Size
    BY <1>5 DEF Unwind, HandlersOf, Size
  <2>4. pc' \in Exc(b)
    BY <1>1, <2>2, <2>3, HandlerIsHandler
  <2> HIDE DEF b
  <2>5. <<pc', inn[b]>> \in EdgesFrom(b)
    BY <2>4 DEF EdgesFrom
  <2>6. BlockOf(pc') = pc' /\ Held(Before(pc', inn[pc'], pc')) \subseteq Held(inn[b])
    BY <2>2, <2>5, SoundAtLeader
  <2>7. ~ DropsThenThrows /\ Exc(b) # {}
    BY <2>4 DEF Disciplined
  <2>8. Held(inn[b]) \subseteq Held(Before(b, inn[b], pc))
    <3>1. CanThrow(pc)
      BY <2>9 DEF CanThrow, Throwing, Op
    <3> QED
      BY <1>1, <2>2, <2>7, <3>1, HeldWhenThrown
  <2>10. ASSUME NEW l \in Lock, has[l] > 0 PROVE has'[l] > 0
    <3>1. d \in Did
      BY <2>1, <2>2, <2>9, ThrowingIs
    <3>2. ~ (d.net[l] < 0) /\ d.net[l] \in Int
      BY <2>2, <2>7, <2>9, <3>1 DEF DropsThenThrows, Did
    <3>3. has'[l] = has[l] + d.net[l] /\ has[l] \in Nat
      BY <1>1, <2>9 DEF Do
    <3> QED
      BY <2>10, <3>2, <3>3
  <2> QED
    BY <2>2, <2>6, <2>8, <2>10
<1> QED
  BY <1>2, <1>4, <1>5 DEF Execution

LEMMA SoundNext == FlowInv /\ EffectsInv /\ DisciplinedHeldIsHeld /\ [Next]_vars => DisciplinedHeldIsHeld'
<1> SUFFICES ASSUME FlowInv, EffectsInv, DisciplinedHeldIsHeld, [Next]_vars PROVE DisciplinedHeldIsHeld'
  OBVIOUS
<1>1. CASE Solver
  <2>1. pc' = pc /\ phase # "done"
    BY <1>1 DEF Solver, Pick, Solved, Round, Agreed, PopBlock, TakeEdge, Converge, Solving
  <2>2. pc' = 0
    BY <2>1 DEF FlowInv, Idle
  <2> QED
    BY <2>2 DEF DisciplinedHeldIsHeld, HeldIsHeld
<1>2. CASE Execution
  BY <1>2, SoundExecution
<1>3. CASE UNCHANGED vars
  <2>1. UNCHANGED <<top, runs, m, eff, inn, pc, has>>
    BY <1>3 DEF vars
  <2> QED
    BY <2>1, SoundAfter DEF DisciplinedHeldIsHeld, HeldIsHeld, HeldAt
<1> QED
  BY <1>1, <1>2, <1>3 DEF Next

\* In a method without the patterns of Disciplined a lock that the replay reports held at an
\* instruction is held whenever an execution is about to take it (`run`, flow.rs:463-473).
THEOREM Sound == Spec => []DisciplinedHeldIsHeld
<1>1. Init => DisciplinedHeldIsHeld
  BY DEF Init, DisciplinedHeldIsHeld, HeldIsHeld
<1> QED
  BY <1>1, EffectsHold, SoundNext, FlowHolds, PTL DEF Spec
\* The walk that builds the index (`build`, ctx.rs) only reads the dataflow: with it
\* each method is still analysed and executed as `run` specifies, so that all of
\* the above holds of the methods that the walk replays.
THEOREM ScanImplements == ScanSpec => Spec
<1>1. ScanInit => Init
  BY DEF ScanInit
<1>2. [ScanNext]_<<vars, scan>> => [Next]_vars
  BY DEF ScanNext, Analysis, Scan, Next, vars
<1> QED
  BY <1>1, <1>2, PTL DEF ScanSpec, Spec
-----------------------------------------------------------------------------
(***************************************************************************)
-----------------------------------------------------------------------------
(***************************************************************************)
(* Methods compiled from nested `synchronized` blocks: nothing is lost.    *)
(***************************************************************************)
\* In state st these locks are held, each once.
Locked(st, ls) == Held(st) = ls /\ Once(st)

\* A helper without locks and calls has no effect.
IdleHelpers ==
  \A h \in DOMAIN top.helpers : Lockless(top.helpers[h]) => eff[h] = NoEffect /\ next[h] = NoEffect

Around(i) == Monitors[m][i]

Watched == phase \in {"solve", "done"} /\ m \in DOMAIN Monitors

\* Nothing is held anywhere.
Bared == (\A b \in DOMAIN inn : inn[b] = Bare) /\ (\A e \in edges : e[2] = Bare)

MonitorInv ==
  /\ IdleHelpers
  /\ phase = "helper" /\ Lockless(top.helpers[Turn]) => Bared
  /\ Watched =>
       /\ \A b \in DOMAIN inn : Locked(inn[b], Around(b))
       /\ \A e \in edges : Locked(e[2], Around(e[1]))
       /\ pc # 0 => \A l \in Lock : has[l] = IF l \in Around(pc) THEN 1 ELSE 0

LEMMA NestedFacts ==
  ASSUME m \in DOMAIN Monitors
  PROVE  /\ m \in Methods /\ m \in Bodies /\ Size \in Nat \ {0}
         /\ Monitors[m] \in [1 .. Size -> SUBSET Lock]
         /\ Around(1) = {m.entry[k] : k \in 1 .. Len(m.entry)} /\ IsInjective(m.entry)
         /\ \A i \in 1 .. Size :
              /\ Op(i) \in {"Enter", "Exit"} \cup Jumps \cup Plain
              /\ Op(i) = "Enter" => m.insns[i].named /\ m.insns[i].lock \in Lock \ Around(i)
              /\ Op(i) = "Exit" => m.insns[i].named /\ m.insns[i].lock \in Around(i)
              /\ Op(i) = "Call" => m.insns[i].callee \in DOMAIN m.helpers /\ Lockless(m.helpers[m.insns[i].callee])
              /\ Op(i) \notin {"Goto", "Return", "Throw"} /\ i < Size => Around(i + 1) = Within(m.insns[i], Around(i))
              /\ Op(i) \in Jumps => \A j \in m.insns[i].targets \cap 1 .. Size : Around(j) = Around(i)
              /\ \A c \in m.catches : c[1] <= i /\ i < c[2] /\ c[3] \in 1 .. Size => Around(c[3]) = Around(i)
<1>1. m \in Methods /\ m \in Bodies /\ IsNested(m, Monitors[m])
  BY MonitorsAssumption DEF Bodies
<1>2. Size \in Nat \ {0}
  BY <1>1, MethodFacts
<1>3. \A i \in 1 .. Size : Op(i) = "Enter" => m.insns[i].lock \in Lock
  BY <1>1, MethodFacts DEF IsInsn, Op, LockOps
<1>4. \A i \in 1 .. Size : Op(i) = "Call" => m.insns[i].callee \in DOMAIN m.helpers
  BY <1>1, MethodFacts
<1> QED
  BY <1>1, <1>2, <1>3, <1>4 DEF IsNested, Around, Size, Op

\* Each instruction changes what is held as the blocks around it say.
LEMMA NestedStep ==
  ASSUME m \in DOMAIN Monitors, m.helpers = top.helpers, eff \in [DOMAIN m.helpers -> Effect], IdleHelpers,
         NEW i \in 1 .. Size, NEW st \in State, Locked(st, Around(i))
  PROVE  Locked(Apply(st, i), Within(m.insns[i], Around(i)))
<1>1. m.lines[i] \in Nat /\ Around(i) \subseteq Lock
  BY NestedFacts, MethodFacts DEF Around
<1>2. CASE Op(i) = "Enter"
  <2>1. m.insns[i].named /\ m.insns[i].lock \in Lock /\ m.insns[i].lock \notin Around(i)
    BY <1>2, NestedFacts
  <2> DEFINE ls == <<m.insns[i].lock>>
  <2>2. Apply(st, i) = Push(st, ls, m.lines[i])
    BY <1>2, <2>1 DEF Apply, Op, Operand
  <2>3. ls \in Seq(Item) /\ Len(ls) = 1 /\ ls[1] = m.insns[i].lock
    BY <2>1 DEF Item
  <2>4. IsInjective(ls) /\ {ls[k] : k \in 1 .. Len(ls)} = {m.insns[i].lock}
    BY <2>3 DEF IsInjective
  <2>5. \A k \in 1 .. Len(ls) : ls[k] \notin Held(st)
    BY <2>1, <2>3 DEF Locked
  <2> HIDE DEF ls
  <2>6. Held(Push(st, ls, m.lines[i])) = Held(st) \cup {m.insns[i].lock}
    <3>1. Held(Push(st, ls, m.lines[i])) = Held(st) \cup {ls[k] : k \in 1 .. Len(ls)}
      BY <1>1, <2>3, PushAdds
    <3> QED
      BY <2>4, <3>1
  <2>7. Once(Push(st, ls, m.lines[i]))
    BY <1>1, <2>3, <2>4, <2>5, PushKeepsOnce DEF Locked
  <2> QED
    BY <1>2, <2>2, <2>6, <2>7 DEF Locked, Within, Op
<1>3. CASE Op(i) = "Exit"
  <2>1. m.insns[i].named
    BY <1>3, NestedFacts
  <2>2. Apply(st, i) = Pop(st, {m.insns[i].lock})
    BY <1>3, <2>1 DEF Apply, Op
  <2>3. Held(Pop(st, {m.insns[i].lock})) = Held(st) \ {m.insns[i].lock} /\ Pop(st, {m.insns[i].lock}).locks \subseteq st.locks
    BY PopDrops DEF Locked
  <2>4. Once(Pop(st, {m.insns[i].lock}))
    BY <2>3, FewerHeld DEF Locked
  <2> QED
    BY <1>3, <2>2, <2>3, <2>4 DEF Locked, Within, Op
<1>4. CASE Op(i) = "Call"
  <2>1. Apply(st, i) = Returned(st, NoEffect, m.lines[i])
    BY <1>4, NestedFacts DEF Apply, Op, IdleHelpers
  <2>2. NoEffect \in Effect /\ NoEffect.acquires = {} /\ NoEffect.releases = {}
    BY FS_EmptySet DEF NoEffect, Effect
  <2> HIDE DEF NoEffect
  <2>3. Locked(Returned(st, NoEffect, m.lines[i]), Held(st))
    <3>1. Once(st)
      BY DEF Locked
    <3>2. Held(Returned(st, NoEffect, m.lines[i])) = (Held(st) \ NoEffect.releases) \cup NoEffect.acquires
      BY <1>1, <2>2, <3>1, ReturnedDoes
    <3>3. NoEffect.acquires \cap (Held(st) \ NoEffect.releases) = {}
      BY <2>2
    <3>4. Once(Returned(st, NoEffect, m.lines[i]))
      BY <1>1, <2>2, <3>1, <3>3, ReturnedDoes
    <3> QED
      BY <2>2, <3>2, <3>4 DEF Locked
  <2> QED
    BY <1>4, <2>1, <2>3 DEF Locked, Within, Op
<1>5. CASE Op(i) \notin LockOps \cup {"Call"}
  BY <1>5 DEF Apply, Within, Op, LockOps
<1> QED
  BY <1>2, <1>3, <1>4, <1>5, NestedFacts DEF LockOps, Jumps, Plain

\* Up to the end of its block, what is held before an instruction are the locks around it.
LEMMA BeforeNested ==
  ASSUME m \in DOMAIN Monitors, m.helpers = top.helpers, eff \in [DOMAIN m.helpers -> Effect], IdleHelpers,
         NEW b \in Blocks, NEW st \in State, Locked(st, Around(b)), NEW i \in b .. End(b) - 1
  PROVE  Locked(Before(b, st, i), Around(i)) /\ i \in 1 .. Size /\ Before(b, st, i) \in State
<1>1. m \in Bodies /\ Size \in Nat \ {0} /\ b \in 1 .. Size
  BY NestedFacts, LeadersAreNumbers
<1>2. End(b) \in b + 1 .. Size + 1 /\ \A l \in Leaders : l > b => End(b) <= l
  BY <1>1, EndIsNextLeader
<1> DEFINE Good == {k \in b .. End(b) - 1 : Locked(Before(b, st, k), Around(k))}
<1>3. b \in Good
  BY <1>1, <1>2, BeforeSteps
<1>4. ASSUME NEW k \in Good, k \in b .. (End(b) - 1) - 1 PROVE k + 1 \in Good
  <2>1. k \in 1 .. Size /\ k < Size /\ k \in b .. Size /\ Locked(Before(b, st, k), Around(k))
    BY <1>1, <1>2, <1>4
  <2>2. Before(b, st, k + 1) = Apply(Before(b, st, k), k) /\ Before(b, st, k) \in State
    BY <1>1, <2>1, BeforeSteps
  <2>3. Op(k) \notin Jumps \cup {"Return", "Throw"}
    <3>1. SUFFICES ASSUME Op(k) \in Jumps \cup {"Return", "Throw"} PROVE FALSE
      OBVIOUS
    <3>2. k + 1 \in Leaders
      BY <2>1, <3>1 DEF Leaders
    <3> QED
      BY <1>1, <1>2, <1>4, <2>1, <3>2
  <2>4. Around(k + 1) = Within(m.insns[k], Around(k))
    BY <2>1, <2>3, NestedFacts DEF Jumps
  <2>5. Locked(Before(b, st, k + 1), Around(k + 1))
    BY <2>1, <2>2, <2>4, NestedStep
  <2> QED
    BY <1>1, <1>2, <1>4, <2>5
<1>5. b .. End(b) - 1 \subseteq Good
  <2>1. \A k \in Good : k \in b .. (End(b) - 1) - 1 => k + 1 \in Good
    BY <1>4
  <2>2. b \in Nat /\ End(b) - 1 \in Nat
    BY <1>1, <1>2
  <2> HIDE DEF Good
  <2> QED
    BY <1>3, <2>1, <2>2, IntervalInduction
<1> HIDE DEF Good
<1>6. i \in b .. Size + 1 /\ i \in 1 .. Size
  BY <1>1, <1>2
<1> QED
  BY <1>1, <1>5, <1>6, BeforeSteps DEF Good
\* An edge leads to its end with the locks around it.
LEMMA EdgesNested ==
  ASSUME TypeOK, MonitorInv, Watched, NEW b \in DOMAIN inn, NEW e \in EdgesFrom(b)
  PROVE  Locked(e[2], Around(e[1]))
<1> m \in DOMAIN Monitors
  BY DEF Watched
<1>1. b \in Blocks /\ inn[b] \in State /\ Locked(inn[b], Around(b)) /\ IdleHelpers /\ eff \in [DOMAIN m.helpers -> Effect]
      /\ m \in DOMAIN Monitors /\ m.helpers = top.helpers
  BY DEF TypeOK, MonitorInv, Watched
<1>2. m \in Bodies /\ Size \in Nat \ {0} /\ b \in 1 .. Size
  BY <1>1, NestedFacts, LeadersAreNumbers
<1>3. End(b) \in b + 1 .. Size + 1 /\ \A l \in Leaders : l > b => End(b) <= l
  BY <1>2, EndIsNextLeader
<1>4. CASE \E s \in Succ(b) : e = <<s, Out(b, inn[b])>>
  <2>1. PICK s \in Succ(b) : e = <<s, Out(b, inn[b])>>
    BY <1>4
  <2> DEFINE i == End(b) - 1
  <2>2. i \in b .. End(b) - 1 /\ i \in b .. Size /\ i + 1 = End(b) /\ i \in 1 .. Size
    BY <1>2, <1>3
  <2>3. Succ(b) = CASE Op(i) = "Goto"                 -> m.insns[i].targets \cap Blocks
                    [] Op(i) \in {"Branch", "Switch"} -> (m.insns[i].targets \cap Blocks) \cup Fall(b)
                    [] Op(i) \in {"Return", "Throw"}  -> {}
                    [] OTHER                          -> Fall(b)
    BY DEF Succ, Op
  <2>4. ~ (Op(i) \in {"Return", "Throw"})
    BY <2>1, <2>3
  <2> HIDE DEF i
  <2>5. Locked(Before(b, inn[b], i), Around(i)) /\ Before(b, inn[b], i) \in State
    BY <1>1, <2>2, BeforeNested
  <2>6. Out(b, inn[b]) = Apply(Before(b, inn[b], i), i)
    BY <1>1, <1>2, <2>2, BeforeSteps DEF Out
  <2>7. Locked(Out(b, inn[b]), Within(m.insns[i], Around(i)))
    BY <1>1, <2>2, <2>5, <2>6, NestedStep
  <2>8. Around(s) = Within(m.insns[i], Around(i))
    <3>1. CASE s \in m.insns[i].targets \cap Blocks /\ Op(i) \in Jumps
      <4>1. s \in 1 .. Size
        BY <1>2, <3>1, LeadersAreNumbers
      <4>2. Around(s) = Around(i)
        BY <2>2, <3>1, <4>1, NestedFacts
      <4> QED
        BY <3>1, <4>2 DEF Within, Op, Jumps
    <3>2. CASE s \in Fall(b) /\ Op(i) # "Goto"
      <4>1. s = i + 1 /\ s \in 1 .. Size
        BY <1>2, <2>2, <3>2, LeadersAreNumbers DEF Fall
      <4>2. i < Size
        BY <1>2, <2>2, <4>1
      <4> QED
        BY <2>2, <2>4, <3>2, <4>1, <4>2, NestedFacts
    <3> QED
      BY <2>1, <2>3, <2>4, <3>1, <3>2 DEF Jumps
  <2> QED
    BY <2>1, <2>7, <2>8
<1>5. CASE \E h \in Exc(b) : e = <<h, inn[b]>>
  <2>1. PICK c \in m.catches : b < c[2] /\ End(b) > c[1] /\ c[3] \in Blocks /\ e = <<c[3], inn[b]>>
    BY <1>5 DEF Exc
  <2>2. c[1] \in Leaders /\ c[1] \in Nat /\ c[3] \in 1 .. Size
    BY <1>2, <2>1, MethodFacts, LeadersAreNumbers DEF Leaders
  <2>3. c[1] <= b
    BY <1>2, <1>3, <2>1, <2>2
  <2>4. Around(c[3]) = Around(b)
    BY <1>2, <2>1, <2>2, <2>3, NestedFacts
  <2> QED
    BY <1>1, <2>1, <2>4
<1> QED
  BY <1>4, <1>5 DEF EdgesFrom

LEMMA MeetKeepsLocked ==
  ASSUME NEW st \in State, NEW other \in State, NEW ls, Locked(st, ls), Locked(other, ls)
  PROVE  Locked(Meet(st, other), ls)
<1>1. Meet(st, other).locks = {e \in st.locks : e.lock \in Held(other)}
  BY DEF Meet
<1>2. Meet(st, other).locks = st.locks
  BY <1>1 DEF Locked, Held
<1> QED
  BY <1>2 DEF Locked, Held, Once

LEMMA BareIsState ==
  ASSUME m \in Bodies
  PROVE  Bare \in State /\ Held(Bare) = {} /\ Bare.unmatched = {}
<1>1. <<>> \in Seq(Lock) /\ Len(<<>>) = 0
  OBVIOUS
<1>2. PICK ls : ls = <<>>
  OBVIOUS
<1>3. ls \in Seq(Lock) /\ Len(ls) = 0
  BY <1>1, <1>2
<1>4. Entered(ls) \in State /\ Held(Entered(ls)) = {ls[d] : d \in 1 .. Len(ls)} /\ Entered(ls).unmatched = {}
  BY <1>3, EnteredIsState
<1>5. Bare = Entered(ls)
  BY <1>2 DEF Bare
<1> QED
  BY <1>3, <1>4, <1>5

\* Instructions that leave the locks alone keep nothing what it was.
LEMMA BareStays ==
  ASSUME m \in Bodies, eff \in [DOMAIN m.helpers -> Effect], Lockless(m), NEW b \in 1 .. Size, NEW i \in b .. Size + 1
  PROVE  Before(b, Bare, i) = Bare
<1>1. Size \in Nat /\ Bare \in State
  BY MethodFacts, BareIsState
<1> DEFINE Good == {k \in b .. Size + 1 : Before(b, Bare, k) = Bare}
<1>2. b \in Good
  BY <1>1, BeforeSteps
<1>3. ASSUME NEW k \in Good, k \in b .. (Size + 1) - 1 PROVE k + 1 \in Good
  <2>1. k \in b .. Size /\ k \in 1 .. Size /\ Before(b, Bare, k) = Bare
    BY <1>1, <1>3
  <2>2. Before(b, Bare, k + 1) = Apply(Bare, k)
    BY <1>1, <2>1, BeforeSteps
  <2>3. Op(k) \in (Jumps \cup Plain) \ {"Call"}
    BY <2>1 DEF Lockless, Op, Size
  <2>4. Apply(Bare, k) = Bare
    BY <2>3 DEF Apply, Op, Jumps, Plain
  <2> QED
    BY <1>1, <2>1, <2>2, <2>4
<1>4. b .. Size + 1 \subseteq Good
  <2>1. \A k \in Good : k \in b .. (Size + 1) - 1 => k + 1 \in Good
    BY <1>3
  <2>2. b \in Nat /\ Size + 1 \in Nat
    BY <1>1
  <2> HIDE DEF Good
  <2> QED
    BY <1>2, <2>1, <2>2, IntervalInduction
<1> QED
  BY <1>4

LEMMA LocklessOut ==
  ASSUME TypeOK, phase = "helper", Lockless(top.helpers[Turn]), NEW b \in DOMAIN inn, inn[b] = Bare
  PROVE  Out(b, inn[b]) = Bare
<1>1. /\ m \in Bodies /\ eff \in [DOMAIN m.helpers -> Effect] /\ b \in Blocks
      /\ m = HelperOf(top, Turn)
  BY DEF TypeOK
<1>2. Lockless(m)
  BY <1>1 DEF Lockless, HelperOf
<1>3. Size \in Nat \ {0} /\ b \in 1 .. Size
  BY <1>1, MethodFacts, LeadersAreNumbers
<1>4. End(b) \in b .. Size + 1
  BY <1>1, <1>3, EndIsNextLeader
<1> QED
  BY <1>1, <1>2, <1>3, <1>4, BareStays DEF Out

\* The net effect of such a helper.
LEMMA LocklessEffect ==
  ASSUME TypeOK, phase = "helper", Lockless(top.helpers[Turn]), Bared
  PROVE  NetEffect = NoEffect
<1> DEFINE outs == {Out(b, inn[b]) : b \in Returns}
<1>1. \A b \in Returns : Out(b, inn[b]) = Bare
  BY LocklessOut DEF Returns, Bared
<1>2. \A st \in outs : st = Bare
  BY <1>1
<1>3. Held(Bare) = {} /\ Bare.unmatched = {}
  BY BareIsState DEF TypeOK
<1>4. NetEffect = [acquires |-> OnEvery({Held(st) : st \in outs}) \cap Lock, releases |-> OnEvery({st.unmatched : st \in outs})]
  BY DEF NetEffect
<1> HIDE DEF outs
<1>5. {Held(st) : st \in outs} \subseteq {{}} /\ {st.unmatched : st \in outs} \subseteq {{}}
  BY <1>2, <1>3
<1>6. \A sets : sets \subseteq {{}} => OnEvery(sets) = {}
  BY DEF OnEvery
<1> QED
  BY <1>4, <1>5, <1>6 DEF NoEffect

\* Whichever way such a helper is left, it has done nothing.
LEMMA LocklessRuns ==
  ASSUME NEW t \in Methods, NEW h \in DOMAIN t.helpers, Lockless(t.helpers[h])
  PROVE  Runs(t)[h].returns \subseteq {Keeps} /\ Runs(t)[h].throws \subseteq {Keeps}
<1>1. PICK g : IsDeep(g, t)
  BY RunsSteps
<1>2. MaxCalls \in 1 .. MaxCalls /\ MaxCalls - 1 \in 0 .. MaxCalls
  BY BoundsAssumption
<1> DEFINE known == g[MaxCalls - 1]
           b == t.helpers[h]
           S == {x \in Place(b) : x.did = Keeps}
<1>3. known \in Book(DOMAIN t.helpers) /\ Runs(t) = Deeper(t, known)
  BY <1>1, <1>2 DEF IsDeep
<1>4. IsBody(b, DOMAIN t.helpers)
  BY MethodsAssumption DEF IsMethod
<1>5. Lockless(b)
  OBVIOUS
<1>6. Runs(t)[h] = Ends(Reach(b, known))
  BY <1>3 DEF Deeper
<1> HIDE DEF known, b
<1>7. Begun \in S
  <2>1. Begun.at = 1 /\ Begun.did = Keeps /\ Begun = [at |-> 1, did |-> Keeps]
    BY DEF Begun
  <2>2. 1 \in 1 .. Len(b.insns) /\ Keeps \in Did
    BY <1>4, SingleDid DEF IsBody
  <2> QED
    BY <2>1, <2>2 DEF Place
<1>8. Then(Keeps, Keeps) = Keeps
  BY SinglesAreBits, ThenKeeps
<1>9. ASSUME NEW x \in S, x.at > 0, NEW y \in Onward(b, known, x) PROVE y \in S
  <2>1. x \in Place(b) /\ x.did = Keeps
    BY <1>9
  <2>2. x.at \in 1 .. Len(b.insns)
    BY <1>9, <2>1 DEF Place, Gone
  <2>3. b.insns[x.at].op \in (Jumps \cup Plain) \ {"Call"}
    BY <1>5, <2>2 DEF Lockless
  <2>4. Completing(b.insns[x.at], known) \subseteq {Keeps} /\ Throwing(b.insns[x.at], known) \subseteq {Keeps}
    BY <2>3 DEF Completing, Throwing, Jumps, Plain
  <2>5. \E d : d = Keeps /\ y = [at |-> y.at, did |-> Then(x.did, d)]
    BY <2>4, OnwardIs
  <2>6. y.did = Keeps
    <3>1. y = [at |-> y.at, did |-> Keeps]
      BY <1>8, <2>1, <2>5
    <3> QED
      BY <3>1
  <2>7. y \in Place(b)
    BY <1>3, <1>4, <1>9, <2>1, OnwardIsPlace
  <2> QED
    BY <2>6, <2>7
<1>10. \A x \in S \cap Place(b) : x.at > 0 => Onward(b, known, x) \subseteq S
  BY <1>9
<1> HIDE DEF S
<1>11. Reach(b, known) \subseteq S
  BY <1>3, <1>4, <1>7, <1>10, ReachInduction
<1>12. \A x \in Reach(b, known) : x.did = Keeps
  BY <1>11 DEF S
<1> QED
  BY <1>6, <1>12, EndsAre

LEMMA MonitorInit == Init => MonitorInv
BY DEF Init, MonitorInv, IdleHelpers, Watched

LEMMA MonitorTakeEdge ==
  ASSUME FlowInv, MonitorInv, NEW e \in edges, TakeEdge(e)
  PROVE  MonitorInv'
<1> DEFINE s == e[1]
           st == Joined(s, e[2])
<1>1. /\ UNCHANGED <<top, m, phase, todo, eff, next>> /\ pc' = 0 /\ edges' \subseteq edges
      /\ inn' = [b \in DOMAIN inn \cup {s} |-> IF b = s THEN st ELSE inn[b]]
  BY DEF TakeEdge, FlowInv, Idle, Solving
<1>2. IdleHelpers'
  BY <1>1 DEF IdleHelpers, MonitorInv
<1>3. ASSUME phase = "helper", Lockless(top.helpers[Turn]) PROVE Bared'
  <2>1. Bared
    BY <1>3 DEF MonitorInv
  <2>2. st = Bare
    <3>1. Meet(Bare, Bare) = Bare
      BY DEF Meet, Bare, Entered, Held
    <3> QED
      BY <2>1, <3>1 DEF Bared, Joined
  <2> HIDE DEF st, s
  <2>3. (\A b \in DOMAIN inn' : inn'[b] = Bare) /\ (\A d \in edges' : d[2] = Bare)
    BY <1>1, <2>1, <2>2 DEF Bared
  <2> QED
    BY <2>3 DEF Bared, Bare, Entered
<1>4. ASSUME Watched PROVE \A b \in DOMAIN inn' : Locked(inn'[b], Around(b))
  <2>1. e[2] \in State /\ Locked(e[2], Around(s))
    BY <1>4 DEF FlowInv, TypeOK, MonitorInv
  <2>2. Locked(st, Around(s))
    <3>1. CASE s \in DOMAIN inn
      <4>1. inn[s] \in State /\ Locked(inn[s], Around(s)) /\ st = Meet(inn[s], e[2])
        BY <1>4, <3>1 DEF FlowInv, TypeOK, MonitorInv, Joined
      <4> QED
        BY <2>1, <4>1, MeetKeepsLocked
    <3>2. CASE s \notin DOMAIN inn
      BY <2>1, <3>2 DEF Joined
    <3> QED
      BY <3>1, <3>2
  <2> HIDE DEF st, s
  <2>3. SUFFICES ASSUME NEW b \in DOMAIN inn' PROVE Locked(inn'[b], Around(b))
    OBVIOUS
  <2>4. CASE b = s
    BY <1>1, <2>2, <2>4
  <2>5. CASE b # s
    BY <1>1, <1>4, <2>3, <2>5 DEF MonitorInv
  <2> QED
    BY <2>4, <2>5
<1> HIDE DEF st, s
<1>5. \A x : Around(x)' = Around(x)
  BY <1>1 DEF Around
<1>6. \A x, y : Locked(x, y)' <=> Locked(x, y)
  BY DEF Locked, Held, Once
<1>7. ASSUME Watched PROVE (\A b \in DOMAIN inn' : Locked(inn'[b], Around(b)')) /\ (\A d \in edges' : Locked(d[2], Around(d[1])'))
  <2>1. \A d \in edges' : Locked(d[2], Around(d[1]))
    BY <1>1, <1>7 DEF MonitorInv
  <2> QED
    BY <1>4, <1>5, <1>7, <2>1
<1>8. (Watched' <=> Watched) /\ Turn' = Turn
  BY <1>1 DEF Watched, Turn
<1> QED
  BY <1>1, <1>2, <1>3, <1>7, <1>8 DEF MonitorInv, Locked, Held, Once, Lockless

LEMMA MonitorPopBlock ==
  ASSUME FlowInv, MonitorInv, PopBlock
  PROVE  MonitorInv'
<1>1. /\ UNCHANGED <<top, m, phase, todo, eff, next, inn>> /\ pc' = 0
      /\ edges' = EdgesFrom(Head(work)) /\ work # <<>>
  BY DEF PopBlock, FlowInv, Idle, Solving
<1>2. Head(work) \in DOMAIN inn
  BY <1>1 DEF FlowInv, TypeOK
<1>3. ASSUME phase = "helper", Lockless(top.helpers[Turn]) PROVE Bared'
  <2>1. Bared
    BY <1>3 DEF MonitorInv
  <2>2. Out(Head(work), inn[Head(work)]) = Bare /\ inn[Head(work)] = Bare
    BY <1>2, <1>3, <2>1, LocklessOut DEF FlowInv, Bared
  <2>3. \A d \in edges' : d[2] = Bare
    BY <1>1, <2>2 DEF EdgesFrom
  <2> QED
    BY <1>1, <2>1, <2>3 DEF Bared, Bare, Entered
<1>4. ASSUME Watched PROVE \A e \in edges' : Locked(e[2], Around(e[1]))
  BY <1>1, <1>2, <1>4, EdgesNested DEF FlowInv
<1>5. (Watched' <=> Watched) /\ Turn' = Turn
  BY <1>1 DEF Watched, Turn
<1> QED
  BY <1>1, <1>3, <1>4, <1>5 DEF MonitorInv, IdleHelpers, Around, Locked, Held, Once, Lockless

LEMMA MonitorSolved ==
  ASSUME FlowInv, MonitorInv, Solved
  PROVE  MonitorInv'
<1>1. /\ phase = "helper" /\ phase' = "effects" /\ UNCHANGED <<top, eff>>
      /\ next' = [next EXCEPT ![Turn] = NetEffect]
  BY DEF Solved
<1>2. Lockless(top.helpers[Turn]) => NetEffect = NoEffect
  BY <1>1, LocklessEffect DEF MonitorInv, FlowInv
<1>3. next \in [DOMAIN top.helpers -> Effect] /\ IdleHelpers
  BY DEF FlowInv, TypeOK, MonitorInv
<1>4. ASSUME NEW h \in DOMAIN top.helpers, Lockless(top.helpers[h]) PROVE eff[h] = NoEffect /\ next'[h] = NoEffect
  <2> HIDE DEF NetEffect, NoEffect
  <2> QED
    BY <1>1, <1>2, <1>3, <1>4 DEF IdleHelpers
<1> QED
  BY <1>1, <1>4 DEF MonitorInv, IdleHelpers, Watched, Lockless, NoEffect

LEMMA MonitorRound ==
  ASSUME MonitorInv, Round
  PROVE  MonitorInv'
<1>1. phase' = "effects" /\ top' = top /\ eff' = next /\ next' = next
  BY DEF Round
<1> QED
  BY <1>1 DEF MonitorInv, IdleHelpers, Watched, Lockless, NoEffect

LEMMA MonitorPick ==
  ASSUME MonitorInv, Pick
  PROVE  MonitorInv'
<1>1. /\ phase' = "helper" /\ UNCHANGED <<top, eff, next>> /\ edges' = {}
      /\ inn' = [b \in {1} |-> Entered(HelperOf(top, Turn).entry)]
  BY DEF Pick, Enter
<1>2. HelperOf(top, Turn).entry = <<>>
  BY DEF HelperOf
<1>3. \A b \in DOMAIN inn' : inn'[b] = Bare
  BY <1>1, <1>2 DEF Bare
<1>4. Bared'
  BY <1>1, <1>3 DEF Bared, Bare, Entered
<1>5. IdleHelpers'
  BY <1>1 DEF MonitorInv, IdleHelpers, Lockless, NoEffect
<1> QED
  BY <1>1, <1>4, <1>5 DEF MonitorInv, Watched

\* The method is entered with the locks around its first instruction.
LEMMA MonitorAgreed ==
  ASSUME FlowInv, MonitorInv, Agreed
  PROVE  MonitorInv'
<1>1. /\ phase' = "solve" /\ UNCHANGED <<top, eff, next>> /\ edges' = {} /\ pc' = 0 /\ m' = top
      /\ inn' = [b \in {1} |-> Entered(top.entry)]
  BY DEF Agreed, Enter, FlowInv, Idle
<1>2. IdleHelpers'
  BY <1>1 DEF MonitorInv, IdleHelpers, Lockless, NoEffect
<1>3. ASSUME top \in DOMAIN Monitors PROVE Locked(Entered(top.entry), Monitors[top][1])
  <2>1. /\ m \in Bodies /\ top.entry \in Seq(Lock) /\ IsInjective(top.entry)
        /\ Monitors[top][1] = {top.entry[k] : k \in 1 .. Len(top.entry)}
    BY <1>3, MonitorsAssumption, MethodsAssumption DEF FlowInv, TypeOK, IsMethod, IsNested
  <2>2. Held(Entered(top.entry)) = Monitors[top][1]
    BY <2>1, EnteredIsState
  <2>3. Once(Entered(top.entry))
    <3>1. SUFFICES ASSUME NEW j \in 1 .. Len(top.entry), NEW k \in 1 .. Len(top.entry), top.entry[j] = top.entry[k]
                   PROVE  j = k
      BY DEF Once, Entered
    <3> QED
      BY <2>1, <3>1 DEF IsInjective
  <2> QED
    BY <2>2, <2>3 DEF Locked
<1>4. \A x : Around(x)' = Monitors[top][x]
  BY <1>1 DEF Around
<1>5. ASSUME Watched' PROVE \A b \in DOMAIN inn' : Locked(inn'[b], Around(b)')
  <2>1. top \in DOMAIN Monitors
    BY <1>1, <1>5 DEF Watched
  <2> QED
    BY <1>1, <1>3, <1>4, <2>1
<1> QED
  BY <1>1, <1>2, <1>5 DEF MonitorInv, Locked, Held, Once

\* Steps that leave the dataflow alone.
LEMMA MonitorSame ==
  ASSUME MonitorInv, UNCHANGED <<top, m, eff, next, inn, edges>>, phase \in {"solve", "done"}, phase' \in {"solve", "done"},
         Watched /\ pc' # 0 => \A l \in Lock : has'[l] = IF l \in Around(pc') THEN 1 ELSE 0
  PROVE  MonitorInv'
BY DEF MonitorInv, Watched, IdleHelpers, Around, Locked, Held, Once, Lockless, NoEffect

\* A sequence without repetitions has each of its members once.
LEMMA CountOnce ==
  ASSUME NEW seq \in Seq(Lock), IsInjective(seq), NEW l \in Lock
  PROVE  CountOf(seq, l) = IF l \in {seq[k] : k \in 1 .. Len(seq)} THEN 1 ELSE 0
<1> DEFINE S == {k \in 1 .. Len(seq) : seq[k] = l}
<1>1. CASE \E k \in 1 .. Len(seq) : seq[k] = l
  <2>1. PICK k \in 1 .. Len(seq) : seq[k] = l
    BY <1>1
  <2>2. S = {k}
    BY <2>1 DEF IsInjective
  <2>3. Cardinality(S) = 1
    BY <2>2, FS_Singleton
  <2> QED
    BY <2>1, <2>3 DEF CountOf
<1>2. CASE ~ \E k \in 1 .. Len(seq) : seq[k] = l
  <2>1. S = {}
    BY <1>2
  <2>2. Cardinality(S) = 0
    BY <2>1, FS_EmptySet
  <2> QED
    BY <1>2, <2>2 DEF CountOf
<1> QED
  BY <1>1, <1>2

\* What an instruction comes to, where the blocks say what is held.
LEMMA OutcomeNested ==
  ASSUME FlowInv, EffectsInv, Watched, pc \in 1 .. Size, NEW d \in Completing(m.insns[pc], runs), Do(d),
         \A l \in Lock : has[l] = IF l \in Around(pc) THEN 1 ELSE 0
  PROVE  \A l \in Lock : has'[l] = IF l \in Within(m.insns[pc], Around(pc)) THEN 1 ELSE 0
<1>1. /\ m \in DOMAIN Monitors /\ m \in Methods /\ m = top /\ runs = Runs(top)
      /\ has \in [Lock -> Nat] /\ Around(pc) \subseteq Lock
  BY NestedFacts DEF FlowInv, TypeOK, Around, Watched, EffectsInv
<1>2. \A l \in Lock : has'[l] = has[l] + d.net[l]
  BY DEF Do
<1>3. CASE Op(pc) = "Enter"
  <2>1. d = Gains(m.insns[pc].lock) /\ m.insns[pc].lock \in Lock \ Around(pc)
    BY <1>1, <1>3, NestedFacts DEF Completing, Op
  <2>2. \A l \in Lock : d.net[l] = IF l = m.insns[pc].lock THEN 1 ELSE 0
    BY <2>1 DEF Gains
  <2> QED
    BY <1>1, <1>2, <1>3, <2>1, <2>2 DEF Within, Op
<1>4. CASE Op(pc) = "Exit"
  <2>1. d = Loses(m.insns[pc].lock) /\ m.insns[pc].lock \in Around(pc)
    BY <1>1, <1>4, NestedFacts DEF Completing, Op
  <2>2. \A l \in Lock : d.net[l] = IF l = m.insns[pc].lock THEN -1 ELSE 0
    BY <2>1 DEF Loses
  <2> QED
    BY <1>1, <1>2, <1>4, <2>1, <2>2 DEF Within, Op
<1>5. ASSUME d = Keeps, Op(pc) \notin {"Enter", "Exit"}
      PROVE  \A l \in Lock : has'[l] = IF l \in Within(m.insns[pc], Around(pc)) THEN 1 ELSE 0
  <2>1. \A l \in Lock : d.net[l] = 0
    BY <1>5 DEF Keeps
  <2> QED
    BY <1>1, <1>2, <1>5, <2>1 DEF Within, Op
<1>6. CASE Op(pc) = "Call"
  <2>1. m.insns[pc].callee \in DOMAIN top.helpers /\ Lockless(top.helpers[m.insns[pc].callee])
    BY <1>1, <1>6, NestedFacts
  <2>2. runs[m.insns[pc].callee].returns \subseteq {Keeps}
    BY <1>1, <2>1, LocklessRuns
  <2>3. d = Keeps
    BY <1>6, <2>2 DEF Completing, Op
  <2> QED
    BY <1>5, <1>6, <2>3
<1>7. CASE Op(pc) \in (Jumps \cup Plain) \ {"Call"}
  <2>1. d = Keeps
    BY <1>7 DEF Completing, Op, Jumps, Plain
  <2> QED
    BY <1>5, <1>7, <2>1 DEF Jumps, Plain
<1> QED
  BY <1>1, <1>3, <1>4, <1>6, <1>7, NestedFacts

\* An instruction that throws leaves the locks alone.
LEMMA ThrownNested ==
  ASSUME FlowInv, EffectsInv, Watched, pc \in 1 .. Size, NEW d \in Throwing(m.insns[pc], runs), Do(d)
  PROVE  \A l \in Lock : has'[l] = has[l]
<1>1. m \in DOMAIN Monitors /\ m \in Methods /\ m = top /\ runs = Runs(top) /\ has \in [Lock -> Nat]
  BY NestedFacts DEF FlowInv, TypeOK, Watched, EffectsInv
<1>2. d = Keeps
  <2>1. CASE Op(pc) = "Call"
    <3>1. m.insns[pc].callee \in DOMAIN top.helpers /\ Lockless(top.helpers[m.insns[pc].callee])
      BY <1>1, <2>1, NestedFacts
    <3>2. runs[m.insns[pc].callee].throws \subseteq {Keeps}
      BY <1>1, <3>1, LocklessRuns
    <3> QED
      BY <2>1, <3>2 DEF Throwing, Op
  <2>2. CASE Op(pc) # "Call"
    BY <2>2 DEF Throwing, Op
  <2> QED
    BY <2>1, <2>2
<1>3. \A l \in Lock : d.net[l] = 0
  BY <1>2 DEF Keeps
<1> QED
  BY <1>1, <1>3 DEF Do

LEMMA MonitorExecution ==
  ASSUME FlowInv, EffectsInv, MonitorInv, Execution
  PROVE  MonitorInv'
<1>1. UNCHANGED <<top, m, phase, eff, next, inn, edges>> /\ phase = "done"
  BY DEF Execution, Start, Complete, Unwind, FlowInv, Idle
<1>2. SUFFICES ASSUME Watched, m \in DOMAIN Monitors, pc' # 0
               PROVE  \A l \in Lock : has'[l] = IF l \in Around(pc') THEN 1 ELSE 0
  BY <1>1, MonitorSame DEF Watched
<1>3. m \in Bodies /\ Size \in Nat \ {0} /\ pc \in 0 .. Size /\ m.entry \in Seq(Lock)
  BY <1>2, NestedFacts, MethodFacts DEF FlowInv, TypeOK
<1>4. CASE Start
  <2>1. pc' = 1 /\ \A l \in Lock : has'[l] = CountOf(m.entry, l)
    BY <1>4 DEF Start
  <2> QED
    BY <1>2, <1>3, <2>1, NestedFacts, CountOnce
<1>5. CASE Complete
  <2>1. pc \in 1 .. Size /\ pc' \in NextPc(pc)
    BY <1>3, <1>5 DEF Complete
  <2>2. \A l \in Lock : has[l] = IF l \in Around(pc) THEN 1 ELSE 0
    BY <1>2, <1>5 DEF Complete, MonitorInv
  <2>3. PICK d \in Completing(m.insns[pc], runs) : Do(d)
    BY <1>5 DEF Complete
  <2>4. \A l \in Lock : has'[l] = IF l \in Within(m.insns[pc], Around(pc)) THEN 1 ELSE 0
    BY <1>2, <2>1, <2>2, <2>3, OutcomeNested
  <2>5. PICK i : i = pc'
    OBVIOUS
  <2>6. i \in NextPc(pc) /\ i # 0
    BY <1>2, <2>1, <2>5
  <2>7. Around(i) = Within(m.insns[pc], Around(pc))
    <3>1. CASE Op(pc) \in Jumps /\ i \in m.insns[pc].targets \cap 1 .. Size
      <4>1. Around(i) = Around(pc)
        BY <1>2, <2>1, <3>1, NestedFacts
      <4> QED
        BY <3>1, <4>1 DEF Within, Op, Jumps
    <3>2. CASE Op(pc) \notin {"Goto", "Return", "Throw"} /\ i = pc + 1 /\ i \in 1 .. Size
      <4>1. pc < Size
        BY <1>3, <3>2
      <4> QED
        BY <1>2, <2>1, <3>2, <4>1, NestedFacts
    <3>3. \/ Op(pc) \in Jumps /\ i \in m.insns[pc].targets \cap 1 .. Size
          \/ Op(pc) \notin {"Goto", "Return", "Throw"} /\ i = pc + 1 /\ i \in 1 .. Size
      BY <2>6 DEF NextPc, NextOf, Jumps, Op, Size
    <3> QED
      BY <3>1, <3>2, <3>3
  <2>8. Around(pc') = Around(i)
    BY <2>5
  <2> QED
    BY <2>4, <2>7, <2>8
<1>6. CASE Unwind
  <2>1. pc \in 1 .. Size
    BY <1>3, <1>6 DEF Unwind
  <2>2. PICK c \in m.catches : c[1] <= pc /\ pc < c[2] /\ c[3] = pc' /\ c[3] \in 1 .. Size
    BY <1>2, <1>6 DEF Unwind, HandlersOf, Size
  <2>3. Around(c[3]) = Around(pc)
    BY <1>2, <2>1, <2>2, NestedFacts
  <2>4. \A l \in Lock : has[l] = IF l \in Around(pc) THEN 1 ELSE 0
    BY <1>2, <2>1, <1>6 DEF Unwind, MonitorInv
  <2>5. PICK d \in Throwing(m.insns[pc], runs) : Do(d)
    BY <1>6 DEF Unwind
  <2>6. \A l \in Lock : has'[l] = has[l]
    BY <1>2, <2>1, <2>5, ThrownNested
  <2> QED
    BY <2>2, <2>3, <2>4, <2>6
<1> QED
  BY <1>4, <1>5, <1>6 DEF Execution

LEMMA MonitorNext == FlowInv /\ EffectsInv /\ MonitorInv /\ [Next]_vars => MonitorInv'
<1> SUFFICES ASSUME FlowInv, EffectsInv, MonitorInv, [Next]_vars PROVE MonitorInv'
  OBVIOUS
<1>1. CASE Pick
  BY <1>1, MonitorPick
<1>2. CASE Solved
  BY <1>2, MonitorSolved
<1>3. CASE Round
  BY <1>3, MonitorRound
<1>4. CASE Agreed
  BY <1>4, MonitorAgreed
<1>5. CASE PopBlock
  BY <1>5, MonitorPopBlock
<1>6. CASE \E e \in edges : TakeEdge(e)
  BY <1>6, MonitorTakeEdge
<1>7. CASE Converge
  <2>1. UNCHANGED <<top, m, eff, next, inn, edges>> /\ pc' = 0 /\ phase = "solve" /\ phase' = "done"
    BY <1>7 DEF Converge, FlowInv, Idle
  <2> QED
    BY <2>1, MonitorSame
<1>8. CASE Execution
  BY <1>8, MonitorExecution
<1>9. CASE UNCHANGED vars
  BY <1>9 DEF vars, MonitorInv, Watched, Bared, Bare, Entered, Turn, Lockless, NoEffect, IdleHelpers, Around, Locked, Held, Once
<1> QED
  BY <1>1, <1>2, <1>3, <1>4, <1>5, <1>6, <1>7, <1>8, <1>9 DEF Next, Solver

LEMMA MonitorHolds == Spec => []MonitorInv
BY MonitorInit, MonitorNext, FlowHolds, EffectsHold, PTL DEF Spec

\* At an instruction reached, the replay holds the locks around it.
LEMMA HeldAtNested ==
  ASSUME FlowInv, MonitorInv, Watched, NEW i \in 1 .. Size, BlockOf(i) \in DOMAIN inn
  PROVE  LET st == Before(BlockOf(i), inn[BlockOf(i)], i) IN st \in State /\ Locked(st, Around(i))
<1>1. m \in DOMAIN Monitors /\ m.helpers = top.helpers
  BY DEF Watched, FlowInv, TypeOK
<1>2. m \in Bodies /\ BlockOf(i) \in Blocks /\ BlockOf(i) <= i /\ i < End(BlockOf(i)) /\ BlockOf(i) \in 1 .. Size
  BY <1>1, NestedFacts, BlockOfIsGreatest, LeadersAreNumbers
<1>3. i \in BlockOf(i) .. End(BlockOf(i)) - 1
  BY <1>1, <1>2, EndIsNextLeader, NestedFacts
<1>4. inn[BlockOf(i)] \in State /\ Locked(inn[BlockOf(i)], Around(BlockOf(i))) /\ IdleHelpers /\ eff \in [DOMAIN m.helpers -> Effect]
  BY DEF FlowInv, TypeOK, MonitorInv
<1> QED
  BY <1>1, <1>2, <1>3, <1>4, BeforeNested

\* On code compiled from nested `synchronized` blocks the monitor set is
\* path-independent (flow.rs:26-28): it is exactly what is held.
THEOREM Monitored == Spec => []MonitorsAreExact
<1>1. FlowInv /\ MonitorInv => MonitorsAreExact
  <2> SUFFICES ASSUME FlowInv, MonitorInv, m \in DOMAIN Monitors, pc # 0, NEW l \in Lock
               PROVE  l \in HeldAt(pc) <=> has[l] > 0
    BY DEF MonitorsAreExact
  <2>1. pc \in 1 .. Size /\ BlockOf(pc) \in DOMAIN inn /\ Watched
    BY NestedFacts DEF FlowInv, TypeOK, Idle, EveryStepIsReplayed, Watched
  <2>2. HeldAt(pc) = Around(pc)
    BY <2>1, HeldAtNested DEF HeldAt, Locked
  <2> QED
    BY <2>1, <2>2 DEF MonitorInv
<1> QED
  BY <1>1, FlowHolds, MonitorHolds, PTL
-----------------------------------------------------------------------------
(***************************************************************************)
(* The walk over a method of nested blocks gives each lock its one name.   *)
(***************************************************************************)
IsScan(sc) == DOMAIN sc = {"names", "spans", "calls"}

\* Each lock named so far has the name the extraction gives it.
Right(ns) == \A l \in DOMAIN ns : l \in Lock /\ ns[l] = Canonical[l]

\* What the walk knows of an instruction it has replayed.
Walked(j) ==
  BlockOf(j) \in DOMAIN inn =>
    /\ Op(j) = "Enter" => m.insns[j].lock \in DOMAIN names
    /\ Op(j) = "Call" => j \in DOMAIN calls /\ calls[j].held = {Canonical[l] : l \in Around(j)}

ScanInv ==
  /\ at \in 1 .. Size + 1
  /\ phase # "done" => at = 1
  /\ at = 1 => names = <<>> /\ calls = <<>>
  /\ Watched /\ Told =>
       /\ Right(names)
       /\ DOMAIN calls \subseteq 1 .. at - 1
       /\ \A j \in 1 .. at - 1 : Walked(j)

\* A lock that is named, or is the only one taken on the line, gets its right name.
LEMMA NamedIs ==
  ASSUME NEW sc, IsScan(sc), Right(sc.names), NEW locks, NEW line,
         \A l \in locks : l \notin DOMAIN sc.names => l \in Lock /\ SitesOn(line) = {Canonical[l]}
  PROVE  /\ IsScan(Named(sc, locks, line))
         /\ Right(Named(sc, locks, line).names)
         /\ DOMAIN Named(sc, locks, line).names = DOMAIN sc.names \cup locks
         /\ Named(sc, locks, line).spans = sc.spans
         /\ Named(sc, locks, line).calls = sc.calls
<1> DEFINE new == [l \in locks |-> IF Cardinality(SitesOn(line)) = 1 THEN CHOOSE c \in SitesOn(line) : TRUE ELSE l]
           ns == Kept(sc.names, new)
<1>1. \A l \in locks : l \notin DOMAIN sc.names => new[l] = Canonical[l]
  <2> SUFFICES ASSUME NEW l \in locks, l \notin DOMAIN sc.names PROVE new[l] = Canonical[l]
    OBVIOUS
  <2>1. SitesOn(line) = {Canonical[l]}
    OBVIOUS
  <2>2. Cardinality({Canonical[l]}) = 1
    BY FS_Singleton
  <2>3. (CHOOSE c \in {Canonical[l]} : TRUE) = Canonical[l]
    OBVIOUS
  <2> QED
    BY <2>1, <2>2, <2>3
<1>2. DOMAIN new = locks
  OBVIOUS
<1> HIDE DEF new
<1>3. ns = [x \in DOMAIN sc.names \cup locks |-> IF x \in DOMAIN sc.names THEN sc.names[x] ELSE new[x]]
  BY <1>2 DEF Kept
<1>4. Right(ns) /\ DOMAIN ns = DOMAIN sc.names \cup locks
  BY <1>1, <1>3 DEF Right
<1>5. Named(sc, locks, line) = [sc EXCEPT !.names = ns]
  BY DEF Named, new
<1> HIDE DEF ns
<1> QED
  BY <1>4, <1>5 DEF IsScan

\* Lines that tell the acquisitions apart have one name each.
LEMMA SiteTells ==
  ASSUME m \in DOMAIN Monitors, Told, NEW i \in 1 .. Size, Op(i) = "Enter"
  PROVE  SitesOn(m.lines[i]) = {Canonical[m.insns[i].lock]} /\ m.insns[i].lock \in Lock
<1>1. m.insns[i].named /\ m.insns[i].lock \in Lock
  BY NestedFacts
<1>2. SiteName(i) = Canonical[m.insns[i].lock] /\ Op(i) \in Acquiring
  BY <1>1 DEF SiteName, Acquiring
<1>3. \A j \in 1 .. Size : Op(j) \in Acquiring /\ m.lines[j] = m.lines[i] => SiteName(j) = SiteName(i)
  BY <1>2 DEF Told
<1> QED
  BY <1>1, <1>2, <1>3 DEF SitesOn

\* The right names of locks are names of the whole program.
LEMMA NamesOfIs ==
  ASSUME m \in Methods, NEW sc, Right(sc.names), NEW locks, locks \subseteq DOMAIN sc.names
  PROVE  NamesOf(sc, locks) = {Canonical[l] : l \in locks}
<1>1. \A l \in locks : l \in Lock /\ sc.names[l] = Canonical[l]
  BY DEF Right
<1>2. \A l \in Lock : ~ IsOpaque(Canonical[l])
  BY CanonicalAssumption DEF IsOpaque, Size
<1> QED
  BY <1>1, <1>2 DEF NamesOf

\* A callee without an effect leaves a call behind and nothing else.
LEMMA HelpedIs ==
  ASSUME NEW sc, NEW st, NEW i, eff[m.insns[i].callee] = NoEffect
  PROVE  Helped(sc, st, i) = CallMade(sc, i, Held(st))
<1> DEFINE e == eff[m.insns[i].callee]
           drops == SetToSeq(e.releases)
           takes == SetToSeq(e.acquires)
           line == m.lines[i]
           Drop(p, l) == [sc |-> FreedFrom(p.sc, p.st, l, line), st |-> Release(p.st, {l})]
           Take(p, l) == [sc |-> Taken(p.sc, l, line, Held(p.st)), st |-> Push(p.st, <<l>>, line)]
           first == [sc |-> CallMade(sc, i, Held(st)), st |-> st]
           Dropping(f) == f = [s \in SUBSET DOMAIN drops |-> IF s = {} THEN first ELSE Drop(f[s \ {Max(s)}], drops[Max(s)])]
           dropping == CHOOSE f : Dropping(f)
           dropped == dropping[DOMAIN drops]
           Taking(f) == f = [s \in SUBSET DOMAIN takes |-> IF s = {} THEN dropped ELSE Take(f[s \ {Max(s)}], takes[Max(s)])]
           taking == CHOOSE f : Taking(f)
           taken == taking[DOMAIN takes]
<1>1. Helped(sc, st, i) = taken.sc
  BY DEF Helped, FoldLeft, MapThenFoldSet
<1>2. drops = <<>> /\ takes = <<>>
  <2>1. SetToSeq({}) = <<>>
    BY FS_EmptySet, SetToSeqLists
  <2>2. e.releases = {} /\ e.acquires = {}
    BY DEF NoEffect
  <2> QED
    BY <2>1, <2>2
<1> HIDE DEF drops, takes, first, Drop, Take
<1>3. (\A s \in SUBSET DOMAIN drops : s = {}) /\ (\A s \in SUBSET DOMAIN takes : s = {})
  BY <1>2
<1>4. Dropping([s \in SUBSET DOMAIN drops |-> first])
  BY <1>3
<1> HIDE DEF Dropping
<1>5. Dropping(dropping)
  BY <1>4
<1> HIDE DEF dropping
<1>6. dropped = first
  BY <1>3, <1>5 DEF Dropping
<1> HIDE DEF dropped
<1>7. Taking([s \in SUBSET DOMAIN takes |-> dropped])
  BY <1>3
<1> HIDE DEF Taking
<1>8. Taking(taking)
  BY <1>7
<1> HIDE DEF taking
<1>9. taken = dropped
  BY <1>3, <1>8 DEF Taking
<1> QED
  BY <1>1, <1>6, <1>9 DEF first
\* Every lock around an instruction is one around its block or was taken in it, above.
LEMMA AroundIsFrom ==
  ASSUME m \in DOMAIN Monitors, NEW b \in Blocks, NEW i \in b .. End(b) - 1, NEW l \in Around(i)
  PROVE  l \in Around(b) \/ \E j \in b .. i - 1 : Op(j) = "Enter" /\ m.insns[j].lock = l
<1>1. /\ Size \in Nat \ {0} /\ b \in 1 .. Size /\ End(b) \in b + 1 .. Size + 1
      /\ \A x \in Leaders : x > b => End(b) <= x
  BY NestedFacts, LeadersAreNumbers, EndIsNextLeader
<1> DEFINE From(k) == l \in Around(b) \/ \E j \in b .. k - 1 : Op(j) = "Enter" /\ m.insns[j].lock = l
           Good == {k \in b .. End(b) - 1 : l \in Around(k) => From(k)}
<1>2. b \in Good
  BY <1>1
<1>3. ASSUME NEW k \in Good, k \in b .. (End(b) - 1) - 1 PROVE k + 1 \in Good
  <2>1. SUFFICES ASSUME l \in Around(k + 1) PROVE From(k + 1)
    BY <1>1, <1>3
  <2>2. k \in 1 .. Size /\ k < Size /\ k + 1 < End(b)
    BY <1>1, <1>3
  <2>3. Op(k) \notin {"Goto", "Return", "Throw"}
    <3>1. SUFFICES ASSUME Op(k) \in {"Goto", "Return", "Throw"} PROVE FALSE
      OBVIOUS
    <3>2. k + 1 \in Leaders
      BY <2>2, <3>1 DEF Leaders, Jumps
    <3> QED
      BY <1>1, <1>3, <2>2, <3>2
  <2>4. Around(k + 1) = Within(m.insns[k], Around(k))
    BY <2>2, <2>3, NestedFacts
  <2>5. CASE Op(k) = "Enter" /\ l = m.insns[k].lock
    BY <1>1, <1>3, <2>5
  <2>6. CASE l \in Around(k)
    BY <1>1, <1>3, <2>6
  <2> QED
    BY <2>1, <2>4, <2>5, <2>6 DEF Within, Op
<1> DEFINE last == End(b) - 1
<1>4. b \in Nat /\ last \in Nat
  BY <1>1
<1>5. \A k \in Good : k \in b .. last - 1 => k + 1 \in Good
  BY <1>3
<1>6. b .. last = b .. End(b) - 1
  OBVIOUS
<1> HIDE DEF Good, last
<1>7. b .. last \subseteq Good
  BY <1>2, <1>4, <1>5, IntervalInduction
<1>8. i \in Good
  BY <1>6, <1>7
<1> QED
  BY <1>8 DEF Good

\* When the walk reaches an instruction, it has named each lock held there.
LEMMA HeldIsNamed ==
  ASSUME FlowInv, MonitorInv, ScanInv, Watched, Told, at \in 1 .. Size, BlockOf(at) \in DOMAIN inn
  PROVE  Around(at) \subseteq DOMAIN names
<1> m \in DOMAIN Monitors
  BY DEF Watched
<1> DEFINE b == BlockOf(at)
<1>1. b \in Blocks /\ b \in 1 .. Size /\ b <= at /\ at < End(b) /\ Size \in Nat
      /\ m \in Bodies /\ m \in DOMAIN Monitors
  BY NestedFacts, BlockOfIsGreatest, LeadersAreNumbers DEF Watched
<1>2. at \in b .. End(b) - 1 /\ End(b) \in b + 1 .. Size + 1
  BY <1>1, EndIsNextLeader
<1>3. Held(inn[b]) = Around(b)
  BY DEF MonitorInv, Locked
<1>4. ASSUME NEW l \in Around(at) PROVE l \in DOMAIN names
  <2>1. PICK j \in 1 .. at - 1 : Op(j) = "Enter" /\ m.insns[j].lock = l /\ BlockOf(j) \in DOMAIN inn
    <3>1. CASE l \in Around(b)
      <4>1. PICK j \in 1 .. b - 1 : Op(j) \in Acquiring /\ Operand(j) = l /\ BlockOf(j) \in DOMAIN inn
        BY <1>3, <3>1 DEF Told
      <4>2. j \in 1 .. Size /\ j \in 1 .. at - 1
        BY <1>1, <4>1
      <4>3. Op(j) = "Enter" /\ m.insns[j].named
        BY <4>1, <4>2, NestedFacts DEF Acquiring, Jumps, Plain
      <4> QED
        BY <4>1, <4>2, <4>3 DEF Operand
    <3>2. CASE \E j \in b .. at - 1 : Op(j) = "Enter" /\ m.insns[j].lock = l
      <4>1. PICK j \in b .. at - 1 : Op(j) = "Enter" /\ m.insns[j].lock = l
        BY <3>2
      <4>2. j \in 1 .. Size /\ j \in 1 .. at - 1 /\ b <= j /\ j < End(b)
        BY <1>1, <1>2, <4>1
      <4>3. BlockOf(j) = b
        BY <1>1, <4>2, BlockOfIsGreatest
      <4> QED
        BY <4>1, <4>2, <4>3
    <3> QED
      BY <1>1, <1>2, <1>4, <3>1, <3>2, AroundIsFrom
  <2> QED
    BY <2>1 DEF ScanInv, Walked
<1> QED
  BY <1>4

\* What replaying an instruction adds.
LEMMA ReplayedIs ==
  ASSUME FlowInv, MonitorInv, Watched, Told, NEW i \in 1 .. Size, NEW st \in State, Locked(st, Around(i)),
         NEW sc, IsScan(sc), Right(sc.names), Around(i) \subseteq DOMAIN sc.names, i \notin DOMAIN sc.calls
  PROVE  LET result == Replayed(sc, st, i)
         IN  /\ Right(result.names) /\ DOMAIN sc.names \subseteq DOMAIN result.names
             /\ Op(i) = "Enter" => m.insns[i].lock \in DOMAIN result.names
             /\ DOMAIN result.calls \subseteq DOMAIN sc.calls \cup {i}
             /\ \A j \in DOMAIN sc.calls : j \in DOMAIN result.calls /\ result.calls[j] = sc.calls[j]
             /\ Op(i) = "Call" => i \in DOMAIN result.calls /\ result.calls[i].held = {Canonical[l] : l \in Around(i)}
<1> DEFINE result == Replayed(sc, st, i)
<1> m \in DOMAIN Monitors /\ m.helpers = top.helpers
  BY DEF Watched, FlowInv, TypeOK
<1>1. m \in Methods /\ Held(st) = Around(i)
  BY NestedFacts DEF Locked
<1>2. CASE Op(i) = "Enter"
  <2> DEFINE l == m.insns[i].lock
             line == m.lines[i]
             own == Named(sc, {l}, line)
             all == Named(own, Around(i), line)
  <2>1. SitesOn(line) = {Canonical[l]} /\ l \in Lock /\ m.insns[i].named
    BY <1>2, SiteTells, NestedFacts
  <2>2. result = Taken(sc, l, line, Around(i))
    BY <1>1, <1>2, <2>1 DEF Replayed, Operand, Acquiring, Op
  <2> HIDE DEF l, line, result
  <2>3. IsScan(own) /\ Right(own.names) /\ DOMAIN own.names = DOMAIN sc.names \cup {l} /\ own.calls = sc.calls
    BY <2>1, NamedIs
  <2> HIDE DEF own
  <2>4. IsScan(all) /\ Right(all.names) /\ DOMAIN all.names = DOMAIN own.names \cup Around(i) /\ all.calls = own.calls
    BY <2>3, NamedIs
  <2> HIDE DEF all
  <2>5. PICK spans_ : result = own \/ result = [all EXCEPT !.spans = spans_]
    BY <2>2 DEF Taken, own, all
  <2>6. result.names = own.names \/ result.names = all.names
    BY <2>4, <2>5 DEF IsScan
  <2>7. result.calls = sc.calls
    BY <2>3, <2>4, <2>5 DEF IsScan
  <2>8. Right(result.names) /\ DOMAIN sc.names \subseteq DOMAIN result.names /\ l \in DOMAIN result.names
    BY <2>3, <2>4, <2>6
  <2> QED
    BY <1>2, <2>7, <2>8 DEF l, result
<1>3. CASE Op(i) = "Exit"
  <2> DEFINE l == m.insns[i].lock
             e == Innermost(st, l)
             own == Named(sc, {l}, e.enter)
  <2>1. m.insns[i].named /\ l \in Around(i)
    BY <1>3, NestedFacts
  <2>2. e.lock = l
    BY <1>1, <2>1, InnermostIsThere
  <2>3. result = Freed(sc, l, m.lines[i], e.enter)
    BY <1>1, <1>3, <2>1, <2>2 DEF Replayed, FreedFrom, FreedAs, Acquiring, Op
  <2> HIDE DEF l, e, result
  <2>4. IsScan(own) /\ Right(own.names) /\ DOMAIN own.names = DOMAIN sc.names \cup {l} /\ own.calls = sc.calls
    BY <2>1, NamedIs
  <2> HIDE DEF own
  <2>5. PICK spans_ : result \in {sc, own, [own EXCEPT !.spans = spans_]}
    BY <2>3 DEF Freed, own
  <2>6. result.names \in {sc.names, own.names} /\ result.calls = sc.calls
    BY <2>4, <2>5 DEF IsScan
  <2> QED
    BY <1>3, <2>4, <2>6 DEF result
<1>4. CASE Op(i) = "Call"
  <2> DEFINE all == Named(sc, Around(i), m.lines[i])
             call == [line |-> m.lines[i], held |-> NamesOf(all, Around(i))]
  <2>1. eff[m.insns[i].callee] = NoEffect
    BY <1>4, NestedFacts DEF MonitorInv, IdleHelpers
  <2>2. result = CallMade(sc, i, Around(i))
    BY <1>1, <1>4, <2>1, HelpedIs DEF Replayed, Acquiring, Op
  <2>3. IsScan(all) /\ Right(all.names) /\ DOMAIN all.names = DOMAIN sc.names /\ all.calls = sc.calls
    <3>1. \A l \in Around(i) : l \in DOMAIN sc.names
      OBVIOUS
    <3> HIDE DEF all, result
    <3>2. IsScan(all) /\ Right(all.names) /\ DOMAIN all.names = DOMAIN sc.names \cup Around(i) /\ all.calls = sc.calls
      BY <3>1, NamedIs DEF all
    <3> QED
      BY <3>1, <3>2
  <2>4. NamesOf(all, Around(i)) = {Canonical[l] : l \in Around(i)}
    BY <1>1, <2>3, NamesOfIs
  <2> HIDE DEF result
  <2>5. result = [all EXCEPT !.calls = Kept(all.calls, [j \in {i} |-> call])]
    BY <2>2 DEF CallMade
  <2> HIDE DEF all
  <2>6. call.held = {Canonical[l] : l \in Around(i)}
    BY <2>4
  <2> HIDE DEF call
  <2>7. result.names = all.names /\ result.calls = Kept(sc.calls, [j \in {i} |-> call])
    BY <2>3, <2>5 DEF IsScan
  <2>8. DOMAIN result.calls = DOMAIN sc.calls \cup {i} /\ result.calls[i] = call /\ \A j \in DOMAIN sc.calls : result.calls[j] = sc.calls[j]
    BY <2>7 DEF Kept
  <2> QED
    BY <1>4, <2>3, <2>6, <2>7, <2>8 DEF result
<1>5. CASE Op(i) \notin LockOps \cup {"Call"}
  <2>1. result = sc
    BY <1>5 DEF Replayed, Acquiring, Op, LockOps
  <2> QED
    BY <1>5, <2>1 DEF LockOps
<1> QED
  BY <1>2, <1>3, <1>4, <1>5, NestedFacts DEF LockOps, Jumps, Plain
LEMMA ScanStep ==
  ASSUME FlowInv, MonitorInv, ScanInv, Scan
  PROVE  ScanInv'
<1>1. m \in Methods /\ m \in Bodies /\ m = top /\ Size \in Nat \ {0}
  BY MethodFacts DEF FlowInv, TypeOK, Scan
<1>2. phase = "done" /\ phase' = "done" /\ at \in 1 .. Size /\ at' = at + 1 /\ UNCHANGED vars
  BY <1>1 DEF Scan, ScanInv, vars
<1>3. Size' = Size /\ (Told' <=> Told)
  BY <1>2 DEF vars, Size, Told, Op, SiteName, Operand, Held, BlockOf, Blocks, Leaders
<1>4. SUFFICES ASSUME Watched, Told
               PROVE  /\ Right(names')
                      /\ DOMAIN calls' \subseteq 1 .. at
                      /\ \A j \in 1 .. at : Walked(j)'
  <2>1. at' \in 1 .. Size' + 1 /\ at' # 1 /\ at' - 1 = at /\ (Watched' <=> Watched)
    BY <1>1, <1>2, <1>3 DEF vars, Watched
  <2> QED
    BY <1>2, <1>3, <1>4, <2>1 DEF ScanInv, Right
<1>5. Right(names) /\ DOMAIN calls \subseteq 1 .. at - 1 /\ \A j \in 1 .. at - 1 : Walked(j)
  BY <1>4 DEF ScanInv
<1>6. \A j : Walked(j)' <=>
               (BlockOf(j) \in DOMAIN inn =>
                  /\ Op(j) = "Enter" => m.insns[j].lock \in DOMAIN names'
                  /\ Op(j) = "Call" => j \in DOMAIN calls' /\ calls'[j].held = {Canonical[l] : l \in Around(j)})
  BY <1>2 DEF vars, Walked, BlockOf, Blocks, Leaders, Size, Op, Around
<1>7. CASE BlockOf(at) \notin DOMAIN inn
  <2>1. names' = names /\ calls' = calls
    BY <1>7 DEF Scan
  <2>2. \A j \in 1 .. at : j = at \/ j \in 1 .. at - 1
    BY <1>2
  <2> QED
    BY <1>2, <1>5, <1>6, <1>7, <2>1, <2>2 DEF Walked
<1>8. CASE BlockOf(at) \in DOMAIN inn
  <2> DEFINE st == Before(BlockOf(at), inn[BlockOf(at)], at)
             sc == [names |-> names, spans |-> spans, calls |-> calls]
             result == Replayed(sc, st, at)
  <2>1. names' = result.names /\ calls' = result.calls
    BY <1>8 DEF Scan
  <2>2. st \in State /\ Locked(st, Around(at))
    BY <1>2, <1>4, <1>8, HeldAtNested
  <2>3. IsScan(sc) /\ sc.names = names /\ sc.calls = calls
    BY DEF IsScan
  <2>4. Around(at) \subseteq DOMAIN names
    BY <1>2, <1>4, <1>8, HeldIsNamed
  <2>5. at \notin DOMAIN calls
    BY <1>2, <1>5
  <2> HIDE DEF st, sc
  <2>6. /\ Right(result.names) /\ DOMAIN names \subseteq DOMAIN result.names
        /\ Op(at) = "Enter" => m.insns[at].lock \in DOMAIN result.names
        /\ DOMAIN result.calls \subseteq DOMAIN calls \cup {at}
        /\ \A j \in DOMAIN calls : j \in DOMAIN result.calls /\ result.calls[j] = calls[j]
        /\ Op(at) = "Call" => at \in DOMAIN result.calls /\ result.calls[at].held = {Canonical[l] : l \in Around(at)}
    BY <1>2, <1>4, <1>5, <2>2, <2>3, <2>4, <2>5, ReplayedIs
  <2> HIDE DEF result
  <2>7. ASSUME NEW j \in 1 .. at PROVE Walked(j)'
    <3>1. CASE j = at
      BY <1>6, <2>1, <2>6, <3>1
    <3>2. CASE j # at
      <4>1. Walked(j)
        BY <1>2, <1>5, <3>2
      <4> QED
        BY <1>6, <2>1, <2>6, <4>1 DEF Walked
    <3> QED
      BY <3>1, <3>2
  <2>8. DOMAIN result.calls \subseteq 1 .. at
    BY <1>2, <1>5, <2>6
  <2> QED
    BY <2>1, <2>6, <2>7, <2>8
<1> QED
  BY <1>7, <1>8

Sized == Size \in Nat

LEMMA SizeIs == FlowInv => Sized
BY MethodFacts DEF FlowInv, TypeOK, Sized

LEMMA SizeNext == FlowInv' => Sized'
BY SizeIs, PTL

LEMMA ScanHolds == ScanSpec => []ScanInv
<1>1. ScanInit => ScanInv
  <2> SUFFICES ASSUME ScanInit PROVE ScanInv
    OBVIOUS
  <2>1. m \in Bodies /\ at = 1 /\ names = <<>> /\ calls = <<>> /\ Size \in Nat \ {0}
    BY MethodFacts DEF ScanInit, Init, Bodies
  <2>2. DOMAIN names = {} /\ DOMAIN calls = {} /\ 1 .. at - 1 = {} /\ at \in 1 .. Size + 1
    BY <2>1
  <2> QED
    BY <2>1, <2>2 DEF ScanInv, Right
<1>2. FlowInv /\ FlowInv' /\ MonitorInv /\ ScanInv /\ [ScanNext]_<<vars, scan>> => ScanInv'
  <2> SUFFICES ASSUME FlowInv, FlowInv', MonitorInv, ScanInv, [ScanNext]_<<vars, scan>> PROVE ScanInv'
    OBVIOUS
  <2>1. CASE Scan
    BY <2>1, ScanStep
  <2>2. CASE Solver /\ UNCHANGED scan
    <3>1. phase # "done" /\ at' = at /\ names' = names /\ calls' = calls
      BY <2>2 DEF Solver, Pick, Solved, Round, Agreed, PopBlock, TakeEdge, Converge, Solving, scan
    <3>4. Size' \in Nat
      BY SizeNext DEF Sized
    <3>5. at = 1 /\ names = <<>> /\ calls = <<>>
      BY <3>1 DEF ScanInv
    <3>6. \A s \in Nat : 1 \in 1 .. s + 1
      OBVIOUS
    <3>2. at = 1 /\ names = <<>> /\ calls = <<>> /\ at' \in 1 .. Size' + 1
      BY <3>1, <3>4, <3>5, <3>6
    <3>3. DOMAIN names' = {} /\ DOMAIN calls' = {} /\ 1 .. at' - 1 = {}
      BY <3>1, <3>2
    <3> QED
      BY <3>1, <3>2, <3>3 DEF ScanInv, Right
  <2>3. CASE (Execution \/ UNCHANGED vars) /\ UNCHANGED scan
    <3>1. m' = m /\ inn' = inn /\ phase' = phase /\ at' = at /\ names' = names /\ calls' = calls
      BY <2>3 DEF Execution, Start, Complete, Unwind, scan, vars
    <3>2. Size' = Size /\ (Told' <=> Told)
      BY <3>1 DEF Size, Told, Op, SiteName, Operand, Held, BlockOf, Blocks, Leaders
    <3>3. \A j : Walked(j)' <=> Walked(j)
      BY <3>1 DEF Walked, BlockOf, Blocks, Leaders, Size, Op, Around
    <3>4. Watched' <=> Watched
      BY <3>1 DEF Watched
    <3> QED
      BY <3>1, <3>2, <3>3, <3>4 DEF ScanInv, Right
  <2> QED
    BY <2>1, <2>2, <2>3 DEF ScanNext, Analysis
<1> QED
  BY <1>1, <1>2, ScanImplements, FlowHolds, MonitorHolds, PTL DEF ScanSpec

\* The index has at each call that an execution of nested `synchronized` blocks
\* reaches exactly the locks held, under the names shared with resolution
\* (ctx.rs:215-216).
THEOREM CallsNamed == ScanSpec => []CallsHoldTheirLocks
<1>1. FlowInv /\ MonitorInv /\ ScanInv => CallsHoldTheirLocks
  <2> SUFFICES ASSUME FlowInv, MonitorInv, ScanInv, Scanned, m \in DOMAIN Monitors, Told, pc # 0, Op(pc) = "Call"
               PROVE  pc \in DOMAIN calls /\ calls[pc].held = {Canonical[l] : l \in HeldNow}
    BY DEF CallsHoldTheirLocks
  <2> Watched
    BY DEF Watched, FlowInv, Idle
  <2>1. pc \in 1 .. Size /\ BlockOf(pc) \in DOMAIN inn /\ Size \in Nat
    BY NestedFacts DEF FlowInv, TypeOK, EveryStepIsReplayed
  <2>2. pc \in 1 .. at - 1
    BY <2>1 DEF Scanned, ScanInv
  <2>3. Walked(pc)
    BY <2>2 DEF ScanInv
  <2>4. HeldNow = Around(pc)
    <3>1. Around(pc) \subseteq Lock
      BY <2>1, NestedFacts DEF Around
    <3> QED
      BY <3>1 DEF HeldNow, MonitorInv
  <2> QED
    BY <2>1, <2>3, <2>4 DEF Walked
<1> QED
  BY <1>1, ScanImplements, FlowHolds, MonitorHolds, ScanHolds, PTL
-----------------------------------------------------------------------------
(***************************************************************************)
(* The spans of a method of nested blocks cover the lines held.            *)
(***************************************************************************)
StateAt(i) == Before(BlockOf(i), inn[BlockOf(i)], i)

\* Instruction k, reached, takes lock l on this line.
TakenAt(k, l, line) == BlockOf(k) \in DOMAIN inn /\ Op(k) = "Enter" /\ m.insns[k].lock = l /\ m.lines[k] = line

\* Instruction j, reached, releases lock l, which was taken on line enter.
FreedAt(j, l, enter) ==
  BlockOf(j) \in DOMAIN inn /\ Op(j) = "Exit" /\ m.insns[j].lock = l /\ Innermost(StateAt(j), l).enter = enter

(***************************************************************************)
(* The code of a block lies on lines from that of its monitor-enter to     *)
(* that of some monitor-exit laid out after it.  Compilers give the exit   *)
(* of the block's handler, which comes last, the line of its closing brace.*)
(***************************************************************************)
LaidOut ==
  \A i \in 1 .. Size : BlockOf(i) \in DOMAIN inn =>
    \A e \in StateAt(i).locks :
      /\ e.enter <= m.lines[i]
      /\ \E j \in 1 .. Size : \E k \in 1 .. j - 1 :
           TakenAt(k, e.lock, e.enter) /\ FreedAt(j, e.lock, e.enter) /\ m.lines[i] <= m.lines[j]

IsSpans(known) ==
  \A key \in DOMAIN known : DOMAIN known[key] = {"exit", "held"} /\ known[key].exit \in Nat /\ (key[2] = NoLine => known[key].exit = NoLine)

\* What the walk has noted of a monitor-enter and of a monitor-exit it has replayed.
Noted(known, j) ==
  /\ \A l \in Lock : \A line \in Nat : TakenAt(j, l, line) => <<Canonical[l], line>> \in DOMAIN known
  /\ \A l \in Lock : \A enter \in Nat \ {NoLine} :
       FreedAt(j, l, enter) /\ (\E k \in 1 .. j - 1 : TakenAt(k, l, enter)) =>
         <<Canonical[l], enter>> \in DOMAIN known /\ m.lines[j] <= known[<<Canonical[l], enter>>].exit

SpanInv ==
  /\ at = 1 => spans = <<>>
  /\ Watched /\ Told => IsSpans(spans) /\ \A j \in 1 .. at - 1 : Noted(spans, j)

\* A later end replaces an earlier one.
LEMMA LaterIs ==
  ASSUME NEW a \in Nat, NEW b \in Nat
  PROVE  Later(a, b) \in Nat /\ a <= Later(a, b) /\ b <= Later(a, b)
<1>1. IsFiniteSet({a, b}) /\ {a, b} \subseteq Nat /\ {a, b} # {}
  <2>1. IsFiniteSet({a} \cup {b})
    BY FS_Singleton, FS_Union
  <2>2. {a, b} = {a} \cup {b}
    OBVIOUS
  <2> QED
    BY <2>1, <2>2
<1>2. Max({a, b}) \in {a, b} /\ \A y \in {a, b} : y <= Max({a, b})
  BY <1>1, GreatestIsGreatest
<1> QED
  BY <1>2 DEF Later

\* No span is lost, and none ends earlier than before.
Grown(known, result) == \A key \in DOMAIN known : key \in DOMAIN result /\ known[key].exit <= result[key].exit

LEMMA NotedStays ==
  ASSUME NEW known, NEW result, IsSpans(known), IsSpans(result), Grown(known, result), NEW j \in 1 .. Size, Noted(known, j), m \in Bodies
  PROVE  Noted(result, j)
<1>1. m.lines[j] \in Nat
  BY MethodFacts
<1> QED
  BY <1>1 DEF Noted, Grown, IsSpans

\* What replaying an instruction does to the spans.
LEMMA SpansReplayed ==
  ASSUME FlowInv, MonitorInv, Watched, Told, NEW i \in 1 .. Size, BlockOf(i) \in DOMAIN inn,
         NEW sc, IsScan(sc), Right(sc.names), Around(i) \subseteq DOMAIN sc.names, IsSpans(sc.spans),
         \A k \in 1 .. i - 1 : Noted(sc.spans, k)
  PROVE  LET result == Replayed(sc, StateAt(i), i).spans
         IN  IsSpans(result) /\ Grown(sc.spans, result) /\ Noted(result, i)
<1> DEFINE st == StateAt(i)
           result == Replayed(sc, st, i)
<1> m \in DOMAIN Monitors /\ m.helpers = top.helpers
  BY DEF Watched, FlowInv, TypeOK
<1>1. m \in Methods /\ Held(st) = Around(i) /\ st \in State /\ m.lines[i] \in Nat
  BY NestedFacts, HeldAtNested, MethodFacts DEF Locked, StateAt
<1>2. Grown(sc.spans, sc.spans)
  BY DEF Grown, IsSpans
<1>3. CASE Op(i) = "Enter"
  <2> DEFINE l == m.insns[i].lock
             line == m.lines[i]
             own == Named(sc, {l}, line)
             all == Named(own, Around(i), line)
             key == <<own.names[l], line>>
             span == [exit |-> NoLine, held |-> NamesOf(all, Around(i))]
  <2>1. SitesOn(line) = {Canonical[l]} /\ l \in Lock /\ m.insns[i].named
    BY <1>3, SiteTells, NestedFacts
  <2>2. result = Taken(sc, l, line, Around(i))
    BY <1>1, <1>3, <2>1 DEF Replayed, Operand, Acquiring, Op
  <2> HIDE DEF st, result
  <2>3. \A x \in {l} : x \notin DOMAIN sc.names => x \in Lock /\ SitesOn(line) = {Canonical[x]}
    BY <2>1
  <2> HIDE DEF l, line
  <2>4. IsScan(own) /\ Right(own.names) /\ DOMAIN own.names = DOMAIN sc.names \cup {l} /\ own.spans = sc.spans
    BY <2>3, NamedIs
  <2>5. own.names[l] = Canonical[l] /\ ~ IsOpaque(own.names[l])
    <3>1. own.names[l] = Canonical[l]
      BY <2>4 DEF Right
    <3> QED
      BY <1>1, <2>1, <3>1, CanonicalAssumption DEF IsOpaque, Size
  <2> HIDE DEF own
  <2>6. IsScan(all) /\ all.spans = sc.spans
    <3>1. \A x \in Around(i) : x \in DOMAIN own.names
      BY <2>4
    <3>2. IsScan(all) /\ all.spans = own.spans
      BY <2>4, <3>1, NamedIs
    <3> QED
      BY <2>4, <3>2
  <2>7. result = [all EXCEPT !.spans = Kept(all.spans, [k \in {key} |-> span])]
    BY <2>2, <2>5 DEF Taken, own, all
  <2> HIDE DEF all
  <2>8. span.exit = NoLine /\ DOMAIN span = {"exit", "held"}
    OBVIOUS
  <2> HIDE DEF span
  <2>9. result.spans = [x \in DOMAIN sc.spans \cup {key} |-> IF x \in DOMAIN sc.spans THEN sc.spans[x] ELSE span]
    BY <2>6, <2>7 DEF Kept, IsScan
  <2>10. IsSpans(result.spans) /\ Grown(sc.spans, result.spans)
    BY <2>8, <2>9 DEF IsSpans, Grown, NoLine
  <2>11. Noted(result.spans, i)
    <3>1. \A x \in Lock : \A ln \in Nat : TakenAt(i, x, ln) => x = l /\ ln = line
      BY DEF TakenAt, l, line
    <3>2. \A x : \A ln : ~ FreedAt(i, x, ln)
      BY <1>3 DEF FreedAt
    <3>3. <<Canonical[l], line>> \in DOMAIN result.spans
      BY <2>5, <2>9
    <3> QED
      BY <3>1, <3>2, <3>3 DEF Noted
  <2> QED
    BY <2>10, <2>11 DEF result, st
<1>4. CASE Op(i) = "Exit"
  <2> DEFINE l == m.insns[i].lock
             e == Innermost(st, l)
             own == Named(sc, {l}, e.enter)
             key == <<own.names[l], e.enter>>
             end == Max({m.lines[i], e.enter + 1})
  <2>1. m.insns[i].named /\ l \in Around(i) /\ l \in Lock
    BY <1>4, NestedFacts DEF Around
  <2>2. e.lock = l /\ e \in st.locks
    BY <1>1, <2>1, InnermostIsThere
  <2>3. e.enter \in Nat
    BY <1>1, <2>2 DEF State, Entry
  <2>4. result = Freed(sc, l, m.lines[i], e.enter)
    BY <1>1, <1>4, <2>1, <2>2 DEF Replayed, FreedFrom, FreedAs, Acquiring, Op
  <2>5. \A x : \A ln : ~ TakenAt(i, x, ln)
    BY <1>4 DEF TakenAt
  <2>6. \A x : \A ln : FreedAt(i, x, ln) => x = l /\ ln = e.enter
    BY DEF FreedAt
  <2> HIDE DEF st, result, e
  <2>7. CASE e.enter = NoLine
    <3>1. result.spans = sc.spans
      BY <2>4, <2>7 DEF Freed
    <3>2. Noted(result.spans, i)
      BY <2>5, <2>6, <2>7 DEF Noted
    <3> QED
      BY <1>2, <3>1, <3>2 DEF result, st
  <2>8. CASE e.enter # NoLine
    <3> HIDE DEF l
    <3>1. IsScan(own) /\ Right(own.names) /\ own.spans = sc.spans /\ DOMAIN own.names = DOMAIN sc.names \cup {l}
      BY <2>1, NamedIs
    <3>2. own.names[l] = Canonical[l]
      BY <3>1 DEF Right
    <3> HIDE DEF own
    <3>3. key = <<Canonical[l], e.enter>>
      BY <3>2
    <3>4. result = IF key \notin DOMAIN own.spans THEN own ELSE [own EXCEPT !.spans[key].exit = Later(@, end)]
      BY <2>4, <2>8 DEF Freed, own
    <3>5. end \in Nat /\ m.lines[i] <= end
      BY <1>1, <2>3, LaterIs DEF Later
    <3> HIDE DEF end, key
    <3>6. CASE key \notin DOMAIN sc.spans
      <4>1. result.spans = sc.spans
        BY <3>1, <3>4, <3>6
      <4>2. \A k \in 1 .. i - 1 : ~ TakenAt(k, l, e.enter)
        BY <2>1, <2>3, <3>3, <3>6 DEF Noted
      <4>3. Noted(result.spans, i)
        BY <2>5, <2>6, <4>2 DEF Noted
      <4> QED
        BY <1>2, <4>1, <4>3 DEF result, st
    <3>7. CASE key \in DOMAIN sc.spans
      <4>1. result.spans = [sc.spans EXCEPT ![key].exit = Later(@, end)]
        BY <3>1, <3>4, <3>7 DEF IsScan
      <4>2. sc.spans[key].exit \in Nat /\ DOMAIN sc.spans[key] = {"exit", "held"}
        BY <3>7 DEF IsSpans
      <4> DEFINE later == Later(sc.spans[key].exit, end)
      <4>3. later \in Nat /\ sc.spans[key].exit <= later /\ end <= later
        BY <3>5, <4>2, LaterIs
      <4> HIDE DEF later
      <4>4. /\ DOMAIN result.spans = DOMAIN sc.spans
            /\ \A x \in DOMAIN sc.spans : x # key => result.spans[x] = sc.spans[x]
            /\ result.spans[key] = [sc.spans[key] EXCEPT !.exit = later]
        BY <3>7, <4>1 DEF later
      <4>5. result.spans[key].exit = later /\ DOMAIN result.spans[key] = {"exit", "held"}
        BY <4>2, <4>4
      <4>6. key[2] # NoLine
        BY <2>8, <3>3
      <4>7. IsSpans(result.spans) /\ Grown(sc.spans, result.spans)
        BY <4>3, <4>4, <4>5, <4>6 DEF IsSpans, Grown
      <4>8. Noted(result.spans, i)
        <5>1. m.lines[i] <= later
          BY <1>1, <3>5, <4>3
        <5> QED
          BY <2>5, <2>6, <3>3, <3>7, <4>4, <4>5, <5>1 DEF Noted
      <4> QED
        BY <4>7, <4>8 DEF result, st
    <3> QED
      BY <3>6, <3>7
  <2> QED
    BY <2>7, <2>8
<1>5. CASE Op(i) \notin LockOps
  <2>1. Noted(sc.spans, i)
    BY <1>5 DEF Noted, TakenAt, FreedAt, LockOps
  <2>2. result.spans = sc.spans
    <3>1. CASE Op(i) = "Call"
      <4> DEFINE all == Named(sc, Around(i), m.lines[i])
      <4>1. eff[m.insns[i].callee] = NoEffect
        BY <3>1, NestedFacts DEF MonitorInv, IdleHelpers
      <4>2. result = CallMade(sc, i, Around(i))
        BY <1>1, <3>1, <4>1, HelpedIs DEF Replayed, Acquiring, Op
      <4>3. \A l \in Around(i) : l \in DOMAIN sc.names
        OBVIOUS
      <4> HIDE DEF all, result
      <4>4. IsScan(all) /\ all.spans = sc.spans
        BY <4>3, NamedIs DEF all
      <4>5. PICK made : result = [all EXCEPT !.calls = made]
        BY <4>2 DEF CallMade, all
      <4> HIDE DEF all
      <4> QED
        BY <4>4, <4>5 DEF IsScan
    <3>2. CASE Op(i) # "Call"
      BY <1>5, <3>2 DEF Replayed, Acquiring, Op, LockOps
    <3> QED
      BY <3>1, <3>2
  <2> QED
    BY <1>2, <2>1, <2>2
<1> QED
  BY <1>3, <1>4, <1>5, NestedFacts DEF LockOps, Jumps, Plain

\* What is taken and freed where depends on the method and the dataflow alone.
LEMMA SameSites ==
  ASSUME m' = m, eff' = eff, inn' = inn
  PROVE  /\ Size' = Size
         /\ \A j : \A l : \A line : TakenAt(j, l, line)' <=> TakenAt(j, l, line)
         /\ \A j : \A l : \A line : FreedAt(j, l, line)' <=> FreedAt(j, l, line)
<1>1. Size' = Size /\ \A j : BlockOf(j)' = BlockOf(j) /\ Op(j)' = Op(j)
  BY DEF Size, Op, BlockOf, Blocks, Leaders
<1>2. \A st : \A i : Apply(st, i)' = Apply(st, i)
  BY DEF Apply, Op, Operand
<1>3. \A b : \A st : \A i : Before(b, st, i)' = Before(b, st, i)
  BY <1>1, <1>2 DEF Before
<1>4. \A j : StateAt(j)' = StateAt(j)
  BY <1>1, <1>3 DEF StateAt
<1> QED
  BY <1>1, <1>4, ZenonT(30) DEF TakenAt, FreedAt, Innermost, Topmost

LEMMA SpanStep ==
  ASSUME FlowInv, MonitorInv, ScanInv, SpanInv, Scan
  PROVE  SpanInv'
<1>1. m \in Methods /\ m \in Bodies /\ m = top /\ Size \in Nat \ {0}
  BY MethodFacts DEF FlowInv, TypeOK, Scan
<1>2. phase = "done" /\ at \in 1 .. Size /\ at' = at + 1 /\ UNCHANGED vars
  BY <1>1 DEF Scan, ScanInv, vars
<1>3. Told' <=> Told
  BY <1>2 DEF vars, Size, Told, Op, SiteName, Operand, Held, BlockOf, Blocks, Leaders
<1>4. Size' = Size /\ (\A j : \A l : \A line : TakenAt(j, l, line)' <=> TakenAt(j, l, line))
      /\ (\A j : \A l : \A line : FreedAt(j, l, line)' <=> FreedAt(j, l, line))
  BY <1>2, SameSites DEF vars
<1>5. \A j : Noted(spans, j)' <=> Noted(spans', j)
  BY <1>2, <1>4 DEF Noted, vars
<1>6. SUFFICES ASSUME Watched, Told
               PROVE  IsSpans(spans') /\ \A j \in 1 .. at : Noted(spans', j)
  <2>1. (Watched' <=> Watched) /\ at' # 1 /\ at' - 1 = at
    BY <1>1, <1>2 DEF vars, Watched
  <2> QED
    BY <1>3, <1>5, <1>6, <2>1 DEF SpanInv, IsSpans
<1>7. IsSpans(spans) /\ \A j \in 1 .. at - 1 : Noted(spans, j)
  BY <1>6 DEF SpanInv
<1>8. \A j \in 1 .. at : j = at \/ j \in 1 .. at - 1
  BY <1>2
<1>9. CASE BlockOf(at) \notin DOMAIN inn
  <2>1. spans' = spans
    BY <1>9 DEF Scan
  <2>2. Noted(spans, at)
    BY <1>9 DEF Noted, TakenAt, FreedAt
  <2> QED
    BY <1>7, <1>8, <2>1, <2>2
<1>10. CASE BlockOf(at) \in DOMAIN inn
  <2> DEFINE sc == [names |-> names, spans |-> spans, calls |-> calls]
             result == Replayed(sc, StateAt(at), at).spans
  <2>1. spans' = result
    BY <1>10 DEF Scan, StateAt
  <2>2. IsScan(sc) /\ sc.names = names /\ sc.spans = spans
    BY DEF IsScan
  <2>3. Around(at) \subseteq DOMAIN names /\ Right(names)
    BY <1>2, <1>6, <1>10, HeldIsNamed DEF ScanInv
  <2> HIDE DEF sc
  <2>4. IsSpans(result) /\ Grown(spans, result) /\ Noted(result, at)
    BY <1>2, <1>6, <1>7, <1>10, <2>2, <2>3, SpansReplayed
  <2> HIDE DEF result
  <2>5. ASSUME NEW j \in 1 .. at PROVE Noted(result, j)
    <3>1. CASE j = at
      BY <2>4, <3>1
    <3>2. CASE j # at
      <4>1. j \in 1 .. Size /\ Noted(spans, j)
        BY <1>1, <1>2, <1>7, <3>2
      <4> QED
        BY <1>1, <1>7, <2>4, <4>1, NotedStays
    <3> QED
      BY <3>1, <3>2
  <2> QED
    BY <2>1, <2>4, <2>5
<1> QED
  BY <1>9, <1>10

LEMMA SpanHolds == ScanSpec => []SpanInv
<1>1. ScanInit => SpanInv
  <2> SUFFICES ASSUME ScanInit PROVE SpanInv
    OBVIOUS
  <2>1. at = 1 /\ spans = <<>>
    BY DEF ScanInit
  <2>2. DOMAIN spans = {} /\ 1 .. at - 1 = {}
    BY <2>1
  <2> QED
    BY <2>1, <2>2 DEF SpanInv, IsSpans
<1>2. FlowInv /\ MonitorInv /\ ScanInv /\ SpanInv /\ [ScanNext]_<<vars, scan>> => SpanInv'
  <2> SUFFICES ASSUME FlowInv, MonitorInv, ScanInv, SpanInv, [ScanNext]_<<vars, scan>> PROVE SpanInv'
    OBVIOUS
  <2>1. CASE Scan
    BY <2>1, SpanStep
  <2>2. CASE Solver /\ UNCHANGED scan
    <3>1. phase # "done" /\ at' = at /\ spans' = spans
      BY <2>2 DEF Solver, Pick, Solved, Round, Agreed, PopBlock, TakeEdge, Converge, Solving, scan
    <3>2. at' = 1 /\ spans' = <<>>
      BY <3>1 DEF ScanInv, SpanInv
    <3>3. DOMAIN spans' = {} /\ 1 .. at' - 1 = {}
      BY <3>2
    <3> QED
      BY <3>2, <3>3 DEF SpanInv, IsSpans
  <2>3. CASE (Execution \/ UNCHANGED vars) /\ UNCHANGED scan
    <3>1. m' = m /\ phase' = phase /\ eff' = eff /\ inn' = inn /\ at' = at /\ spans' = spans
      BY <2>3 DEF Execution, Start, Complete, Unwind, scan, vars
    <3>2. Told' <=> Told
      BY <3>1 DEF Size, Told, Op, SiteName, Operand, Held, BlockOf, Blocks, Leaders
    <3>3. \A j : Noted(spans, j)' <=> Noted(spans, j)
      BY <3>1, SameSites DEF Noted
    <3>4. Watched' <=> Watched
      BY <3>1 DEF Watched
    <3> QED
      BY <3>1, <3>2, <3>3, <3>4 DEF SpanInv, IsSpans
  <2> QED
    BY <2>1, <2>2, <2>3 DEF ScanNext, Analysis
<1> QED
  BY <1>1, <1>2, ScanImplements, FlowHolds, MonitorHolds, ScanHolds, PTL DEF ScanSpec

\* A lock is "held over" the lines of its span (ctx.rs:58-66): wherever blocks
\* are laid out between their monitor-enter and an exit further down, the spans
\* have every line on which an execution holds a lock, however many exits a block has.
THEOREM SpansCover == ScanSpec => [](LaidOut => SpansCoverHolding)
<1>1. FlowInv /\ MonitorInv /\ ScanInv /\ SpanInv => (LaidOut => SpansCoverHolding)
  <2> SUFFICES ASSUME FlowInv, MonitorInv, ScanInv, SpanInv, LaidOut,
                      Scanned, m \in DOMAIN Monitors, Told, pc # 0, NEW l \in HeldNow
               PROVE  \/ Canonical[l] \in IntraHeld(m.lines[pc])
                      \/ \E i \in 1 .. Size : Op(i) = "Exit" /\ m.insns[i].lock = l /\ m.lines[i] = m.lines[pc]
    BY DEF SpansCoverHolding
  <2> Watched
    BY DEF Watched, FlowInv, Idle
  <2>1. pc \in 1 .. Size /\ BlockOf(pc) \in DOMAIN inn /\ Size \in Nat /\ \A i \in 1 .. Size : m.lines[i] \in Nat
    <3>1. Size \in Nat /\ \A i \in 1 .. Size : m.lines[i] \in Nat
      BY NestedFacts, MethodFacts
    <3> QED
      BY <3>1 DEF FlowInv, TypeOK, EveryStepIsReplayed
  <2>2. 1 .. at - 1 = 1 .. Size
    BY <2>1 DEF Scanned, ScanInv
  <2>3. l \in Lock /\ l \in Around(pc)
    BY <2>1 DEF HeldNow, MonitorInv
  <2>4. PICK e \in StateAt(pc).locks : e.lock = l /\ e.enter \in Nat
    <3>1. StateAt(pc) \in State /\ Held(StateAt(pc)) = Around(pc)
      BY <2>1, HeldAtNested DEF StateAt, Locked
    <3> QED
      BY <2>3, <3>1 DEF Held, State, Entry
  <2>5. e.enter <= m.lines[pc]
    BY <2>1, <2>4 DEF LaidOut
  <2>6. PICK j \in 1 .. Size : \E k \in 1 .. j - 1 : TakenAt(k, l, e.enter) /\ FreedAt(j, l, e.enter) /\ m.lines[pc] <= m.lines[j]
    BY <2>1, <2>4 DEF LaidOut
  <2>7. PICK k \in 1 .. j - 1 : TakenAt(k, l, e.enter) /\ FreedAt(j, l, e.enter) /\ m.lines[pc] <= m.lines[j]
    BY <2>6
  <2> DEFINE key == <<Canonical[l], e.enter>>
  <2>8. k \in 1 .. Size /\ Noted(spans, k) /\ Noted(spans, j) /\ IsSpans(spans)
    <3>1. k \in 1 .. Size
      BY <2>1
    <3> QED
      BY <2>2, <3>1 DEF SpanInv
  <2>9. key \in DOMAIN spans /\ key[1] = Canonical[l] /\ key[2] = e.enter
    BY <2>3, <2>4, <2>7, <2>8 DEF Noted
  <2>10. CASE e.enter = NoLine
    BY <2>5, <2>8, <2>9, <2>10 DEF IsSpans, IntraHeld
  <2>11. CASE e.enter # NoLine
    <3>1. m.lines[j] <= spans[key].exit /\ spans[key].exit \in Nat
      BY <2>3, <2>4, <2>7, <2>8, <2>9, <2>11 DEF Noted, IsSpans
    <3>2. CASE m.lines[pc] < spans[key].exit
      BY <2>5, <2>9, <3>2 DEF IntraHeld
    <3>3. CASE ~ (m.lines[pc] < spans[key].exit)
      <4>1. m.lines[j] \in Nat /\ m.lines[pc] \in Nat
        BY <2>1, <2>6
      <4>2. m.lines[j] = m.lines[pc]
        BY <2>7, <3>1, <3>3, <4>1
      <4> QED
        BY <2>6, <2>7, <4>2 DEF FreedAt
    <3> QED
      BY <3>2, <3>3
  <2> QED
    BY <2>10, <2>11
<1> QED
  BY <1>1, ScanImplements, FlowHolds, MonitorHolds, ScanHolds, SpanHolds, PTL
=============================================================================
