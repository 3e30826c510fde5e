----------------------------- MODULE LeastNumber -----------------------------
(***************************************************************************)
(* Every nonempty set of naturals has a least member, and a greatest one   *)
(* if it is finite; a set of numbers closed under successor fills an       *)
(* interval; steps taken one after another have a trace.  Stated about     *)
(* sets and functions, so that no lemma needs an operator parameter.       *)
(***************************************************************************)
EXTENDS Naturals, FiniteSetsExt, FiniteSetTheorems, TLAPS

\* The well-founded order is inclusion of the intervals 0 .. n.
LEMMA LeastExists ==
  ASSUME NEW S, S \subseteq Nat, S # {}
  PROVE  \E x \in S : \A y \in S : x <= y
<1> DEFINE Below == {0 .. x : x \in S}
           R == StrictSubsetOrdering(Nat)
<1>1. IsWellFoundedOn(R, FiniteSubsetsOf(Nat))
  BY FS_StrictSubsetOrderingWellFounded
<1>2. Below # {}
  OBVIOUS
<1>3. Below \subseteq FiniteSubsetsOf(Nat)
  <2>1. SUFFICES ASSUME NEW x \in S PROVE 0 .. x \in FiniteSubsetsOf(Nat)
    OBVIOUS
  <2>2. x \in Int /\ 0 \in Int /\ 0 .. x \subseteq Nat
    OBVIOUS
  <2>3. IsFiniteSet(0 .. x)
    BY <2>2, FS_Interval
  <2> QED
    BY <2>2, <2>3 DEF FiniteSubsetsOf
<1> HIDE DEF Below, R
<1>4. PICK B \in Below : \A A \in Below : ~ (<<A, B>> \in R)
  BY <1>1, <1>2, <1>3, WFMin
<1>5. PICK x \in S : B = 0 .. x
  BY DEF Below
<1>6. \A y \in S : x <= y
  <2>1. SUFFICES ASSUME NEW y \in S, ~ (x <= y) PROVE FALSE
    OBVIOUS
  <2>2. x \in Nat /\ y \in Nat
    OBVIOUS
  <2>3. 0 .. y \subseteq 0 .. x /\ 0 .. y # 0 .. x
    BY <2>1, <2>2
  <2>4. <<0 .. y, 0 .. x>> \in R
    BY <2>2, <2>3 DEF R, StrictSubsetOrdering
  <2> QED
    BY <2>4, <1>4, <1>5 DEF Below
<1> QED
  BY <1>6

LEMMA LeastIsLeast ==
  ASSUME NEW S, S \subseteq Nat, S # {}
  PROVE  Min(S) \in S /\ \A y \in S : Min(S) <= y
BY LeastExists DEF Min

\* Induction from a up to b, for the set of numbers a property holds of.
LEMMA IntervalInduction ==
  ASSUME NEW a \in Nat, NEW b \in Nat, NEW S, a \in S, \A i \in S : i \in a .. b - 1 => i + 1 \in S
  PROVE  a .. b \subseteq S
<1> DEFINE Bad == {i \in a .. b : i \notin S}
<1>1. SUFFICES ASSUME Bad # {} PROVE FALSE
  OBVIOUS
<1>2. PICK x \in Bad : \A y \in Bad : x <= y
  <2>1. Bad \subseteq Nat
    OBVIOUS
  <2> HIDE DEF Bad
  <2> QED
    BY <1>1, <2>1, LeastExists
<1>3. x - 1 \in a .. b - 1 /\ x - 1 \notin Bad
  BY <1>2
<1>4. x - 1 \in S
  BY <1>3
<1>5. (x - 1) + 1 \in S
  BY <1>3, <1>4
<1> QED
  BY <1>2, <1>5

\* The steps of an iteration over S from a to b.
Steps(step, S, a, b) == step \in [a + 1 .. b -> [S -> S]]

\* What it comes to at each number, starting with x.
Trace(f, step, S, a, b, x) == f \in [a .. b -> S] /\ f[a] = x /\ \A k \in a + 1 .. b : f[k] = step[k][f[k - 1]]

\* A function is defined from a to b by its first value and a step at each number.
LEMMA IterationExists ==
  ASSUME NEW step, NEW S, NEW a, NEW b, NEW x, Steps(step, S, a, b), x \in S, a \in Nat, b \in Nat, a <= b
  PROVE  \E f : Trace(f, step, S, a, b, x)
<1> DEFINE Upto(n) == \E f \in [a .. n -> S] : f[a] = x /\ \A k \in a + 1 .. n : f[k] = step[k][f[k - 1]]
           Good == {n \in a .. b : Upto(n)}
<1> USE DEF Steps
<1>1. Upto(a)
  <2> DEFINE f == [k \in a .. a |-> x]
  <2>1. f \in [a .. a -> S] /\ f[a] = x /\ a + 1 .. a = {}
    OBVIOUS
  <2> HIDE DEF f
  <2> QED
    BY <2>1
<1>2. ASSUME NEW n \in a .. b - 1, Upto(n) PROVE Upto(n + 1)
  <2>1. PICK f \in [a .. n -> S] : f[a] = x /\ \A k \in a + 1 .. n : f[k] = step[k][f[k - 1]]
    BY <1>2
  <2> DEFINE g == [k \in a .. n + 1 |-> IF k = n + 1 THEN step[k][f[n]] ELSE f[k]]
  <2>2. f[n] \in S /\ n + 1 \in a + 1 .. b
    OBVIOUS
  <2>3. \A k \in a .. n + 1 : g[k] \in S
    <3>1. step[n + 1][f[n]] \in S
      BY <2>2
    <3>2. \A k \in a .. n + 1 : k # n + 1 => f[k] \in S
      OBVIOUS
    <3> QED
      BY <3>1, <3>2
  <2>4. g \in [a .. n + 1 -> S] /\ g[a] = x
    BY <2>1, <2>3
  <2>5. ASSUME NEW k \in a + 1 .. n + 1 PROVE g[k] = step[k][g[k - 1]]
    <3>1. g[k - 1] = f[k - 1]
      OBVIOUS
    <3>2. CASE k # n + 1
      <4>1. g[k] = f[k] /\ k \in a + 1 .. n
        BY <3>2
      <4> QED
        BY <2>1, <3>1, <4>1
    <3>3. CASE k = n + 1
      <4>1. g[k] = step[k][f[n]] /\ k - 1 = n
        BY <3>3
      <4> QED
        BY <3>1, <4>1
    <3> QED
      BY <3>2, <3>3
  <2> HIDE DEF g
  <2> QED
    BY <2>4, <2>5
<1>3. a \in Good /\ \A n \in Good : n \in a .. b - 1 => n + 1 \in Good
  <2> HIDE DEF Upto
  <2> QED
    BY <1>1, <1>2
<1> HIDE DEF Good
<1>4. a .. b \subseteq Good
  BY <1>3, IntervalInduction
<1>5. b \in Good
  BY <1>4
<1> QED
  BY <1>5 DEF Good, Trace

\* The well-founded order is inclusion of what lies above a member.
LEMMA GreatestExists ==
  ASSUME NEW S, S \subseteq Nat, S # {}, IsFiniteSet(S)
  PROVE  \E x \in S : \A y \in S : y <= x
<1> DEFINE From(x) == {y \in S : x <= y}
           Above == {From(x) : x \in S}
           R == StrictSubsetOrdering(S)
<1>1. IsWellFoundedOn(R, FiniteSubsetsOf(S))
  BY FS_StrictSubsetOrderingWellFounded
<1>2. Above # {}
  OBVIOUS
<1>3. Above \subseteq FiniteSubsetsOf(S)
  BY FS_Subset DEF FiniteSubsetsOf
<1> HIDE DEF Above, R
<1>4. PICK B \in Above : \A A \in Above : ~ (<<A, B>> \in R)
  BY <1>1, <1>2, <1>3, WFMin
<1>5. PICK x \in S : B = From(x)
  BY DEF Above
<1>6. \A y \in S : y <= x
  <2>1. SUFFICES ASSUME NEW y \in S, ~ (y <= x) PROVE FALSE
    OBVIOUS
  <2>2. x \in Nat /\ y \in Nat
    OBVIOUS
  <2>3. From(y) \subseteq From(x)
    <3>1. \A z \in S : y <= z => x <= z
      BY <2>1, <2>2
    <3> QED
      BY <3>1
  <2>4. x \in From(x) /\ x \notin From(y)
    BY <2>1, <2>2
  <2>5. From(x) \subseteq S /\ From(y) \subseteq S
    OBVIOUS
  <2> HIDE DEF From
  <2>6. <<From(y), From(x)>> \in R
    BY <2>3, <2>4, <2>5 DEF R, StrictSubsetOrdering
  <2> QED
    BY <2>6, <1>4, <1>5 DEF Above
<1> QED
  BY <1>6

LEMMA GreatestIsGreatest ==
  ASSUME NEW S, S \subseteq Nat, S # {}, IsFiniteSet(S)
  PROVE  Max(S) \in S /\ \A y \in S : y <= Max(S)
<1>1. PICK x \in S : \A y \in S : x >= y
  BY GreatestExists
<1> QED
  BY <1>1 DEF Max

\* What a function makes of a finite set is finite.
LEMMA ImageIsFinite ==
  ASSUME NEW f, IsFiniteSet(DOMAIN f)
  PROVE  IsFiniteSet({f[x] : x \in DOMAIN f})
<1> DEFINE T == {f[x] : x \in DOMAIN f}
           g == [x \in DOMAIN f |-> f[x]]
<1>1. g \in Surjection(DOMAIN f, T)
  BY DEF Surjection
<1> QED
  BY <1>1, FS_Surjection
=============================================================================
