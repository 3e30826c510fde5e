---------------------------- MODULE InputsProofs ----------------------------
(***************************************************************************)
(* Proofs about Inputs: whatever lies in the directories and archives of a *)
(* command line, a run that ends well has found every dex within reach and *)
(* kept the first copy of every class, and a run fails only for a reason.  *)
(***************************************************************************)
EXTENDS Inputs, LeastNumber

-----------------------------------------------------------------------------
(***************************************************************************)
(* Sequences laid end to end.                                              *)
(***************************************************************************)

\* Each position of f has the first so many sequences, one after another.
Laid(f, S, seqs, N) ==
  f \in [1 .. N -> Seq(S)] /\ f[1] = seqs[1] /\ \A k \in 1 .. N - 1 : f[k + 1] = f[k] \o seqs[k + 1]

\* FlattenSeq appends one sequence after another.
LEMMA FlattenSteps ==
  ASSUME NEW S, NEW seqs, NEW N \in Nat \ {0}, Len(seqs) = N, \A k \in 1 .. N : seqs[k] \in Seq(S)
  PROVE  \E f : Laid(f, S, seqs, N) /\ FlattenSeq(seqs) = f[N]
<1> DEFINE T == Seq(S)
           Cat(x, k) == x \o seqs[k]
           Fits(g) == g = [i \in 1 .. N |-> IF i = 1 THEN seqs[i] ELSE Cat(g[i - 1], i)]
           f == CHOOSE g : Fits(g)
<1>1. FlattenSeq(seqs) = f[N]
  BY DEF FlattenSeq
<1>2. \A x \in T : \A k \in 1 .. N : Cat(x, k) \in T
  OBVIOUS
<1>3. seqs[1] \in T
  OBVIOUS
<1>4. (\E g \in [1 .. N -> T] : g[1] = seqs[1] /\ (\A k \in 1 .. N - 1 : g[k + 1] = Cat(g[k], k + 1)) /\ FlattenSeq(seqs) = g[N])
        => \E g : Laid(g, S, seqs, N) /\ FlattenSeq(seqs) = g[N]
  BY DEF Laid
<1> HIDE DEF T, Cat
<1>5. PICK h \in [1 .. N -> T] : h[1] = seqs[1] /\ \A k \in 2 .. N : h[k] = Cat(h[k - 1], k)
  <2> DEFINE step == [k \in 1 + 1 .. N |-> [x \in T |-> Cat(x, k)]]
  <2>1. Steps(step, T, 1, N)
    BY <1>2 DEF Steps
  <2>2. ASSUME NEW g \in [1 .. N -> T], NEW k \in 1 + 1 .. N
        PROVE  step[k][g[k - 1]] = Cat(g[k - 1], k)
    <3>1. g[k - 1] \in T
      OBVIOUS
    <3> QED
      BY <3>1
  <2> HIDE DEF step
  <2>3. PICK g : Trace(g, step, T, 1, N, seqs[1])
    <3>1. 1 \in Nat /\ N \in Nat /\ 1 <= N
      OBVIOUS
    <3> QED
      BY <1>3, <2>1, <3>1, IterationExists
  <2>4. g \in [1 .. N -> T] /\ g[1] = seqs[1] /\ \A k \in 1 + 1 .. N : g[k] = step[k][g[k - 1]]
    BY <2>3 DEF Trace
  <2>5. \A k \in 1 + 1 .. N : g[k] = Cat(g[k - 1], k)
    BY <2>2, <2>4, Zenon
  <2>6. 1 + 1 = 2
    OBVIOUS
  <2> QED
    BY <2>4, <2>5, <2>6, Zenon
<1>6. Fits(f)
  <2>1. \A k \in 1 .. N : h[k] = IF k = 1 THEN seqs[k] ELSE Cat(h[k - 1], k)
    BY <1>5
  <2>2. Fits(h)
    BY <1>5, <2>1
  <2> HIDE DEF Fits
  <2> QED
    BY <2>2
<1> HIDE DEF f
<1>7. f[1] = seqs[1] /\ \A k \in 2 .. N : f[k] = Cat(f[k - 1], k)
  BY <1>6
<1>8. 1 .. N \subseteq {k \in 1 .. N : f[k] \in T}
  <2> DEFINE Good == {k \in 1 .. N : f[k] \in T}
  <2>1. 1 \in Good
    BY <1>3, <1>7
  <2>2. \A k \in Good : k \in 1 .. N - 1 => k + 1 \in Good
    <3> SUFFICES ASSUME NEW k \in Good, k \in 1 .. N - 1 PROVE k + 1 \in Good
      OBVIOUS
    <3>1. k + 1 \in 2 .. N /\ k + 1 - 1 = k /\ k + 1 \in 1 .. N
      OBVIOUS
    <3>2. f[k + 1] = Cat(f[k], k + 1)
      BY <1>7, <3>1
    <3> QED
      BY <1>2, <3>1, <3>2
  <2> HIDE DEF Good
  <2>3. 1 .. N \subseteq Good
    BY <2>1, <2>2, IntervalInduction
  <2> QED
    BY <2>3 DEF Good
<1>9. f \in [1 .. N -> T]
  BY <1>6, <1>8
<1>10. \A k \in 1 .. N - 1 : f[k + 1] = Cat(f[k], k + 1)
  <2> SUFFICES ASSUME NEW k \in 1 .. N - 1 PROVE f[k + 1] = Cat(f[k], k + 1)
    OBVIOUS
  <2>1. k + 1 \in 2 .. N /\ k + 1 - 1 = k
    OBVIOUS
  <2> QED
    BY <1>7, <2>1
<1> QED
  BY <1>1, <1>4, <1>7, <1>9, <1>10

\* Each place has an element of one of the sequences, each of their elements
\* has a place, and the sequences come in order.
FromIn(org, flat, seqs, n) ==
  /\ org \in [1 .. Len(flat) -> 1 .. n]
  /\ \A p \in 1 .. Len(flat) : flat[p] \in ToSet(seqs[org[p]])
  /\ \A k \in 1 .. n : \A x \in ToSet(seqs[k]) : \E p \in 1 .. Len(flat) : org[p] = k /\ flat[p] = x
  /\ \A p, q \in 1 .. Len(flat) : p <= q => org[p] <= org[q]

\* One more sequence at the end: its members come from it, the others from where they came.
LEMMA OneMoreIn ==
  ASSUME NEW S, NEW n \in Nat, NEW a \in Seq(S), NEW b \in Seq(S), NEW seqs, seqs[n + 1] = b,
         NEW org, FromIn(org, a, seqs, n)
  PROVE  \E new : FromIn(new, a \o b, seqs, n + 1)
<1> DEFINE c == a \o b
           new == [p \in 1 .. Len(c) |-> IF p <= Len(a) THEN org[p] ELSE n + 1]
<1>1. Len(c) = Len(a) + Len(b) /\ Len(a) \in Nat /\ Len(b) \in Nat /\ DOMAIN b = 1 .. Len(b)
  OBVIOUS
<1>2. \A p \in 1 .. Len(a) : c[p] = a[p]
  OBVIOUS
<1>3. \A p \in 1 .. Len(b) : c[Len(a) + p] = b[p]
  OBVIOUS
<1> HIDE DEF c
<1>4. /\ org \in [1 .. Len(a) -> 1 .. n]
      /\ \A p \in 1 .. Len(a) : a[p] \in ToSet(seqs[org[p]])
      /\ \A k \in 1 .. n : \A x \in ToSet(seqs[k]) : \E p \in 1 .. Len(a) : org[p] = k /\ a[p] = x
      /\ \A p, q \in 1 .. Len(a) : p <= q => org[p] <= org[q]
  BY DEF FromIn
<1>5. new \in [1 .. Len(c) -> 1 .. n + 1]
  BY <1>1, <1>4
<1>6. \A p \in 1 .. Len(c) : c[p] \in ToSet(seqs[new[p]])
  <2> SUFFICES ASSUME NEW p \in 1 .. Len(c) PROVE c[p] \in ToSet(seqs[new[p]])
    OBVIOUS
  <2>1. CASE p <= Len(a)
    BY <1>1, <1>2, <1>4, <2>1
  <2>2. CASE p > Len(a)
    <3>1. p - Len(a) \in 1 .. Len(b) /\ Len(a) + (p - Len(a)) = p
      BY <1>1, <2>2
    <3>2. c[p] = b[p - Len(a)]
      BY <1>3, <3>1
    <3>3. new[p] = n + 1
      BY <1>1, <2>2
    <3> QED
      BY <1>1, <3>1, <3>2, <3>3 DEF ToSet
  <2> QED
    BY <1>1, <2>1, <2>2
<1>7. \A k \in 1 .. n + 1 : \A x \in ToSet(seqs[k]) : \E p \in 1 .. Len(c) : new[p] = k /\ c[p] = x
  <2> SUFFICES ASSUME NEW k \in 1 .. n + 1, NEW x \in ToSet(seqs[k]) PROVE \E p \in 1 .. Len(c) : new[p] = k /\ c[p] = x
    OBVIOUS
  <2>1. CASE k = n + 1
    <3>1. PICK i \in 1 .. Len(b) : x = b[i]
      BY <1>1, <2>1 DEF ToSet
    <3>2. Len(a) + i \in 1 .. Len(c) /\ ~ (Len(a) + i <= Len(a))
      BY <1>1, <3>1
    <3> QED
      BY <1>3, <2>1, <3>1, <3>2
  <2>2. CASE k \in 1 .. n
    <3>1. PICK p \in 1 .. Len(a) : org[p] = k /\ a[p] = x
      BY <1>4, <2>2
    <3>2. p \in 1 .. Len(c) /\ p <= Len(a)
      BY <1>1, <3>1
    <3> QED
      BY <1>2, <3>1, <3>2
  <2> QED
    BY <2>1, <2>2
<1>8. \A p, q \in 1 .. Len(c) : p <= q => new[p] <= new[q]
  <2> SUFFICES ASSUME NEW p \in 1 .. Len(c), NEW q \in 1 .. Len(c), p <= q PROVE new[p] <= new[q]
    OBVIOUS
  <2>1. CASE q <= Len(a)
    <3>1. p \in 1 .. Len(a) /\ q \in 1 .. Len(a) /\ p <= Len(a)
      BY <1>1, <2>1
    <3> QED
      BY <1>4, <2>1, <3>1
  <2>2. CASE q > Len(a)
    <3>1. new[q] = n + 1
      BY <1>1, <2>2
    <3>2. new[p] \in 1 .. n + 1
      BY <1>5
    <3> QED
      BY <3>1, <3>2
  <2> QED
    BY <1>1, <2>1, <2>2
<1>9. FromIn(new, c, seqs, n + 1)
  BY <1>5, <1>6, <1>7, <1>8 DEF FromIn
<1> QED
  BY <1>9 DEF c

\* Every member of the flattened sequence comes from one of the sequences, in their order.
LEMMA Flattened ==
  ASSUME NEW S, NEW seqs, NEW N \in Nat, Len(seqs) = N, N = 0 => seqs = <<>>, \A k \in 1 .. N : seqs[k] \in Seq(S)
  PROVE  FlattenSeq(seqs) \in Seq(S) /\ \E org : FromIn(org, FlattenSeq(seqs), seqs, N)
<1>1. CASE N = 0
  <2>1. FlattenSeq(seqs) = <<>>
    BY <1>1 DEF FlattenSeq
  <2>2. FromIn(<<>>, <<>>, seqs, 0)
    BY DEF FromIn
  <2>3. <<>> \in Seq(S)
    OBVIOUS
  <2> QED
    BY <1>1, <2>1, <2>2, <2>3
<1>2. CASE N # 0
  <2>0. PICK f : Laid(f, S, seqs, N) /\ FlattenSeq(seqs) = f[N]
    <3>1. N \in Nat \ {0}
      BY <1>2
    <3> QED
      BY <3>1, FlattenSteps
  <2>1. f \in [1 .. N -> Seq(S)] /\ f[1] = seqs[1]
    BY <2>0 DEF Laid
  <2> DEFINE Good == {n \in 1 .. N : \E org : FromIn(org, f[n], seqs, n)}
  <2>2. 1 \in Good
    <3> DEFINE b == seqs[1]
    <3>1. <<>> \in Seq(S) /\ b \in Seq(S) /\ <<>> \o b = b /\ f[1] = b /\ 0 + 1 = 1
      BY <1>2, <2>1
    <3>2. FromIn(<<>>, <<>>, seqs, 0)
      BY DEF FromIn
    <3>3. \E org : FromIn(org, <<>> \o b, seqs, 0 + 1)
      BY <3>1, <3>2, OneMoreIn
    <3>4. 1 \in 1 .. N
      BY <1>2
    <3> QED
      BY <3>1, <3>3, <3>4
  <2>3. \A n \in Good : n \in 1 .. N - 1 => n + 1 \in Good
    <3> SUFFICES ASSUME NEW n \in Good, n \in 1 .. N - 1 PROVE n + 1 \in Good
      OBVIOUS
    <3>1. n \in 1 .. N /\ n + 1 \in 1 .. N /\ n + 1 \in 2 .. N /\ n + 1 - 1 = n /\ n \in Nat
      OBVIOUS
    <3>2. PICK org : FromIn(org, f[n], seqs, n)
      OBVIOUS
    <3>3. f[n] \in Seq(S) /\ seqs[n + 1] \in Seq(S)
      BY <2>1, <3>1
    <3>4. f[n + 1] = f[n] \o seqs[n + 1]
      BY <2>0 DEF Laid
    <3>5. \E new : FromIn(new, f[n] \o seqs[n + 1], seqs, n + 1)
      BY <3>1, <3>2, <3>3, OneMoreIn
    <3>6. \E new : FromIn(new, f[n + 1], seqs, n + 1)
      BY <3>1, <3>4, <3>5, Zenon
    <3> QED
      BY <3>1, <3>6
  <2> HIDE DEF Good
  <2>4. 1 .. N \subseteq Good
    <3>1. 1 \in Nat /\ N \in Nat
      OBVIOUS
    <3> QED
      BY <2>2, <2>3, <3>1, IntervalInduction
  <2>5. N \in 1 .. N
    BY <1>2
  <2>6. f[N] \in Seq(S)
    BY <2>1, <2>5
  <2> QED
    BY <2>0, <2>4, <2>5, <2>6 DEF Good
<1> QED
  BY <1>1, <1>2
-----------------------------------------------------------------------------
(***************************************************************************)
(* Merging.                                                                *)
(***************************************************************************)

\* These are the classes at the first n places, once each, the first of a name.
FirstsOf(s, all, n) ==
  /\ \A c \in ToSet(s) : \E p \in 1 .. n : c = all[p] /\ \A q \in 1 .. p - 1 : all[q].descriptor # c.descriptor
  /\ \A p \in 1 .. n : \E c \in ToSet(s) : c.descriptor = all[p].descriptor
  /\ \A a, b \in DOMAIN s : s[a].descriptor = s[b].descriptor => a = b

\* One more class keeps the first of each name.
LEMMA AddedFirst ==
  ASSUME NEW C, NEW s \in Seq(C), NEW all, NEW n \in Nat, all[n + 1] \in C, FirstsOf(s, all, n)
  PROVE  AddClass(s, all[n + 1]) \in Seq(C) /\ FirstsOf(AddClass(s, all[n + 1]), all, n + 1)
<1> DEFINE new == all[n + 1]
<1>1. /\ \A c \in ToSet(s) : \E p \in 1 .. n : c = all[p] /\ \A q \in 1 .. p - 1 : all[q].descriptor # c.descriptor
      /\ \A p \in 1 .. n : \E c \in ToSet(s) : c.descriptor = all[p].descriptor
      /\ \A a, b \in DOMAIN s : s[a].descriptor = s[b].descriptor => a = b
  BY DEF FirstsOf
<1>2. 1 .. n + 1 = 1 .. n \cup {n + 1} /\ n + 1 - 1 = n
  OBVIOUS
<1>3. CASE \E c \in ToSet(s) : c.descriptor = new.descriptor
  <2>1. AddClass(s, new) = s
    BY <1>3 DEF AddClass
  <2> QED
    BY <1>1, <1>2, <1>3, <2>1 DEF FirstsOf
<1>4. CASE ~ \E c \in ToSet(s) : c.descriptor = new.descriptor
  <2> DEFINE t == Append(s, new)
  <2>1. AddClass(s, new) = t
    BY <1>4 DEF AddClass
  <2>2. /\ t \in Seq(C) /\ DOMAIN t = 1 .. Len(s) + 1 /\ DOMAIN s = 1 .. Len(s) /\ Len(s) \in Nat
        /\ t[Len(s) + 1] = new /\ \A i \in 1 .. Len(s) : t[i] = s[i]
    OBVIOUS
  <2> HIDE DEF t
  <2>3. ToSet(t) = ToSet(s) \cup {new}
    BY <2>2 DEF ToSet
  <2>4. \A c \in ToSet(t) : \E p \in 1 .. n + 1 : c = all[p] /\ \A q \in 1 .. p - 1 : all[q].descriptor # c.descriptor
    <3> SUFFICES ASSUME NEW c \in ToSet(t) PROVE \E p \in 1 .. n + 1 : c = all[p] /\ \A q \in 1 .. p - 1 : all[q].descriptor # c.descriptor
      OBVIOUS
    <3>1. CASE c \in ToSet(s)
      BY <1>1, <1>2, <3>1
    <3>2. CASE c = new
      <4>1. \A q \in 1 .. n + 1 - 1 : all[q].descriptor # c.descriptor
        BY <1>1, <1>2, <1>4, <3>2
      <4> QED
        BY <1>2, <3>2, <4>1
    <3> QED
      BY <2>3, <3>1, <3>2
  <2>5. \A p \in 1 .. n + 1 : \E c \in ToSet(t) : c.descriptor = all[p].descriptor
    BY <1>1, <1>2, <2>3
  <2>6. \A a, b \in DOMAIN t : t[a].descriptor = t[b].descriptor => a = b
    <3>1. \A a \in 1 .. Len(s) : s[a] \in ToSet(s)
      BY <2>2 DEF ToSet
    <3>2. \A a \in 1 .. Len(s) : t[a].descriptor # t[Len(s) + 1].descriptor
      BY <1>4, <2>2, <3>1
    <3>3. \A a, b \in 1 .. Len(s) : t[a].descriptor = t[b].descriptor => a = b
      BY <1>1, <2>2
    <3>4. \A a \in DOMAIN t : a \in 1 .. Len(s) \/ a = Len(s) + 1
      BY <2>2
    <3> QED
      BY <3>2, <3>3, <3>4
  <2> QED
    BY <2>1, <2>2, <2>4, <2>5, <2>6 DEF FirstsOf
<1> QED
  BY <1>3, <1>4

\* Of all classes the first of each name are kept.
LEMMA FirstsKept ==
  ASSUME NEW C, NEW all \in Seq(C)
  PROVE  FirstCopies(all) \in Seq(C) /\ FirstsOf(FirstCopies(all), all, Len(all))
<1> DEFINE N == Len(all)
           T == Seq(C)
           Add(x, k) == AddClass(x, all[k])
           Fits(g) == g = [n \in 0 .. N |-> IF n = 0 THEN <<>> ELSE Add(g[n - 1], n)]
           f == CHOOSE g : Fits(g)
<1>1. FirstCopies(all) = f[N]
  BY DEF FirstCopies
<1>2. N \in Nat /\ <<>> \in T /\ \A k \in 1 .. N : all[k] \in C
  OBVIOUS
<1>3. \A x \in T : \A k \in 1 .. N : Add(x, k) \in T
  BY <1>2 DEF AddClass
<1>4. \A x \in T : \A n \in 0 .. N - 1 : FirstsOf(x, all, n) => Add(x, n + 1) \in T /\ FirstsOf(Add(x, n + 1), all, n + 1)
  <2> SUFFICES ASSUME NEW x \in T, NEW n \in 0 .. N - 1, FirstsOf(x, all, n)
               PROVE  Add(x, n + 1) \in T /\ FirstsOf(Add(x, n + 1), all, n + 1)
    OBVIOUS
  <2>1. n \in Nat /\ n + 1 \in 1 .. N
    BY <1>2
  <2>2. all[n + 1] \in C
    BY <1>2, <2>1
  <2> QED
    BY <2>1, <2>2, AddedFirst
<1>5. FirstsOf(<<>>, all, 0)
  BY DEF FirstsOf, ToSet
<1>6. T = Seq(C)
  OBVIOUS
<1> HIDE DEF T, Add, N
<1>7. PICK h \in [0 .. N -> T] : h[0] = <<>> /\ \A k \in 1 .. N : h[k] = Add(h[k - 1], k)
  <2> DEFINE step == [k \in 0 + 1 .. N |-> [x \in T |-> Add(x, k)]]
  <2>1. Steps(step, T, 0, N)
    BY <1>2, <1>3 DEF Steps
  <2>2. ASSUME NEW g \in [0 .. N -> T], NEW k \in 0 + 1 .. N
        PROVE  step[k][g[k - 1]] = Add(g[k - 1], k)
    <3>1. g[k - 1] \in T
      BY <1>2
    <3> QED
      BY <3>1
  <2> HIDE DEF step
  <2>3. PICK g : Trace(g, step, T, 0, N, <<>>)
    <3>1. 0 \in Nat /\ N \in Nat /\ 0 <= N
      BY <1>2
    <3> QED
      BY <1>2, <2>1, <3>1, IterationExists
  <2>4. g \in [0 .. N -> T] /\ g[0] = <<>> /\ \A k \in 0 + 1 .. N : g[k] = step[k][g[k - 1]]
    BY <2>3 DEF Trace
  <2>5. \A k \in 0 + 1 .. N : g[k] = Add(g[k - 1], k)
    BY <2>2, <2>4, Zenon
  <2>6. 0 + 1 = 1
    OBVIOUS
  <2> QED
    BY <2>4, <2>5, <2>6, Zenon
<1>8. Fits(f)
  <2>1. \A k \in 0 .. N : h[k] = IF k = 0 THEN <<>> ELSE Add(h[k - 1], k)
    BY <1>2, <1>7
  <2>2. Fits(h)
    BY <1>7, <2>1
  <2> HIDE DEF Fits
  <2> QED
    BY <2>2
<1> HIDE DEF f
<1> DEFINE Good == {n \in 0 .. N : f[n] \in T /\ FirstsOf(f[n], all, n)}
<1>9. 0 \in Good
  <2>1. f[0] = <<>>
    BY <1>2, <1>8
  <2> QED
    BY <1>2, <1>5, <2>1
<1>10. \A n \in Good : n \in 0 .. N - 1 => n + 1 \in Good
  <2> SUFFICES ASSUME NEW n \in Good, n \in 0 .. N - 1 PROVE n + 1 \in Good
    OBVIOUS
  <2>1. n + 1 \in 0 .. N /\ n + 1 # 0 /\ n + 1 - 1 = n
    BY <1>2
  <2>2. f[n + 1] = Add(f[n], n + 1)
    BY <1>8, <2>1
  <2> QED
    BY <1>4, <2>1, <2>2
<1> HIDE DEF Good
<1>11. 0 .. N \subseteq Good
  <2>1. 0 \in Nat /\ N \in Nat
    BY <1>2
  <2> QED
    BY <1>9, <1>10, <2>1, IntervalInduction
<1>12. f[N] \in T /\ FirstsOf(f[N], all, N)
  BY <1>2, <1>11 DEF Good
<1> QED
  BY <1>1, <1>6, <1>12 DEF N
-----------------------------------------------------------------------------
(***************************************************************************)
(* The recursive functions of the properties.                              *)
(***************************************************************************)

\* What lies in a file is a file.
LEMMA FilesAreFiles ==
  /\ \A id \in File : Members(id) \subseteq File
  /\ \A id \in File : \A scope : Listed(id, scope) \subseteq File
  /\ \A id \in File : Disk[id].members \in Seq(File)
<1> DEFINE There == {m \in File : Disk[m].kind # "missing"}
<1>0. \A id \in File : LET file == Disk[id]
                       IN  /\ file.soong \subseteq File /\ file.entries \subseteq File
                           /\ file.members \in Seq(There)
  BY FilesAssumption, Zenon
<1>a. There \subseteq File
  OBVIOUS
<1> HIDE DEF File, There
<1>b. \A s \in Seq(There) : s \in Seq(File)
  BY <1>a
<1>1. \A id \in File : LET file == Disk[id]
                       IN  /\ file.soong \subseteq File /\ file.entries \subseteq File
                           /\ file.members \in Seq(File)
  BY <1>0, <1>b, Zenon
<1>2. \A s \in Seq(File) : ToSet(s) \subseteq File
  BY DEF ToSet
<1> QED
  BY <1>1, <1>2 DEF Members, Listed

\* What is known of the jars in an APEX.
Jarred(jars) ==
  jars \in Seq(File) /\ \A f \in ToSet(jars) :
    /\ f \in File /\ Disk[f].kind \notin {"dir", "missing"} /\ Disk[f].name[2] = "jar"
    /\ \A g \in File : Disk[g].bytes = Disk[f].bytes => g = f

\* The jars packed into an APEX, and those that a directory shows, are files known by their bytes.
LEMMA JarsAreFiles == \A id \in File : Jarred(Disk[id].packed) /\ Jarred(Disk[id].shown)
<1> SUFFICES ASSUME NEW id \in File PROVE Jarred(Disk[id].packed) /\ Jarred(Disk[id].shown)
  OBVIOUS
<1> DEFINE Inner == {f \in File : Disk[f].kind \notin {"dir", "missing"} /\ Disk[f].name[2] = "jar"}
           packed == Disk[id].packed
           shown == Disk[id].shown
<1>1. packed \in Seq(Inner) /\ shown \in Seq(ToSet(packed)) /\ \A f \in ToSet(packed) : \A g \in File : Disk[g].bytes = Disk[f].bytes => g = f
  BY FilesAssumption, Zenon
<1>a. Inner \subseteq File /\ \A f \in Inner : Disk[f].kind \notin {"dir", "missing"} /\ Disk[f].name[2] = "jar"
  OBVIOUS
<1> HIDE DEF Inner, packed, shown
<1>2. ToSet(packed) \subseteq Inner /\ ToSet(shown) \subseteq ToSet(packed)
  BY <1>1 DEF ToSet
<1>3. packed \in Seq(File) /\ shown \in Seq(File)
  <2>1. \A s \in Seq(Inner) : s \in Seq(File)
    BY <1>a
  <2>2. \A s \in Seq(ToSet(packed)) : s \in Seq(File)
    BY <1>a, <1>2
  <2> QED
    BY <1>1, <2>1, <2>2
<1>4. Jarred(packed) /\ Jarred(shown)
  BY <1>1, <1>a, <1>2, <1>3, Zenon DEF Jarred
<1> QED
  BY <1>4 DEF packed, shown

\* What lies below a file lies below its members.
LEMMA BelowIs ==
  /\ \A id \in File : below[0][id] = {id}
  /\ \A d \in 1 .. MaxDepth : \A id \in File :
       below[d][id] = {id} \cup (IF Disk[id].kind # "zip" THEN {} ELSE UNION {below[d - 1][m] : m \in Members(id)})
<1> DEFINE T == [File -> SUBSET File]
           More(g, d) == [id \in File |-> {id} \cup (IF d = 0 \/ Disk[id].kind # "zip" THEN {} ELSE UNION {g[m] : m \in Members(id)})]
           Fits(h) == h = [d \in 0 .. MaxDepth |-> More(h[d - 1], d)]
           At(g, id) == {id} \cup (IF Disk[id].kind # "zip" THEN {} ELSE UNION {g[m] : m \in Members(id)})
           first == [id \in File |-> {id}]
<1>1. \A g : More(g, 0) = first
  OBVIOUS
<1>2. \A g \in T, d \in Nat : More(g, d) \in T
  BY FilesAreFiles
<1>3. first \in T
  OBVIOUS
<1>4. MaxDepth \in Nat
  BY MaxDepthAssumption
<1>5. below = CHOOSE h : Fits(h)
  BY DEF below
<1>6. \A g : \A d \in 1 .. MaxDepth : \A id \in File : More(g, d)[id] = At(g, id)
  OBVIOUS
<1>7. \A id \in File : first[id] = {id}
  OBVIOUS
<1> HIDE DEF T, More, first, At
<1>8. PICK h \in [0 .. MaxDepth -> T] : h[0] = first /\ \A k \in 1 .. MaxDepth : h[k] = More(h[k - 1], k)
  <2> DEFINE step == [k \in 0 + 1 .. MaxDepth |-> [x \in T |-> More(x, k)]]
  <2>1. Steps(step, T, 0, MaxDepth)
    BY <1>2, <1>4 DEF Steps
  <2>2. ASSUME NEW g \in [0 .. MaxDepth -> T], NEW k \in 0 + 1 .. MaxDepth
        PROVE  step[k][g[k - 1]] = More(g[k - 1], k)
    <3>1. g[k - 1] \in T
      BY <1>4
    <3> QED
      BY <3>1
  <2> HIDE DEF step
  <2>3. PICK g : Trace(g, step, T, 0, MaxDepth, first)
    <3>1. 0 \in Nat /\ MaxDepth \in Nat /\ 0 <= MaxDepth
      BY <1>4
    <3> QED
      BY <1>3, <2>1, <3>1, IterationExists
  <2>4. g \in [0 .. MaxDepth -> T] /\ g[0] = first /\ \A k \in 0 + 1 .. MaxDepth : g[k] = step[k][g[k - 1]]
    BY <2>3 DEF Trace
  <2>5. \A k \in 0 + 1 .. MaxDepth : g[k] = More(g[k - 1], k)
    BY <2>2, <2>4, Zenon
  <2>6. 0 + 1 = 1
    OBVIOUS
  <2> QED
    BY <2>4, <2>5, <2>6, Zenon
<1>9. Fits(below)
  <2>1. \A k \in 0 .. MaxDepth : h[k] = More(h[k - 1], k)
    BY <1>1, <1>4, <1>8
  <2>2. Fits(h)
    BY <1>8, <2>1
  <2> HIDE DEF Fits
  <2> QED
    BY <1>5, <2>2
<1>10. below[0] = first /\ \A k \in 1 .. MaxDepth : below[k] = More(below[k - 1], k)
  BY <1>1, <1>4, <1>9
<1>11. \A id \in File : below[0][id] = {id}
  BY <1>7, <1>10
<1>12. \A d \in 1 .. MaxDepth : \A id \in File : below[d][id] = At(below[d - 1], id)
  <2> SUFFICES ASSUME NEW d \in 1 .. MaxDepth, NEW id \in File PROVE below[d][id] = At(below[d - 1], id)
    OBVIOUS
  <2>1. below[d] = More(below[d - 1], d)
    BY <1>10, Zenon
  <2>2. More(below[d - 1], d)[id] = At(below[d - 1], id)
    BY <1>6, Zenon
  <2> QED
    BY <2>1, <2>2, Zenon
<1> QED
  BY <1>11, <1>12 DEF At

\* What a directory leads to is what its entries lead to.
LEMMA LedIs ==
  \A id \in File : led[id] = IF Disk[id].kind = "dir" THEN UNION {led[e] : e \in Listed(id, ToSet(Alphabet))} ELSE {id}
<1> DEFINE On(g, id) == IF Disk[id].kind = "dir" THEN UNION {g[e] : e \in Listed(id, ToSet(Alphabet))} ELSE {id}
           Fits(g) == g = [id \in File |-> On(g, id)]
           Closed == {g \in [File -> SUBSET File] : \A id \in File : On(g, id) \subseteq g[id]}
           least == [id \in File |-> {f \in File : \A g \in Closed : f \in g[id]}]
           next == [id \in File |-> On(least, id)]
<1>1. led = CHOOSE g : Fits(g)
  BY DEF led
<1>2. \A id \in File : Listed(id, ToSet(Alphabet)) \subseteq File
  BY FilesAreFiles
<1>3. \A g, h \in [File -> SUBSET File] :
        (\A id \in File : g[id] \subseteq h[id]) => \A id \in File : On(g, id) \subseteq On(h, id) /\ On(g, id) \subseteq File
  BY <1>2
<1> HIDE DEF On
<1>4. least \in [File -> SUBSET File]
  OBVIOUS
<1>5. \A g \in Closed : g \in [File -> SUBSET File] /\ (\A id \in File : On(g, id) \subseteq g[id]) /\ \A id \in File : least[id] \subseteq g[id]
  OBVIOUS
<1>6. \A id \in File : \A f \in File : (\A g \in Closed : f \in g[id]) => f \in least[id]
  OBVIOUS
<1>7. \A g \in [File -> SUBSET File] : (\A id \in File : On(g, id) \subseteq g[id]) => g \in Closed
  OBVIOUS
<1> HIDE DEF Closed, least
<1>8. \A id \in File : On(least, id) \subseteq least[id]
  <2> SUFFICES ASSUME NEW id \in File, NEW f \in On(least, id) PROVE f \in least[id]
    OBVIOUS
  <2>1. f \in File
    BY <1>3, <1>4
  <2>2. \A g \in Closed : f \in g[id]
    <3> SUFFICES ASSUME NEW g \in Closed PROVE f \in g[id]
      OBVIOUS
    <3>1. On(least, id) \subseteq On(g, id) /\ On(g, id) \subseteq g[id]
      BY <1>3, <1>4, <1>5
    <3> QED
      BY <3>1
  <2> QED
    BY <1>6, <2>1, <2>2
<1>9. next \in [File -> SUBSET File] /\ \A id \in File : next[id] = On(least, id)
  BY <1>3, <1>4
<1> HIDE DEF next
<1>10. next \in Closed
  <2>1. \A id \in File : next[id] \subseteq least[id]
    BY <1>8, <1>9
  <2>2. \A id \in File : On(next, id) \subseteq On(least, id)
    BY <1>3, <1>4, <1>9, <2>1
  <2> QED
    BY <1>7, <1>9, <2>2
<1>11. \A id \in File : least[id] = On(least, id)
  BY <1>5, <1>8, <1>9, <1>10
<1>12. Fits(least)
  BY <1>4, <1>11
<1> HIDE DEF Fits
<1>13. Fits(led)
  BY <1>1, <1>12
<1>14. \A id \in File : led[id] = On(led, id)
  BY <1>13 DEF Fits
<1> QED
  BY <1>14 DEF On
-----------------------------------------------------------------------------
(***************************************************************************)
(* The invariant.                                                          *)
(***************************************************************************)

\* The native readers take the jars that its directory shows out of every image, but one only the tool reads.
ImagesExact ==
  \A id \in File :
    IsApex(id) /\ Disk[id].kind \notin {"dir", "missing"} => JavalibJars(id) = IF Disk[id].exotic THEN {} ELSE {JarsOf(Disk[id].shown)}

\* Either front end makes of a dex what it says.
FrontEndsExact ==
  \A id \in File : IsDex(id) => /\ decoded.native[id] = decoded.said[id][FALSE]
                                /\ decoded.text[id] = decoded.said[id][TRUE]

\* The files on disk that an item leads to, and what is within its reach.
Led(item) ==
  IF ~ item.path THEN {}
  ELSE IF Disk[item.id].kind = "dir" THEN UNION {led[e] : e \in Listed(item.id, item.scope)} ELSE {item.id}

Reach(id) == IF IsApex(id) THEN UNION {below[MaxDepth - 1][jar] : jar \in ToSet(Seen(id))} ELSE below[MaxDepth][id]

Looked(item) == item.depth <= MaxDepth /\ Disk[item.id].kind # "dir" /\ Interesting(item.id)

Inside(item) ==
  IF item.path THEN UNION {Reach(id) : id \in Led(item)}
  ELSE IF Looked(item) THEN below[MaxDepth - item.depth][item.id] ELSE {}

\* Paths, and files, that cannot be read.
BadPath(id) == Disk[id].kind = "missing" \/ (IsApex(id) /\ Disk[id].exotic /\ run.tool = "missing")
BadFile(id) == IF Disk[id].kind \in {"dex", "zip"} THEN ~ Disk[id].ok ELSE IsZipExt(id)
Faulty(item) == (\E id \in Led(item) : BadPath(id)) \/ (\E id \in Inside(item) : BadFile(id))

Scopes == {r.scope : r \in Runs} \cup {ToSet(Alphabet)}
Work == {i \in [id : File, path : BOOLEAN, scope : Scopes, depth : Nat, from : DOMAIN run.given] : i.path => i.depth = 0}
Blob == [id : {id \in File : Disk[id].kind = "dex"}, from : DOMAIN run.given]

TypeInv ==
  /\ decoded = Decoded /\ run \in Runs
  /\ todo \in Seq(Work) /\ blobs \in Seq(Blob)
  /\ phase \in {"collect", "parse", "done", "failed"}

\* What was found was found in the order of the paths, and before what is left.
InOrder ==
  /\ \A a, b \in DOMAIN todo : a <= b => todo[a].from <= todo[b].from
  /\ \A a, b \in DOMAIN blobs : a <= b => blobs[a].from <= blobs[b].from
  /\ \A a \in DOMAIN blobs : \A b \in DOMAIN todo : blobs[a].from <= todo[b].from

\* The dexes within reach of a path are found or in reach of what is left of it.
NoneLost ==
  \A k \in DOMAIN run.given : \A id :
    id \in Dexes(k) <=> \/ \E b \in ToSet(blobs) : b.from = k /\ b.id = id
                        \/ Disk[id].kind = "dex" /\ \E i \in ToSet(todo) : i.from = k /\ id \in Inside(i)

\* And so is what cannot be read.
NoneHidden ==
  \A k \in DOMAIN run.given :
    Unreadables(k) # {} <=> \/ \E i \in ToSet(todo) : i.from = k /\ Faulty(i)
                            \/ \E b \in ToSet(blobs) : b.from = k /\ ~ Disk[b.id].ok

ByPhase ==
  /\ phase = "collect" => DOMAIN parsed = {}
  /\ phase \in {"parse", "done"} => todo = <<>> /\ blobs # <<>>
  /\ DOMAIN parsed \subseteq DOMAIN blobs
  /\ \A k \in DOMAIN parsed : parsed[k] = Model(blobs[k].id) /\ Disk[blobs[k].id].ok
  /\ phase = "done" => /\ DOMAIN parsed = DOMAIN blobs
                       /\ merged = [classes |-> FirstCopies(FlattenSeq([k \in DOMAIN blobs |-> parsed[k].classes])),
                                    flagged |-> UNION {parsed[k].flagged : k \in DOMAIN blobs}]
  /\ phase = "failed" => AllDexes = {} \/ \E k \in DOMAIN run.given : Unreadables(k) # {}

Sound == InOrder /\ NoneLost /\ NoneHidden /\ ByPhase

InputsInv == ImagesExact => TypeInv /\ Sound

-----------------------------------------------------------------------------
(***************************************************************************)
(* What an item is replaced by.                                            *)
(***************************************************************************)

\* These items have in reach what the item has, and are at fault if it is.
Replaces(items, item) ==
  /\ items \in Seq(Work)
  /\ \A i \in ToSet(items) : i.from = item.from
  /\ \A id : Disk[id].kind = "dex" => (id \in Inside(item) <=> \E i \in ToSet(items) : id \in Inside(i))
  /\ Faulty(item) <=> \E i \in ToSet(items) : Faulty(i)

\* What a directory lists, each entry on the whole.
Listings(item, order) == [k \in DOMAIN order |-> [item EXCEPT !.id = order[k], !.scope = ToSet(Alphabet)]]

\* A directory by its entries.
LEMMA DirectoryReplaced ==
  ASSUME NEW item \in Work, item.path, Disk[item.id].kind = "dir", NEW N \in Nat, NEW order \in [1 .. N -> File],
         ToSet(order) = Listed(item.id, item.scope)
  PROVE  Replaces(Listings(item, order), item)
<1> DEFINE Entry(e) == [item EXCEPT !.id = e, !.scope = ToSet(Alphabet)]
           items == [k \in DOMAIN order |-> Entry(order[k])]
<1>1. \A e \in File : Entry(e) \in Work /\ Entry(e).id = e /\ Entry(e).path /\ Entry(e).scope = ToSet(Alphabet) /\ Entry(e).from = item.from
  BY DEF Work, Scopes
<1> HIDE DEF Entry
<1>2. items \in Seq(Work)
  BY <1>1
<1>3. ToSet(items) = {Entry(e) : e \in Listed(item.id, item.scope)}
  BY DEF ToSet
<1>4. \A e \in Listed(item.id, item.scope) : e \in File
  BY DEF ToSet
<1>5. \A e \in Listed(item.id, item.scope) : Led(Entry(e)) = led[e]
  BY <1>1, <1>4, LedIs DEF Led
<1>6. \A e \in Listed(item.id, item.scope) : Inside(Entry(e)) = UNION {Reach(id) : id \in led[e]}
  BY <1>1, <1>4, <1>5 DEF Inside
<1>7. Led(item) = UNION {led[e] : e \in Listed(item.id, item.scope)}
  BY DEF Led
<1>8. Inside(item) = UNION {Reach(id) : id \in Led(item)}
  BY DEF Inside
<1> HIDE DEF items
<1>9. \A id : id \in Inside(item) <=> \E i \in ToSet(items) : id \in Inside(i)
  <2>1. \A i : i \in ToSet(items) <=> \E e \in Listed(item.id, item.scope) : i = Entry(e)
    BY <1>3
  <2>2. \A id : id \in Inside(item) <=> \E e \in Listed(item.id, item.scope) : \E on \in led[e] : id \in Reach(on)
    BY <1>7, <1>8
  <2>3. \A e \in Listed(item.id, item.scope) : \A id : id \in Inside(Entry(e)) <=> \E on \in led[e] : id \in Reach(on)
    BY <1>6
  <2> QED
    BY <2>1, <2>2, <2>3, Zenon
<1>10. Faulty(item) <=> \E i \in ToSet(items) : Faulty(i)
  BY <1>3, <1>5, <1>7, <1>9 DEF Faulty
<1>11. \A i \in ToSet(items) : i.from = item.from
  BY <1>1, <1>3, <1>4
<1>12. Replaces(items, item)
  BY <1>2, <1>9, <1>10, <1>11, Zenon DEF Replaces
<1> QED
  BY <1>12, Zenon DEF items, Entry, Listings

\* A file within what an item stands for, that many archives down.
PartOf(item, f, depth) == [item EXCEPT !.id = f, !.path = FALSE, !.depth = depth]

\* A file looked into is an item of work like the one it was found in.
LEMMA MemberIsWork ==
  \A item \in Work, f \in File, d \in Nat :
    /\ PartOf(item, f, d) \in Work /\ PartOf(item, f, d).id = f /\ PartOf(item, f, d).path = FALSE
    /\ PartOf(item, f, d).depth = d /\ PartOf(item, f, d).from = item.from
BY DEF Work, Scopes, PartOf

\* The jars of an APEX, and the members of an archive, in its place.
Jars(item) == [k \in DOMAIN JarsOf(Seen(item.id)) |-> PartOf(item, FileWith(JarsOf(Seen(item.id))[k].bytes), 1)]
Parts(item) == [k \in DOMAIN Disk[item.id].members |-> PartOf(item, Disk[item.id].members[k], item.depth + 1)]

\* An APEX that can be read by the jars in it that are seen.
LEMMA ApexReplaced ==
  ASSUME NEW item \in Work, item.path, Disk[item.id].kind \notin {"dir", "missing"}, IsApex(item.id),
         ~ (Disk[item.id].exotic /\ run.tool = "missing")
  PROVE  Replaces(Jars(item), item)
<1> DEFINE packed == Seen(item.id)
           Jar(f) == PartOf(item, f, 1)
           items == [k \in DOMAIN packed |-> Jar(packed[k])]
<1>1. item.id \in File
  BY DEF Work
<1>2. packed \in Seq(File) /\ \A f \in ToSet(packed) :
        /\ f \in File /\ Disk[f].kind \notin {"dir", "missing"} /\ Disk[f].name[2] = "jar"
        /\ \A g \in File : Disk[g].bytes = Disk[f].bytes => g = f
  <2>1. Jarred(packed)
    BY <1>1, JarsAreFiles, Zenon DEF Seen, Packed
  <2> HIDE DEF packed
  <2> QED
    BY <2>1, Zenon DEF Jarred
<1>3. DOMAIN packed = 1 .. Len(packed) /\ Len(packed) \in Nat /\ \A k \in DOMAIN packed : packed[k] \in ToSet(packed)
  BY <1>2 DEF ToSet
<1>4. DOMAIN JarsOf(packed) = DOMAIN packed /\ \A k \in DOMAIN packed : JarsOf(packed)[k].bytes = Disk[packed[k]].bytes
  BY DEF JarsOf
<1> HIDE DEF packed
<1>5. \A f \in ToSet(packed) : FileWith(Disk[f].bytes) = f
  <2> SUFFICES ASSUME NEW f \in ToSet(packed) PROVE FileWith(Disk[f].bytes) = f
    OBVIOUS
  <2>1. {g \in File : Disk[g].bytes = Disk[f].bytes} = {f}
    BY <1>2
  <2> QED
    BY <2>1 DEF FileWith, The
<1>7. \A f \in File : Jar(f) \in Work /\ Jar(f).id = f /\ Jar(f).path = FALSE /\ Jar(f).depth = 1 /\ Jar(f).from = item.from
  BY MemberIsWork
<1> HIDE DEF Jar
<1>6. [k \in DOMAIN JarsOf(packed) |-> Jar(FileWith(JarsOf(packed)[k].bytes))] = items
  <2>1. \A k \in DOMAIN packed : FileWith(JarsOf(packed)[k].bytes) = packed[k]
    BY <1>3, <1>4, <1>5
  <2> QED
    BY <1>4, <2>1
<1>8. items \in Seq(Work)
  BY <1>2, <1>3, <1>7
<1>9. ToSet(items) = {Jar(f) : f \in ToSet(packed)}
  BY DEF ToSet
<1> HIDE DEF items
<1>10. \A f \in ToSet(packed) : Led(Jar(f)) = {} /\ Inside(Jar(f)) = below[MaxDepth - 1][f]
  <2>1. \A f \in ToSet(packed) : Looked(Jar(f))
    BY <1>2, <1>7, MaxDepthAssumption DEF Looked, Interesting, IsZipExt, Ext
  <2> QED
    BY <1>2, <1>7, <2>1 DEF Led, Inside
<1>11. Led(item) = {item.id}
  BY DEF Led
<1>12. Inside(item) = UNION {below[MaxDepth - 1][jar] : jar \in ToSet(packed)}
  BY <1>11 DEF Inside, Reach, packed
<1>13. \A id : id \in Inside(item) <=> \E i \in ToSet(items) : id \in Inside(i)
  BY <1>9, <1>10, <1>12
<1>14. ~ BadPath(item.id)
  BY DEF BadPath
<1>15. Faulty(item) <=> \E i \in ToSet(items) : Faulty(i)
  BY <1>9, <1>10, <1>11, <1>13, <1>14 DEF Faulty
<1>16. \A i \in ToSet(items) : i.from = item.from
  BY <1>2, <1>7, <1>9
<1>17. Replaces(items, item)
  BY <1>8, <1>13, <1>15, <1>16, Zenon DEF Replaces
<1> QED
  BY <1>6, <1>17, Zenon DEF Jar, Jars, packed

\* Something that cannot hold a dex, or is too deep, by nothing.
LEMMA NothingThere ==
  ASSUME NEW item \in Work, Inside(item) = {} \/ (Inside(item) = {item.id} /\ Disk[item.id].kind \notin {"dex", "zip"} /\ ~ IsZipExt(item.id)),
         Led(item) = {} \/ (Led(item) = {item.id} /\ ~ BadPath(item.id))
  PROVE  Replaces(<<>>, item)
<1>1. <<>> \in Seq(Work) /\ ToSet(<<>>) = {}
  BY DEF ToSet
<1>2. \A id \in Inside(item) : Disk[id].kind # "dex" /\ ~ BadFile(id)
  BY DEF BadFile
<1>3. \A id \in Led(item) : ~ BadPath(id)
  OBVIOUS
<1>4. ~ Faulty(item)
  BY <1>2, <1>3, Zenon DEF Faulty
<1> QED
  BY <1>1, <1>2, <1>4, Zenon DEF Replaces

\* What is in reach of a path that is no directory, and no APEX, or of a member.
LEMMA FileInside ==
  ASSUME NEW item \in Work, Disk[item.id].kind # "dir", ~ (item.path /\ IsApex(item.id)), item.path \/ Looked(item)
  PROVE  /\ Inside(item) = below[MaxDepth - item.depth][item.id]
         /\ Led(item) = IF item.path THEN {item.id} ELSE {}
         /\ Disk[item.id].kind # "zip" => Inside(item) = {item.id}
         /\ item.id \in Inside(item)
         /\ item.id \in File /\ item.depth \in 0 .. MaxDepth
<1>1. item.id \in File /\ item.depth \in Nat /\ MaxDepth \in Nat \ {0} /\ (item.path => item.depth = 0)
  BY MaxDepthAssumption DEF Work
<1>2. item.depth <= MaxDepth
  BY <1>1 DEF Looked
<1>3. Led(item) = IF item.path THEN {item.id} ELSE {}
  BY DEF Led
<1>4. Inside(item) = below[MaxDepth - item.depth][item.id]
  <2>1. CASE item.path
    <3>1. Inside(item) = below[MaxDepth][item.id]
      BY <1>3, <2>1 DEF Inside, Reach
    <3> QED
      BY <1>1, <2>1, <3>1
  <2>2. CASE ~ item.path
    BY <2>2 DEF Inside
  <2> QED
    BY <2>1, <2>2
<1> DEFINE d == MaxDepth - item.depth
<1>5. d \in 0 .. MaxDepth
  BY <1>1, <1>2
<1> HIDE DEF d
<1>6. item.id \in below[d][item.id] /\ (Disk[item.id].kind # "zip" => below[d][item.id] = {item.id})
  <2>1. CASE d = 0
    BY <1>1, <2>1, BelowIs
  <2>2. CASE d \in 1 .. MaxDepth
    <3>1. below[d][item.id] = {item.id} \cup (IF Disk[item.id].kind # "zip" THEN {} ELSE UNION {below[d - 1][m] : m \in Members(item.id)})
      BY <1>1, <2>2, BelowIs, Zenon
    <3> QED
      BY <3>1
  <2> QED
    BY <1>5, <2>1, <2>2
<1> QED
  BY <1>1, <1>2, <1>3, <1>4, <1>6 DEF d

\* An archive that can be read by its members, one deeper.
LEMMA ArchiveReplaced ==
  ASSUME NEW item \in Work, Disk[item.id].kind = "zip", Disk[item.id].ok, ~ (item.path /\ IsApex(item.id)), item.path \/ Looked(item)
  PROVE  Replaces(Parts(item), item)
<1> DEFINE members == Disk[item.id].members
           Part(m) == PartOf(item, m, item.depth + 1)
           items == [k \in DOMAIN members |-> Part(members[k])]
           d == MaxDepth - item.depth
<1>1. /\ Inside(item) = below[d][item.id]
      /\ Led(item) = IF item.path THEN {item.id} ELSE {}
      /\ item.id \in File /\ item.depth \in 0 .. MaxDepth
  <2>1. Disk[item.id].kind # "dir"
    OBVIOUS
  <2> QED
    BY <2>1, FileInside
<1>2. members \in Seq(File)
  BY <1>1, FilesAreFiles
<1>3. DOMAIN members = 1 .. Len(members) /\ Len(members) \in Nat /\ \A k \in DOMAIN members : members[k] \in ToSet(members) /\ members[k] \in File
  <2> HIDE DEF members
  <2> QED
    BY <1>2 DEF ToSet
<1>4. \A m \in ToSet(members) : m \in File
  <2> HIDE DEF members
  <2> QED
    BY <1>2 DEF ToSet
<1>5. Members(item.id) = {m \in ToSet(members) : Disk[m].kind # "dir" /\ Interesting(m)}
  BY DEF Members
<1> HIDE DEF members
<1>6. \A m \in File : /\ Part(m) \in Work /\ Part(m).id = m /\ Part(m).path = FALSE
                      /\ Part(m).depth = item.depth + 1 /\ Part(m).from = item.from
  <2>1. item.depth + 1 \in Nat
    BY <1>1
  <2> QED
    BY <2>1, MemberIsWork
<1> HIDE DEF Part
<1>7. items \in Seq(Work)
  BY <1>3, <1>6
<1>8. \A i : i \in ToSet(items) <=> \E m \in ToSet(members) : i = Part(m)
  <2>1. ToSet(items) = {Part(m) : m \in ToSet(members)}
    BY DEF ToSet
  <2> QED
    BY <2>1
<1> HIDE DEF items
<1>9. \A m \in ToSet(members) : Led(Part(m)) = {} /\ Inside(Part(m)) = IF d > 0 /\ m \in Members(item.id) THEN below[d - 1][m] ELSE {}
  <2> SUFFICES ASSUME NEW m \in ToSet(members)
               PROVE  Led(Part(m)) = {} /\ Inside(Part(m)) = IF d > 0 /\ m \in Members(item.id) THEN below[d - 1][m] ELSE {}
    OBVIOUS
  <2>1. m \in File /\ MaxDepth \in Nat
    BY <1>4, MaxDepthAssumption
  <2>2. Looked(Part(m)) <=> d > 0 /\ m \in Members(item.id)
    BY <1>1, <1>5, <1>6, <2>1 DEF Looked
  <2>3. MaxDepth - Part(m).depth = d - 1
    BY <1>1, <1>6, <2>1
  <2> QED
    BY <1>6, <2>1, <2>2, <2>3 DEF Led, Inside
<1>10. d \in 0 .. MaxDepth
  BY <1>1, MaxDepthAssumption
<1> HIDE DEF d
<1>11. \A id : id \in below[d][item.id] <=> id = item.id \/ \E m \in Members(item.id) : d > 0 /\ id \in below[d - 1][m]
  <2>1. CASE d = 0
    BY <1>1, <2>1, BelowIs
  <2>2. CASE d \in 1 .. MaxDepth
    <3>1. below[d][item.id] = {item.id} \cup (IF Disk[item.id].kind # "zip" THEN {} ELSE UNION {below[d - 1][m] : m \in Members(item.id)})
      BY <1>1, <2>2, BelowIs, Zenon
    <3>2. d > 0
      BY <2>2
    <3> QED
      BY <3>1, <3>2
  <2> QED
    BY <1>10, <2>1, <2>2
<1>12. \A m \in ToSet(members) : \A id : id \in Inside(Part(m)) <=> (m \in Members(item.id) /\ d > 0 /\ id \in below[d - 1][m])
  BY <1>9
<1>13. \A id : id \in Inside(item) <=> id = item.id \/ \E i \in ToSet(items) : id \in Inside(i)
  <2>1. \A m \in Members(item.id) : m \in ToSet(members)
    BY <1>5
  <2> QED
    BY <1>1, <1>8, <1>11, <1>12, <2>1, Zenon
<1>14. ~ BadFile(item.id)
  BY DEF BadFile
<1>15. \A id \in Led(item) : ~ BadPath(id)
  BY <1>1 DEF BadPath
<1>16. \A i \in ToSet(items) : Led(i) = {}
  BY <1>8, <1>9
<1>17. Faulty(item) <=> \E i \in ToSet(items) : Faulty(i)
  <2>1. Faulty(item) <=> \E id \in Inside(item) : BadFile(id)
    BY <1>15, Zenon DEF Faulty
  <2>2. \A i \in ToSet(items) : Faulty(i) <=> \E id \in Inside(i) : BadFile(id)
    BY <1>16, Zenon DEF Faulty
  <2> QED
    BY <1>13, <1>14, <2>1, <2>2, Zenon
<1>18. \A id : Disk[id].kind = "dex" => (id \in Inside(item) <=> \E i \in ToSet(items) : id \in Inside(i))
  <2>1. Disk[item.id].kind # "dex"
    OBVIOUS
  <2> QED
    BY <1>13, <2>1, Zenon
<1>19. \A i \in ToSet(items) : i.from = item.from
  BY <1>4, <1>6, <1>8
<1>20. Replaces(items, item)
  BY <1>7, <1>17, <1>18, <1>19, Zenon DEF Replaces
<1> QED
  BY <1>20, Zenon DEF items, Part, members, Parts
-----------------------------------------------------------------------------
(***************************************************************************)
(* One step of collecting.                                                 *)
(***************************************************************************)

\* What is in reach is read off the command line and the files alone.
LEMMA SameFiles ==
  ASSUME decoded' = decoded, run' = run
  PROVE  /\ \A k : Dexes(k)' = Dexes(k) /\ Unreadables(k)' = Unreadables(k)
         /\ AllDexes' = AllDexes
         /\ Work' = Work /\ Blob' = Blob
         /\ \A i : Inside(i)' = Inside(i) /\ Faulty(i)' = Faulty(i)
         /\ \A id : Model(id)' = Model(id)
         /\ ImagesExact' = ImagesExact
<1>1. \A k : OnDisk(k)' = OnDisk(k)
  BY DEF OnDisk
<1>a. \A id : Seen(id)' = Seen(id)
  BY DEF Seen
<1>2. \A k : Reached(k)' = Reached(k)
  BY <1>1, <1>a, Zenon DEF Reached
<1>3. \A k : Dexes(k)' = Dexes(k)
  BY <1>2, Zenon DEF Dexes
<1>4. \A k : Unreadables(k)' = Unreadables(k)
  BY <1>1, <1>2, Zenon DEF Unreadables
<1>5. AllDexes' = AllDexes
  BY <1>3, Zenon DEF AllDexes
<1>6. \A i : Inside(i)' = Inside(i)
  <2>1. \A id : Reach(id)' = Reach(id)
    BY <1>a, Zenon DEF Reach
  <2> QED
    BY <2>1, Zenon DEF Inside
<1>b. \A i : Faulty(i)' = Faulty(i)
  BY <1>6, Zenon DEF Faulty, BadPath
<1>7. \A id : Model(id)' = Model(id)
  BY DEF Model
<1>8. ImagesExact' = ImagesExact
  BY Zenon DEF ImagesExact, JavalibJars
<1>9. Work' = Work /\ Blob' = Blob
  BY DEF Work, Blob
<1> QED
  BY <1>3, <1>4, <1>5, <1>6, <1>b, <1>7, <1>8, <1>9

\* What is found and what is left decide that no dex is lost.
LEMMA LostStays ==
  ASSUME NoneLost, decoded' = decoded, run' = run, todo' = todo, blobs' = blobs
  PROVE  NoneLost'
<1>1. \A k, id : (id \in Dexes(k))' <=> id \in Dexes(k)
  BY SameFiles, Zenon
<1>2. \A i, id : (id \in Inside(i))' <=> id \in Inside(i)
  BY SameFiles, Zenon
<1>3. \A k, id : (\E i \in ToSet(todo) : i.from = k /\ id \in Inside(i))' <=> \E i \in ToSet(todo) : i.from = k /\ id \in Inside(i)
  BY <1>2, Zenon
<1> SUFFICES ASSUME NEW k \in DOMAIN run.given, NEW id
             PROVE  (id \in Dexes(k))' <=> \/ \E b \in ToSet(blobs) : b.from = k /\ b.id = id
                                           \/ Disk[id].kind = "dex" /\ (\E i \in ToSet(todo) : i.from = k /\ id \in Inside(i))'
  BY Zenon DEF NoneLost
<1>4. id \in Dexes(k) <=> \/ \E b \in ToSet(blobs) : b.from = k /\ b.id = id
                          \/ Disk[id].kind = "dex" /\ \E i \in ToSet(todo) : i.from = k /\ id \in Inside(i)
  BY DEF NoneLost
<1>5. (id \in Dexes(k))' <=> id \in Dexes(k)
  BY <1>1
<1>6. (\E i \in ToSet(todo) : i.from = k /\ id \in Inside(i))' <=> \E i \in ToSet(todo) : i.from = k /\ id \in Inside(i)
  BY <1>3
<1> QED
  BY <1>4, <1>5, <1>6

\* The first of a sequence replaced by others.
Spliced(rest, items, s) ==
  /\ DOMAIN rest = 1 .. Len(items) + Len(s) - 1
  /\ Len(items) \in Nat /\ Len(s) \in Nat /\ DOMAIN s = 1 .. Len(s) /\ 1 \in DOMAIN s
  /\ \A a \in 1 .. Len(items) : rest[a] = items[a] /\ items[a] \in ToSet(items)
  /\ \A b \in 2 .. Len(s) : rest[Len(items) + b - 1] = s[b]
  /\ ToSet(s) = {s[1]} \cup {s[b] : b \in 2 .. Len(s)}
  /\ ToSet(rest) = ToSet(items) \cup {s[b] : b \in 2 .. Len(s)}

\* The items put in place of the first come before all others.
LEMMA HeadReplaced ==
  ASSUME NEW W, NEW s \in Seq(W), s # <<>>, NEW items \in Seq(W), NEW rest, rest = items \o Tail(s)
  PROVE  rest \in Seq(W) /\ Spliced(rest, items, s)
<1> DEFINE t == Tail(s)
<1>1. /\ t \in Seq(W) /\ Len(t) = Len(s) - 1 /\ Len(s) \in Nat \ {0} /\ Len(t) \in Nat /\ Len(items) \in Nat
      /\ DOMAIN s = 1 .. Len(s) /\ DOMAIN items = 1 .. Len(items)
  OBVIOUS
<1>2. \A b \in 2 .. Len(s) : b - 1 \in 1 .. Len(t) /\ t[b - 1] = s[b]
  OBVIOUS
<1> HIDE DEF t
<1>3. rest = items \o t
  BY DEF t
<1>4. /\ rest \in Seq(W) /\ Len(rest) = Len(items) + Len(t) /\ DOMAIN rest = 1 .. Len(rest)
      /\ \A a \in 1 .. Len(items) : rest[a] = items[a]
      /\ \A a \in 1 .. Len(t) : rest[Len(items) + a] = t[a]
  BY <1>1, <1>3
<1>5. \A b \in 2 .. Len(s) : rest[Len(items) + b - 1] = s[b]
  <2> SUFFICES ASSUME NEW b \in 2 .. Len(s) PROVE rest[Len(items) + b - 1] = s[b]
    OBVIOUS
  <2>1. Len(items) + b - 1 = Len(items) + (b - 1)
    BY <1>1
  <2> QED
    BY <1>2, <1>4, <2>1
<1>6. ToSet(s) = {s[1]} \cup {s[b] : b \in 2 .. Len(s)}
  <2>1. \A b : b \in DOMAIN s <=> b = 1 \/ b \in 2 .. Len(s)
    BY <1>1
  <2>2. \A x : x \in ToSet(s) <=> \E b \in DOMAIN s : x = s[b]
    BY Zenon DEF ToSet
  <2>3. \A x : x \in {s[1]} \cup {s[b] : b \in 2 .. Len(s)} <=> x = s[1] \/ \E b \in 2 .. Len(s) : x = s[b]
    BY Zenon
  <2> QED
    BY <2>1, <2>2, <2>3, Zenon
<1>7. \A a \in 1 .. Len(items) : items[a] \in ToSet(items)
  BY <1>1 DEF ToSet
<1>8. ToSet(rest) = ToSet(items) \cup {s[b] : b \in 2 .. Len(s)}
  <2>1. \A a \in DOMAIN rest : a \in 1 .. Len(items) \/ \E b \in 2 .. Len(s) : a = Len(items) + b - 1
    <3> SUFFICES ASSUME NEW a \in DOMAIN rest, a \notin 1 .. Len(items) PROVE \E b \in 2 .. Len(s) : a = Len(items) + b - 1
      OBVIOUS
    <3>1. a - Len(items) + 1 \in 2 .. Len(s) /\ a = Len(items) + (a - Len(items) + 1) - 1
      BY <1>1, <1>4
    <3> QED
      BY <3>1
  <2>2. \A b \in 2 .. Len(s) : Len(items) + b - 1 \in DOMAIN rest
    BY <1>1, <1>4
  <2>3. \A a \in 1 .. Len(items) : a \in DOMAIN rest
    BY <1>1, <1>4
  <2>4. \A x : x \in ToSet(rest) <=> \E a \in DOMAIN rest : x = rest[a]
    BY Zenon DEF ToSet
  <2>5. \A x : x \in ToSet(items) \cup {s[b] : b \in 2 .. Len(s)}
                  <=> (\E a \in 1 .. Len(items) : x = items[a]) \/ \E b \in 2 .. Len(s) : x = s[b]
    BY <1>1, Zenon DEF ToSet
  <2>6. \A x : x \in ToSet(rest) <=> (\E a \in 1 .. Len(items) : x = items[a]) \/ \E b \in 2 .. Len(s) : x = s[b]
    <3>1. \A a \in DOMAIN rest : (\E c \in 1 .. Len(items) : rest[a] = items[c]) \/ \E b \in 2 .. Len(s) : rest[a] = s[b]
      <4> SUFFICES ASSUME NEW a \in DOMAIN rest PROVE (\E c \in 1 .. Len(items) : rest[a] = items[c]) \/ \E b \in 2 .. Len(s) : rest[a] = s[b]
        OBVIOUS
      <4>1. CASE a \in 1 .. Len(items)
        BY <1>4, <4>1, Zenon
      <4>2. CASE \E b \in 2 .. Len(s) : a = Len(items) + b - 1
        BY <1>5, <4>2, Zenon
      <4> QED
        BY <2>1, <4>1, <4>2, Zenon
    <3>2. \A a \in 1 .. Len(items) : \E c \in DOMAIN rest : items[a] = rest[c]
      BY <1>4, <2>3, Zenon
    <3>3. \A b \in 2 .. Len(s) : \E c \in DOMAIN rest : s[b] = rest[c]
      BY <1>5, <2>2, Zenon
    <3> DEFINE Either(x) == (\E a \in 1 .. Len(items) : x = items[a]) \/ \E b \in 2 .. Len(s) : x = s[b]
    <3>4. ASSUME NEW x, x \in ToSet(rest) PROVE Either(x)
      <4>1. PICK a \in DOMAIN rest : x = rest[a]
        BY <2>4, <3>4, Zenon
      <4> QED
        BY <3>1, <4>1, Zenon
    <3>5. ASSUME NEW x, Either(x) PROVE x \in ToSet(rest)
      <4>1. \E c \in DOMAIN rest : x = rest[c]
        BY <3>2, <3>3, <3>5, Zenon
      <4> QED
        BY <2>4, <4>1, Zenon
    <3> HIDE DEF Either
    <3>6. \A x : x \in ToSet(rest) <=> Either(x)
      BY <3>4, <3>5, Zenon
    <3> QED
      BY <3>6, Zenon DEF Either
  <2> QED
    BY <2>5, <2>6, Zenon
<1>9. DOMAIN rest = 1 .. Len(items) + Len(s) - 1 /\ 1 \in DOMAIN s
  BY <1>1, <1>4
<1> QED
  BY <1>1, <1>4, <1>5, <1>6, <1>7, <1>8, <1>9, Zenon DEF Spliced

\* Replacing the first item keeps the invariant.
LEMMA Replacement ==
  ASSUME TypeInv, Sound, phase = "collect", todo # <<>>, NEW items, Replaces(items, Current), Replace(items), blobs' = blobs
  PROVE  TypeInv' /\ Sound'
<1> DEFINE rest == items \o Tail(todo)
           first == todo[1]
           Later == {todo[b] : b \in 2 .. Len(todo)}
<1>1. decoded' = decoded /\ run' = run /\ todo' = rest /\ parsed' = parsed /\ merged' = merged /\ phase' = phase
  BY DEF Replace
<1>2. /\ \A k : Dexes(k)' = Dexes(k) /\ Unreadables(k)' = Unreadables(k)
      /\ AllDexes' = AllDexes
      /\ Work' = Work /\ Blob' = Blob
      /\ \A i : Inside(i)' = Inside(i) /\ Faulty(i)' = Faulty(i)
      /\ \A id : Model(id)' = Model(id)
  BY <1>1, SameFiles
<1>3. todo \in Seq(Work) /\ blobs \in Seq(Blob)
  BY DEF TypeInv
<1>4. /\ items \in Seq(Work)
      /\ \A i \in ToSet(items) : i.from = first.from
      /\ \A id : Disk[id].kind = "dex" => (id \in Inside(first) <=> \E i \in ToSet(items) : id \in Inside(i))
      /\ Faulty(first) <=> \E i \in ToSet(items) : Faulty(i)
  BY Zenon DEF Replaces, Current
<1>5. /\ rest \in Seq(Work) /\ DOMAIN rest = 1 .. Len(items) + Len(todo) - 1
      /\ Len(items) \in Nat /\ Len(todo) \in Nat /\ DOMAIN todo = 1 .. Len(todo) /\ 1 \in DOMAIN todo
      /\ \A a \in 1 .. Len(items) : rest[a] = items[a] /\ items[a] \in ToSet(items)
      /\ \A b \in 2 .. Len(todo) : rest[Len(items) + b - 1] = todo[b]
      /\ ToSet(todo) = {first} \cup Later
      /\ ToSet(rest) = ToSet(items) \cup Later
  <2>1. items \in Seq(Work)
    BY <1>4
  <2> HIDE DEF rest
  <2>2. rest = items \o Tail(todo)
    BY DEF rest
  <2>3. rest \in Seq(Work) /\ Spliced(rest, items, todo)
    BY <1>3, <2>1, <2>2, HeadReplaced
  <2> QED
    BY <2>3, Zenon DEF Spliced, first, Later
<1> HIDE DEF rest, first, Later
<1>6. TypeInv'
  BY <1>1, <1>2, <1>3, <1>5 DEF TypeInv
<1>7. InOrder'
  <2>1. /\ \A a, b \in DOMAIN todo : a <= b => todo[a].from <= todo[b].from
        /\ \A a, b \in DOMAIN blobs : a <= b => blobs[a].from <= blobs[b].from
        /\ \A a \in DOMAIN blobs : \A b \in DOMAIN todo : blobs[a].from <= todo[b].from
    BY DEF Sound, InOrder
  <2>2. \A a \in DOMAIN rest : \/ a \in 1 .. Len(items) /\ rest[a].from = todo[1].from
                               \/ \E b \in 2 .. Len(todo) : a = Len(items) + b - 1 /\ rest[a] = todo[b]
    <3> SUFFICES ASSUME NEW a \in DOMAIN rest
                 PROVE  \/ a \in 1 .. Len(items) /\ rest[a].from = todo[1].from
                        \/ \E b \in 2 .. Len(todo) : a = Len(items) + b - 1 /\ rest[a] = todo[b]
      OBVIOUS
    <3>1. CASE a \in 1 .. Len(items)
      <4>1. rest[a] = items[a] /\ items[a] \in ToSet(items)
        BY <1>5, <3>1
      <4> QED
        BY <1>4, <3>1, <4>1 DEF first
    <3>2. CASE a \notin 1 .. Len(items)
      <4> DEFINE b == a - Len(items) + 1
      <4>1. b \in 2 .. Len(todo) /\ a = Len(items) + b - 1
        BY <1>5, <3>2
      <4> HIDE DEF b
      <4>2. rest[a] = todo[b]
        BY <1>5, <4>1
      <4> QED
        BY <4>1, <4>2
    <3> QED
      BY <3>1, <3>2
  <2>3. \A b \in 2 .. Len(todo) : b \in DOMAIN todo /\ 1 <= b
    BY <1>5
  <2>4. \A a, b \in DOMAIN rest : a <= b => rest[a].from <= rest[b].from
    <3> SUFFICES ASSUME NEW a \in DOMAIN rest, NEW b \in DOMAIN rest, a <= b PROVE rest[a].from <= rest[b].from
      OBVIOUS
    <3>1. CASE a \in 1 .. Len(items) /\ rest[a].from = todo[1].from
      <4>1. CASE b \in 1 .. Len(items) /\ rest[b].from = todo[1].from
        <5>1. todo[1].from <= todo[1].from
          <6>1. 1 \in DOMAIN todo /\ 1 <= 1
            BY <1>5
          <6> QED
            BY <2>1, <6>1, Zenon
        <5> QED
          BY <3>1, <4>1, <5>1
      <4>2. CASE \E c \in 2 .. Len(todo) : b = Len(items) + c - 1 /\ rest[b] = todo[c]
        <5>1. PICK c \in 2 .. Len(todo) : rest[b] = todo[c]
          BY <4>2, Zenon
        <5>2. c \in DOMAIN todo /\ 1 \in DOMAIN todo /\ 1 <= c
          BY <1>5, <2>3, <5>1
        <5>3. todo[1].from <= todo[c].from
          BY <2>1, <5>2
        <5> QED
          BY <3>1, <5>1, <5>3
      <4> QED
        BY <2>2, <4>1, <4>2
    <3>2. CASE \E c \in 2 .. Len(todo) : a = Len(items) + c - 1 /\ rest[a] = todo[c]
      <4>1. PICK c \in 2 .. Len(todo) : a = Len(items) + c - 1 /\ rest[a] = todo[c]
        BY <3>2
      <4>2. b \notin 1 .. Len(items)
        BY <1>5, <4>1
      <4>3. PICK e \in 2 .. Len(todo) : b = Len(items) + e - 1 /\ rest[b] = todo[e]
        BY <2>2, <4>2
      <4>4. c <= e
        BY <1>5, <4>1, <4>3
      <4> QED
        BY <2>1, <2>3, <4>1, <4>3, <4>4
    <3> QED
      BY <2>2, <3>1, <3>2
  <2>5. \A a \in DOMAIN blobs : \A b \in DOMAIN rest : blobs[a].from <= rest[b].from
    BY <1>5, <2>1, <2>2, <2>3
  <2> QED
    BY <1>1, <2>1, <2>4, <2>5 DEF InOrder
<1>8. NoneLost'
  <2> SUFFICES ASSUME NEW k \in DOMAIN run.given, NEW id
               PROVE  (id \in Dexes(k))' <=> \/ (\E b \in ToSet(blobs) : b.from = k /\ b.id = id)'
                                             \/ Disk[id].kind = "dex" /\ (\E i \in ToSet(todo) : i.from = k /\ id \in Inside(i))'
    <3>1. run' = run
      BY <1>1
    <3> QED
      BY <3>1, Zenon DEF NoneLost
  <2>1. id \in Dexes(k) <=> \/ \E b \in ToSet(blobs) : b.from = k /\ b.id = id
                            \/ Disk[id].kind = "dex" /\ \E i \in ToSet(todo) : i.from = k /\ id \in Inside(i)
    BY DEF Sound, NoneLost
  <2>2. Disk[id].kind = "dex" =>
          ((\E i \in ToSet(todo) : i.from = k /\ id \in Inside(i)) <=> \E i \in ToSet(rest) : i.from = k /\ id \in Inside(i))
    BY <1>4, <1>5, Zenon
  <2>3. (\E i \in ToSet(todo) : i.from = k /\ id \in Inside(i))' <=> \E i \in ToSet(rest) : i.from = k /\ id \in Inside(i)
    <3> HIDE DEF rest
    <3> QED
      BY <1>1, <1>2, Zenon
  <2>4. (id \in Dexes(k))' <=> id \in Dexes(k)
    BY <1>2, Zenon
  <2>5. (\E b \in ToSet(blobs) : b.from = k /\ b.id = id)' <=> \E b \in ToSet(blobs) : b.from = k /\ b.id = id
    BY <1>1, Zenon
  <2> QED
    BY <2>1, <2>2, <2>3, <2>4, <2>5
<1>9. NoneHidden'
  <2> SUFFICES ASSUME NEW k \in DOMAIN run.given
               PROVE  Unreadables(k)' # {} <=> \/ \E i \in ToSet(rest) : i.from = k /\ Faulty(i)'
                                               \/ \E b \in ToSet(blobs) : b.from = k /\ ~ Disk[b.id].ok
    BY <1>1, Zenon DEF NoneHidden
  <2>1. Unreadables(k) # {} <=> \/ \E i \in ToSet(todo) : i.from = k /\ Faulty(i)
                                \/ \E b \in ToSet(blobs) : b.from = k /\ ~ Disk[b.id].ok
    BY DEF Sound, NoneHidden
  <2>2. (\E i \in ToSet(todo) : i.from = k /\ Faulty(i)) <=> \E i \in ToSet(rest) : i.from = k /\ Faulty(i)
    BY <1>4, <1>5, Zenon
  <2> QED
    BY <1>2, <2>1, <2>2, Zenon
<1>10. ByPhase'
  BY <1>1, <1>2 DEF Sound, ByPhase
<1> QED
  BY <1>6, <1>7, <1>8, <1>9, <1>10 DEF Sound

\* A file that is read is a path or a member looked into.
LEMMA ReadAsBytes ==
  ASSUME TypeInv, todo # <<>>, AsBytes
  PROVE  /\ Current \in Work /\ Disk[Current.id].kind \notin {"dir", "missing"} /\ ~ (Current.path /\ IsApex(Current.id))
         /\ Current.depth <= MaxDepth => Current.path \/ Looked(Current)
         /\ ~ Current.path => (Looked(Current) <=> Current.depth <= MaxDepth)
<1>1. Current \in Work
  BY DEF TypeInv, Current
<1> QED
  BY <1>1 DEF AsBytes, Skipped, Looked

\* Finding a dex keeps the invariant.
LEMMA Taking ==
  ASSUME TypeInv, Sound, phase = "collect", todo # <<>>, TakeDex
  PROVE  TypeInv' /\ Sound'
<1> DEFINE rest == <<>> \o Tail(todo)
           first == todo[1]
           Later == {todo[b] : b \in 2 .. Len(todo)}
           blob == [id |-> first.id, from |-> first.from]
           more == Append(blobs, blob)
<1>1. decoded' = decoded /\ run' = run /\ todo' = rest /\ parsed' = parsed /\ merged' = merged /\ phase' = phase /\ blobs' = more
  BY DEF TakeDex, Replace, Current
<1>2. /\ \A k : Dexes(k)' = Dexes(k) /\ Unreadables(k)' = Unreadables(k)
      /\ AllDexes' = AllDexes
      /\ Work' = Work /\ Blob' = Blob
      /\ \A i : Inside(i)' = Inside(i) /\ Faulty(i)' = Faulty(i)
      /\ \A id : Model(id)' = Model(id)
  BY <1>1, SameFiles
<1>3. todo \in Seq(Work) /\ blobs \in Seq(Blob)
  BY DEF TypeInv
<1>4. /\ first \in Work /\ Disk[first.id].kind = "dex" /\ first.id \in File /\ first.from \in DOMAIN run.given
      /\ Inside(first) = {first.id}
      /\ Faulty(first) <=> ~ Disk[first.id].ok
  <2>1. /\ first \in Work /\ Disk[first.id].kind = "dex" /\ ~ (first.path /\ IsApex(first.id))
        /\ first.path \/ Looked(first)
    BY ReadAsBytes DEF TakeDex, Current
  <2>2. Disk[first.id].kind # "dir" /\ Disk[first.id].kind # "zip"
    BY <2>1
  <2>3. Inside(first) = {first.id} /\ Led(first) = IF first.path THEN {first.id} ELSE {}
    BY <2>1, <2>2, FileInside
  <2>4. \A id \in Led(first) : ~ BadPath(id)
    BY <2>1, <2>3 DEF BadPath
  <2>5. BadFile(first.id) <=> ~ Disk[first.id].ok
    BY <2>1 DEF BadFile
  <2>6. Faulty(first) <=> ~ Disk[first.id].ok
    BY <2>3, <2>4, <2>5 DEF Faulty
  <2>7. first.id \in File /\ first.from \in DOMAIN run.given
    BY <2>1 DEF Work
  <2> QED
    BY <2>1, <2>3, <2>6, <2>7
<1>5. /\ rest \in Seq(Work) /\ DOMAIN rest = 1 .. Len(todo) - 1
      /\ Len(todo) \in Nat /\ DOMAIN todo = 1 .. Len(todo) /\ 1 \in DOMAIN todo
      /\ \A a \in DOMAIN rest : a + 1 \in DOMAIN todo /\ rest[a] = todo[a + 1]
      /\ ToSet(todo) = {first} \cup Later
      /\ ToSet(rest) = Later
  <2> DEFINE none == <<>>
  <2>1. none \in Seq(Work) /\ Len(none) = 0 /\ ToSet(none) = {}
    BY DEF ToSet
  <2>2. rest = none \o Tail(todo)
    OBVIOUS
  <2> HIDE DEF rest, none
  <2>3. rest \in Seq(Work) /\ Spliced(rest, none, todo)
    BY <1>3, <2>1, <2>2, HeadReplaced
  <2>4. /\ DOMAIN rest = 1 .. 0 + Len(todo) - 1
        /\ Len(todo) \in Nat /\ DOMAIN todo = 1 .. Len(todo) /\ 1 \in DOMAIN todo
        /\ \A b \in 2 .. Len(todo) : rest[0 + b - 1] = todo[b]
        /\ ToSet(todo) = {first} \cup Later
        /\ ToSet(rest) = {} \cup Later
    BY <2>1, <2>3 DEF Spliced
  <2>5. ASSUME NEW a \in DOMAIN rest PROVE a + 1 \in DOMAIN todo /\ rest[a] = todo[a + 1]
    <3>1. a + 1 \in 2 .. Len(todo) /\ 0 + (a + 1) - 1 = a
      BY <2>4
    <3> QED
      BY <2>4, <3>1
  <2> HIDE DEF first, Later
  <2> QED
    BY <2>3, <2>4, <2>5
<1>6. /\ more \in Seq(Blob) /\ DOMAIN more = 1 .. Len(blobs) + 1 /\ DOMAIN blobs = 1 .. Len(blobs) /\ Len(blobs) \in Nat
      /\ \A a \in DOMAIN blobs : more[a] = blobs[a]
      /\ more[Len(blobs) + 1] = blob
      /\ ToSet(more) = ToSet(blobs) \cup {blob}
      /\ blob.id = first.id /\ blob.from = first.from /\ more # <<>>
  <2>1. blob \in Blob
    BY <1>4 DEF Blob
  <2>2. blob.id = first.id /\ blob.from = first.from
    OBVIOUS
  <2> HIDE DEF blob
  <2>3. /\ more \in Seq(Blob) /\ DOMAIN more = 1 .. Len(blobs) + 1 /\ DOMAIN blobs = 1 .. Len(blobs) /\ Len(blobs) \in Nat
        /\ \A a \in DOMAIN blobs : more[a] = blobs[a]
        /\ more[Len(blobs) + 1] = blob
    BY <1>3, <2>1
  <2> HIDE DEF more
  <2>4. ToSet(more) = ToSet(blobs) \cup {blob}
    BY <2>3 DEF ToSet
  <2>5. more # <<>>
    BY <2>3
  <2> QED
    BY <2>2, <2>3, <2>4, <2>5
<1> HIDE DEF rest, first, Later, blob, more
<1>7. TypeInv'
  BY <1>1, <1>2, <1>5, <1>6 DEF TypeInv
<1>8. InOrder'
  <2>1. /\ \A a, b \in DOMAIN todo : a <= b => todo[a].from <= todo[b].from
        /\ \A a, b \in DOMAIN blobs : a <= b => blobs[a].from <= blobs[b].from
        /\ \A a \in DOMAIN blobs : \A b \in DOMAIN todo : blobs[a].from <= todo[b].from
    BY DEF Sound, InOrder
  <2>2. \A a, b \in DOMAIN rest : a <= b => rest[a].from <= rest[b].from
    BY <1>5, <2>1
  <2>3. \A a \in DOMAIN more : \/ a \in DOMAIN blobs /\ more[a] = blobs[a]
                               \/ a = Len(blobs) + 1 /\ more[a].from = todo[1].from
    BY <1>6 DEF first
  <2>4. \A a \in DOMAIN more : \A b \in DOMAIN rest : more[a].from <= rest[b].from
    <3>1. \A b \in DOMAIN rest : 1 <= b + 1
      BY <1>5
    <3> QED
      BY <1>5, <2>1, <2>3, <3>1
  <2>5. \A a, b \in DOMAIN more : a <= b => more[a].from <= more[b].from
    <3>1. todo[1].from <= todo[1].from
      BY <1>5, <2>1
    <3> QED
      BY <1>5, <1>6, <2>1, <2>3, <3>1
  <2> QED
    BY <1>1, <2>2, <2>4, <2>5 DEF InOrder
<1>9. NoneLost'
  <2> SUFFICES ASSUME NEW k \in DOMAIN run.given, NEW id
               PROVE  (id \in Dexes(k))' <=> \/ (\E b \in ToSet(blobs) : b.from = k /\ b.id = id)'
                                             \/ Disk[id].kind = "dex" /\ (\E i \in ToSet(todo) : i.from = k /\ id \in Inside(i))'
    <3>1. run' = run
      BY <1>1
    <3> QED
      BY <3>1, Zenon DEF NoneLost
  <2>1. id \in Dexes(k) <=> \/ \E b \in ToSet(blobs) : b.from = k /\ b.id = id
                            \/ Disk[id].kind = "dex" /\ \E i \in ToSet(todo) : i.from = k /\ id \in Inside(i)
    BY DEF Sound, NoneLost
  <2>2. (\E b \in ToSet(more) : b.from = k /\ b.id = id) <=> (\E b \in ToSet(blobs) : b.from = k /\ b.id = id) \/ (first.from = k /\ id = first.id)
    BY <1>6
  <2>3. (\E i \in ToSet(todo) : i.from = k /\ id \in Inside(i)) <=> (first.from = k /\ id = first.id) \/ \E i \in ToSet(rest) : i.from = k /\ id \in Inside(i)
    BY <1>4, <1>5
  <2>4. Disk[first.id].kind = "dex"
    BY <1>4
  <2>5. (\E i \in ToSet(todo) : i.from = k /\ id \in Inside(i))' <=> \E i \in ToSet(rest) : i.from = k /\ id \in Inside(i)
    <3> HIDE DEF rest
    <3> QED
      BY <1>1, <1>2, Zenon
  <2>6. (id \in Dexes(k))' <=> id \in Dexes(k)
    BY <1>2, Zenon
  <2>7. (\E b \in ToSet(blobs) : b.from = k /\ b.id = id)' <=> \E b \in ToSet(more) : b.from = k /\ b.id = id
    <3> HIDE DEF more
    <3> QED
      BY <1>1, Zenon
  <2> QED
    BY <2>1, <2>2, <2>3, <2>4, <2>5, <2>6, <2>7
<1>10. NoneHidden'
  <2> SUFFICES ASSUME NEW k \in DOMAIN run.given
               PROVE  Unreadables(k)' # {} <=> \/ \E i \in ToSet(rest) : i.from = k /\ Faulty(i)'
                                               \/ \E b \in ToSet(more) : b.from = k /\ ~ Disk[b.id].ok
    BY <1>1, Zenon DEF NoneHidden
  <2>1. Unreadables(k) # {} <=> \/ \E i \in ToSet(todo) : i.from = k /\ Faulty(i)
                                \/ \E b \in ToSet(blobs) : b.from = k /\ ~ Disk[b.id].ok
    BY DEF Sound, NoneHidden
  <2>2. (\E i \in ToSet(todo) : i.from = k /\ Faulty(i)) <=> (first.from = k /\ ~ Disk[first.id].ok) \/ \E i \in ToSet(rest) : i.from = k /\ Faulty(i)
    BY <1>4, <1>5
  <2>3. (\E b \in ToSet(more) : b.from = k /\ ~ Disk[b.id].ok) <=> (first.from = k /\ ~ Disk[first.id].ok) \/ \E b \in ToSet(blobs) : b.from = k /\ ~ Disk[b.id].ok
    BY <1>6
  <2> QED
    BY <1>2, <2>1, <2>2, <2>3, Zenon
<1>11. ByPhase'
  <2>1. DOMAIN parsed = {}
    BY DEF Sound, ByPhase
  <2> QED
    BY <1>1, <2>1 DEF ByPhase
<1> QED
  BY <1>7, <1>8, <1>9, <1>10, <1>11 DEF Sound

\* A run that fails for a cause keeps the invariant.
LEMMA Failing ==
  ASSUME TypeInv, Sound, phase \in {"collect", "parse"}, Fail, AllDexes = {} \/ \E k \in DOMAIN run.given : Unreadables(k) # {}
  PROVE  TypeInv' /\ Sound'
<1>1. /\ decoded' = decoded /\ run' = run /\ todo' = todo /\ parsed' = parsed /\ merged' = merged /\ phase' = "failed" /\ blobs' = blobs
  BY DEF Fail
<1>2. /\ \A k : Dexes(k)' = Dexes(k) /\ Unreadables(k)' = Unreadables(k)
      /\ AllDexes' = AllDexes
      /\ Work' = Work /\ Blob' = Blob
      /\ \A i : Inside(i)' = Inside(i) /\ Faulty(i)' = Faulty(i)
      /\ \A id : Model(id)' = Model(id)
  BY <1>1, SameFiles
<1>3. TypeInv'
  BY <1>1, <1>2 DEF TypeInv
<1>4. InOrder'
  BY <1>1, Zenon DEF Sound, InOrder
<1>5. NoneLost'
  BY <1>1, LostStays DEF Sound
<1>6. NoneHidden'
  BY <1>1, <1>2, Zenon DEF Sound, NoneHidden
<1>7. ByPhase'
  BY <1>1, <1>2 DEF Sound, ByPhase
<1> QED
  BY <1>3, <1>4, <1>5, <1>6, <1>7 DEF Sound

\* An item that cannot be read lies within reach of its path.
LEMMA FaultIsCause ==
  ASSUME TypeInv, Sound, todo # <<>>, Faulty(Current)
  PROVE  \E k \in DOMAIN run.given : Unreadables(k) # {}
<1>1. Current \in Work /\ Current \in ToSet(todo)
  BY DEF TypeInv, Current, ToSet
<1>2. Current.from \in DOMAIN run.given
  BY <1>1 DEF Work
<1>3. Unreadables(Current.from) # {}
  BY <1>1, <1>2, Zenon DEF Sound, NoneHidden
<1> QED
  BY <1>2, <1>3

\* Every step of collecting keeps the invariant.
LEMMA Collecting ==
  ASSUME TypeInv, ImagesExact, Sound, Collect
  PROVE  TypeInv' /\ Sound'
<1>1. phase = "collect" /\ todo # <<>>
  BY DEF Collect
<1>2. Current \in Work /\ Current.id \in File
  BY <1>1 DEF TypeInv, Current, Work
<1>3. ASSUME Fail, Faulty(Current) PROVE TypeInv' /\ Sound'
  BY <1>1, <1>3, FaultIsCause, Failing
<1>4. ASSUME NEW items, Replaces(items, Current), Replace(items), blobs' = blobs PROVE TypeInv' /\ Sound'
  BY <1>1, <1>4, Replacement
<1>5. CASE Unreadable
  <2>1. Fail /\ Current.path /\ Disk[Current.id].kind = "missing"
    BY <1>5 DEF Unreadable
  <2>2. Led(Current) = {Current.id} /\ BadPath(Current.id)
    BY <2>1 DEF Led, BadPath
  <2>3. Faulty(Current)
    BY <2>2 DEF Faulty
  <2> QED
    BY <1>3, <2>1, <2>3
<1>6. CASE VisitDirectory
  <2> DEFINE listed == Listed(Current.id, Current.scope)
  <2>1. PICK order \in [1 .. Cardinality(listed) -> listed] : ToSet(order) = listed /\ Replace(Listings(Current, order))
    BY <1>6, Zenon DEF VisitDirectory, Listings
  <2>2. Current.path /\ Disk[Current.id].kind = "dir" /\ blobs' = blobs
    BY <1>6, Zenon DEF VisitDirectory
  <2>3. listed \subseteq File
    BY <1>2, FilesAreFiles
  <2>4. Cardinality(listed) \in Nat
    BY <2>3, FilesAssumption, FS_Subset, FS_CardinalityType
  <2>5. order \in [1 .. Cardinality(listed) -> File]
    <3> HIDE DEF listed
    <3> QED
      BY <2>3
  <2>6. Replaces(Listings(Current, order), Current)
    <3>1. PICK item : item = Current
      OBVIOUS
    <3>2. item \in Work /\ item.path /\ Disk[item.id].kind = "dir" /\ ToSet(order) = Listed(item.id, item.scope)
      BY <1>2, <2>1, <2>2, <3>1
    <3>3. Replaces(Listings(item, order), item)
      <4> DEFINE N == Cardinality(listed)
      <4>1. N \in Nat /\ order \in [1 .. N -> File]
        BY <2>4, <2>5
      <4> HIDE DEF N, listed
      <4> QED
        BY <3>2, <4>1, DirectoryReplaced
    <3> QED
      BY <3>1, <3>3, Zenon
  <2> QED
    BY <1>4, <2>1, <2>2, <2>6, Zenon
<1>7. ASSUME AnApex, ~ (Disk[Current.id].exotic /\ run.tool = "missing"), blobs' = blobs,
             Replace([k \in DOMAIN JarsOf(Seen(Current.id)) |-> Within(FileWith(JarsOf(Seen(Current.id))[k].bytes), 1)])
      PROVE  TypeInv' /\ Sound'
  <2>1. Current.path /\ IsApex(Current.id) /\ Disk[Current.id].kind \notin {"dir", "missing"}
    BY <1>7 DEF AnApex
  <2>2. PICK item : item = Current
    OBVIOUS
  <2>3. item \in Work /\ item.path /\ Disk[item.id].kind \notin {"dir", "missing"} /\ IsApex(item.id) /\ ~ (Disk[item.id].exotic /\ run.tool = "missing")
    BY <1>2, <1>7, <2>1, <2>2
  <2>4. Replaces(Jars(item), item)
    BY <2>3, ApexReplaced
  <2>5. Replaces(Jars(Current), Current)
    BY <2>2, <2>4, Zenon
  <2>6. Replace(Jars(Current))
    BY <1>7, Zenon DEF Jars, PartOf, Within
  <2> QED
    BY <1>4, <1>7, <2>5, <2>6, Zenon
<1>8. AnApex => JavalibJars(Current.id) = IF Disk[Current.id].exotic THEN {} ELSE {JarsOf(Disk[Current.id].shown)}
  BY <1>2 DEF ImagesExact, AnApex
<1>9. CASE UnpackApex
  <2>1. PICK jars \in JavalibJars(Current.id) : Replace([k \in DOMAIN jars |-> Within(FileWith(jars[k].bytes), 1)])
    BY <1>9 DEF UnpackApex
  <2>2. AnApex /\ blobs' = blobs
    BY <1>9 DEF UnpackApex
  <2>3. jars = JarsOf(Disk[Current.id].shown) /\ ~ Disk[Current.id].exotic
    BY <1>8, <2>2
  <2>5. run.tool # "forced"
    BY <1>9 DEF UnpackApex
  <2>6. Seen(Current.id) = Disk[Current.id].shown
    BY <2>3, <2>5 DEF Seen
  <2>4. Replace([k \in DOMAIN JarsOf(Seen(Current.id)) |-> Within(FileWith(JarsOf(Seen(Current.id))[k].bytes), 1)])
    BY <2>1, <2>3, <2>6, Zenon
  <2> QED
    BY <1>7, <2>2, <2>3, <2>4, Zenon
<1>10. CASE Deapex
  <2>1. AnApex /\ (run.tool = "forced" \/ Disk[Current.id].exotic)
    BY <1>8, <1>10 DEF Deapex
  <2>2. CASE run.tool = "missing"
    <3>1. Fail /\ Current.path /\ IsApex(Current.id) /\ Disk[Current.id].kind # "dir" /\ Disk[Current.id].exotic
      BY <1>10, <2>1, <2>2 DEF Deapex, AnApex
    <3>2. Led(Current) = {Current.id} /\ BadPath(Current.id)
      BY <2>2, <3>1 DEF Led, BadPath
    <3>3. Faulty(Current)
      BY <3>2 DEF Faulty
    <3> QED
      BY <1>3, <3>1, <3>3
  <2>3. CASE run.tool # "missing"
    <3>0. Deapexed(Current.id) = JarsOf(Seen(Current.id))
      BY <2>1 DEF Deapexed, Seen
    <3>1. Replace([k \in DOMAIN JarsOf(Seen(Current.id)) |-> Within(FileWith(JarsOf(Seen(Current.id))[k].bytes), 1)]) /\ blobs' = blobs
      BY <1>10, <2>3, <3>0, Zenon DEF Deapex
    <3> QED
      BY <1>7, <2>1, <2>3, <3>1, Zenon
  <2> QED
    BY <2>2, <2>3
<1>11. CASE TakeDex
  BY <1>1, <1>11, Taking
<1>12. CASE OpenArchive
  <2>1. /\ AsBytes /\ Current.depth <= MaxDepth /\ Disk[Current.id].kind # "dex"
        /\ Disk[Current.id].kind = "zip" \/ IsZipExt(Current.id)
    BY <1>12 DEF OpenArchive
  <2>2. /\ Disk[Current.id].kind # "dir" /\ ~ (Current.path /\ IsApex(Current.id))
        /\ Current.path \/ Looked(Current)
    BY <1>1, <2>1, ReadAsBytes
  <2>3. PICK item : item = Current
    OBVIOUS
  <2>4. /\ item \in Work /\ Disk[item.id].kind # "dir" /\ ~ (item.path /\ IsApex(item.id))
        /\ item.path \/ Looked(item)
    BY <1>2, <2>2, <2>3
  <2>5. CASE Disk[Current.id].kind # "zip" \/ ~ Disk[Current.id].ok
    <3>1. Fail
      BY <1>12, <2>5 DEF OpenArchive
    <3>2. BadFile(Current.id)
      BY <2>1, <2>5 DEF BadFile
    <3>3. item.id \in Inside(item)
      BY <2>4, FileInside
    <3>4. Faulty(Current)
      BY <2>3, <3>2, <3>3 DEF Faulty
    <3> QED
      BY <1>3, <3>1, <3>4
  <2>6. CASE Disk[Current.id].kind = "zip" /\ Disk[Current.id].ok
    <3>1. Replace([k \in DOMAIN Disk[Current.id].members |-> Within(Disk[Current.id].members[k], Current.depth + 1)]) /\ blobs' = blobs
      BY <1>12, <2>6, Zenon DEF OpenArchive, NextDepth
    <3>2. Replaces(Parts(item), item)
      BY <2>3, <2>4, <2>6, ArchiveReplaced
    <3>3. Replaces(Parts(Current), Current)
      BY <2>3, <3>2, Zenon
    <3>4. Replace(Parts(Current))
      BY <3>1, Zenon DEF Parts, PartOf, Within
    <3> QED
      BY <1>4, <3>1, <3>3, <3>4, Zenon
  <2> QED
    BY <2>5, <2>6
<1>13. CASE PassOver
  <2>1. Replace(<<>>) /\ blobs' = blobs
    BY <1>13 DEF PassOver
  <2>2. Replaces(<<>>, Current)
    <3>1. CASE Skipped \/ (AsBytes /\ Current.depth > MaxDepth)
      <4>1. ~ Current.path /\ ~ Looked(Current)
        <5>1. CASE Skipped
          BY <5>1 DEF Skipped, Looked
        <5>2. CASE AsBytes /\ Current.depth > MaxDepth
          BY <1>2, <5>2, MaxDepthAssumption DEF Work, Looked
        <5> QED
          BY <3>1, <5>1, <5>2
      <4>2. Inside(Current) = {} /\ Led(Current) = {}
        BY <4>1 DEF Inside, Led
      <4> QED
        BY <1>2, <4>2, NothingThere
    <3>2. CASE AsBytes /\ Current.depth <= MaxDepth /\ Disk[Current.id].kind \notin {"dex", "zip"} /\ ~ IsZipExt(Current.id)
      <4>1. /\ Disk[Current.id].kind \notin {"dir", "missing"} /\ ~ (Current.path /\ IsApex(Current.id))
            /\ Current.path \/ Looked(Current)
        BY <1>1, <3>2, ReadAsBytes
      <4>2. Inside(Current) = {Current.id} /\ Led(Current) = IF Current.path THEN {Current.id} ELSE {}
        BY <1>2, <3>2, <4>1, FileInside
      <4>3. Led(Current) = {} \/ (Led(Current) = {Current.id} /\ ~ BadPath(Current.id))
        BY <4>1, <4>2 DEF BadPath
      <4> QED
        BY <1>2, <3>2, <4>2, <4>3, NothingThere
    <3>3. Current.depth > MaxDepth \/ Current.depth <= MaxDepth
      BY <1>2, MaxDepthAssumption DEF Work
    <3> QED
      BY <1>13, <3>1, <3>2, <3>3 DEF PassOver
  <2> QED
    BY <1>4, <2>1, <2>2
<1> QED
  BY <1>5, <1>6, <1>9, <1>10, <1>11, <1>12, <1>13 DEF Collect
-----------------------------------------------------------------------------
(***************************************************************************)
(* The invariant of a run.                                                 *)
(***************************************************************************)

\* At the start the work left is the paths themselves.
LEMMA InputsInit == Init => InputsInv
<1> SUFFICES ASSUME Init PROVE InputsInv
  OBVIOUS
<1> DEFINE item(k) == [id |-> run.given[k], path |-> TRUE, scope |-> run.scope, depth |-> 0, from |-> k]
<1>1. run \in Runs /\ run.given \in Seq(File) /\ decoded = Decoded
  BY RunsAssumption DEF Init
<1>2. \A k \in DOMAIN run.given : item(k) \in Work
  <2>1. \A k \in DOMAIN run.given : run.given[k] \in File
    BY <1>1
  <2>2. run.scope \in Scopes
    BY <1>1 DEF Scopes
  <2> QED
    BY <2>1, <2>2 DEF Work
<1>3. \A k \in DOMAIN run.given : Led(item(k)) = OnDisk(k) /\ Inside(item(k)) = Reached(k) /\ item(k).from = k
  <2> SUFFICES ASSUME NEW k \in DOMAIN run.given PROVE Led(item(k)) = OnDisk(k) /\ Inside(item(k)) = Reached(k) /\ item(k).from = k
    OBVIOUS
  <2>1. Led(item(k)) = OnDisk(k)
    BY DEF Led, OnDisk
  <2>2. Inside(item(k)) = UNION {Reach(id) : id \in Led(item(k))}
    BY DEF Inside
  <2>3. Inside(item(k)) = Reached(k)
    BY <2>1, <2>2, Zenon DEF Reached, Reach
  <2> QED
    BY <2>1, <2>3
<1> HIDE DEF item
<1>4. /\ todo = [k \in DOMAIN run.given |-> item(k)] /\ blobs = <<>> /\ parsed = <<>>
      /\ phase = IF run.given = <<>> THEN "failed" ELSE "collect"
  BY DEF Init, item
<1>5. todo \in Seq(Work) /\ DOMAIN todo = DOMAIN run.given /\ DOMAIN run.given = 1 .. Len(run.given) /\ Len(run.given) \in Nat
  BY <1>1, <1>2, <1>4
<1>6. ToSet(todo) = {item(k) : k \in DOMAIN run.given}
  BY <1>4 DEF ToSet
<1>7. TypeInv
  BY <1>1, <1>4, <1>5 DEF TypeInv
<1>8. InOrder
  BY <1>3, <1>4, <1>5 DEF InOrder
<1>9. NoneLost
  <2> SUFFICES ASSUME NEW k \in DOMAIN run.given, NEW id
               PROVE  id \in Dexes(k) <=> \/ \E b \in ToSet(blobs) : b.from = k /\ b.id = id
                                          \/ Disk[id].kind = "dex" /\ \E i \in ToSet(todo) : i.from = k /\ id \in Inside(i)
    BY DEF NoneLost
  <2>1. ToSet(blobs) = {}
    BY <1>4 DEF ToSet
  <2>2. (\E i \in ToSet(todo) : i.from = k /\ id \in Inside(i)) <=> id \in Reached(k)
    BY <1>3, <1>6
  <2> QED
    BY <2>1, <2>2 DEF Dexes
<1>10. NoneHidden
  <2> SUFFICES ASSUME NEW k \in DOMAIN run.given
               PROVE  Unreadables(k) # {} <=> \/ \E i \in ToSet(todo) : i.from = k /\ Faulty(i)
                                              \/ \E b \in ToSet(blobs) : b.from = k /\ ~ Disk[b.id].ok
    BY DEF NoneHidden
  <2>1. ToSet(blobs) = {}
    BY <1>4 DEF ToSet
  <2>2. (\E i \in ToSet(todo) : i.from = k /\ Faulty(i)) <=> Faulty(item(k))
    BY <1>3, <1>6
  <2>3. Unreadables(k) # {} <=> (\E id \in OnDisk(k) : BadPath(id)) \/ (\E id \in Reached(k) : BadFile(id))
    BY DEF Unreadables, BadPath, BadFile
  <2>4. Faulty(item(k)) <=> (\E id \in OnDisk(k) : BadPath(id)) \/ (\E id \in Reached(k) : BadFile(id))
    BY <1>3, Zenon DEF Faulty
  <2> QED
    BY <2>1, <2>2, <2>3, <2>4
<1>11. ByPhase
  <2>1. DOMAIN parsed = {} /\ (phase = "collect" \/ phase = "failed")
    BY <1>4
  <2>2. phase = "failed" => AllDexes = {}
    BY <1>4, <1>5 DEF AllDexes
  <2> QED
    BY <2>1, <2>2 DEF ByPhase
<1> QED
  BY <1>7, <1>8, <1>9, <1>10, <1>11 DEF InputsInv, Sound

\* So does the end of collecting.
LEMMA CollectedKeeps ==
  ASSUME TypeInv, Sound, Collected
  PROVE  TypeInv' /\ Sound'
<1>1. /\ phase = "collect" /\ todo = <<>>
      /\ decoded' = decoded /\ run' = run /\ todo' = todo /\ parsed' = parsed /\ merged' = merged /\ blobs' = blobs
      /\ phase' = IF blobs = <<>> THEN "failed" ELSE "parse"
  BY DEF Collected
<1>2. /\ \A k : Dexes(k)' = Dexes(k) /\ Unreadables(k)' = Unreadables(k)
      /\ AllDexes' = AllDexes
      /\ Work' = Work /\ Blob' = Blob
      /\ \A i : Inside(i)' = Inside(i) /\ Faulty(i)' = Faulty(i)
      /\ \A id : Model(id)' = Model(id)
  BY <1>1, SameFiles
<1>3. TypeInv'
  BY <1>1, <1>2 DEF TypeInv
<1>4. InOrder'
  BY <1>1, Zenon DEF Sound, InOrder
<1>5. NoneLost'
  BY <1>1, LostStays DEF Sound
<1>6. NoneHidden'
  BY <1>1, <1>2, Zenon DEF Sound, NoneHidden
<1>7. ByPhase'
  <2>1. blobs = <<>> => AllDexes = {}
    <3> SUFFICES ASSUME blobs = <<>> PROVE AllDexes = {}
      OBVIOUS
    <3>1. ToSet(blobs) = {} /\ ToSet(todo) = {}
      BY <1>1 DEF ToSet
    <3>2. \A k \in DOMAIN run.given : Dexes(k) = {}
      BY <3>1 DEF Sound, NoneLost
    <3> QED
      BY <3>2, Zenon DEF AllDexes
  <2> QED
    BY <1>1, <1>2, <2>1 DEF Sound, ByPhase
<1> QED
  BY <1>3, <1>4, <1>5, <1>6, <1>7 DEF Sound

\* A blob that is decoded, or cannot be.
LEMMA ParseKeeps ==
  ASSUME TypeInv, Sound, NEW k \in DOMAIN blobs, Parse(k)
  PROVE  TypeInv' /\ Sound'
<1>1. phase = "parse" /\ k \notin DOMAIN parsed
  BY DEF Parse
<1>2. CASE ~ Disk[blobs[k].id].ok
  <2>1. Fail
    BY <1>2 DEF Parse
  <2>2. blobs[k] \in ToSet(blobs) /\ blobs[k].from \in DOMAIN run.given
    <3>1. blobs \in Seq(Blob)
      BY DEF TypeInv
    <3>2. blobs[k] \in Blob
      BY <3>1
    <3> QED
      BY <3>2 DEF ToSet, Blob
  <2>3. Unreadables(blobs[k].from) # {}
    BY <1>2, <2>2, Zenon DEF Sound, NoneHidden
  <2>4. \E j \in DOMAIN run.given : Unreadables(j) # {}
    BY <2>2, <2>3
  <2> QED
    BY <1>1, <2>1, <2>4, Failing
<1>3. CASE Disk[blobs[k].id].ok
  <2> DEFINE more == [j \in DOMAIN parsed \cup {k} |-> IF j = k THEN Model(blobs[k].id) ELSE parsed[j]]
  <2>1. /\ decoded' = decoded /\ run' = run /\ todo' = todo /\ merged' = merged /\ blobs' = blobs
        /\ phase' = phase /\ parsed' = more
    BY <1>3 DEF Parse
  <2>2. /\ \A j : Dexes(j)' = Dexes(j) /\ Unreadables(j)' = Unreadables(j)
        /\ AllDexes' = AllDexes
        /\ Work' = Work /\ Blob' = Blob
        /\ \A i : Inside(i)' = Inside(i) /\ Faulty(i)' = Faulty(i)
        /\ \A id : Model(id)' = Model(id)
    BY <2>1, SameFiles
  <2>3. /\ DOMAIN parsed \subseteq DOMAIN blobs /\ todo = <<>> /\ blobs # <<>>
        /\ \A j \in DOMAIN parsed : parsed[j] = Model(blobs[j].id) /\ Disk[blobs[j].id].ok
    BY <1>1 DEF Sound, ByPhase
  <2>4. DOMAIN more = DOMAIN parsed \cup {k} /\ \A j \in DOMAIN more : more[j] = Model(blobs[j].id) /\ Disk[blobs[j].id].ok
    BY <1>3, <2>3
  <2> HIDE DEF more
  <2>5. TypeInv'
    BY <2>1, <2>2 DEF TypeInv
  <2>6. InOrder'
    BY <2>1, Zenon DEF Sound, InOrder
  <2>7. NoneLost'
    BY <2>1, LostStays DEF Sound
  <2>8. NoneHidden'
    BY <2>1, <2>2, Zenon DEF Sound, NoneHidden
  <2>9. ByPhase'
    BY <1>1, <2>1, <2>2, <2>3, <2>4 DEF ByPhase
  <2> QED
    BY <2>5, <2>6, <2>7, <2>8, <2>9 DEF Sound
<1> QED
  BY <1>2, <1>3

\* The merge changes nothing of what was found.
LEMMA MergeKeeps ==
  ASSUME TypeInv, Sound, Merge
  PROVE  TypeInv' /\ Sound'
<1> DEFINE all == FlattenSeq([k \in DOMAIN blobs |-> parsed[k].classes])
<1>1. /\ phase = "parse" /\ DOMAIN parsed = DOMAIN blobs
      /\ decoded' = decoded /\ run' = run /\ todo' = todo /\ parsed' = parsed /\ blobs' = blobs
      /\ phase' = "done"
      /\ merged' = [classes |-> FirstCopies(all), flagged |-> UNION {parsed[k].flagged : k \in DOMAIN blobs}]
  BY DEF Merge
<1>2. /\ \A k : Dexes(k)' = Dexes(k) /\ Unreadables(k)' = Unreadables(k)
      /\ AllDexes' = AllDexes
      /\ Work' = Work /\ Blob' = Blob
      /\ \A i : Inside(i)' = Inside(i) /\ Faulty(i)' = Faulty(i)
      /\ \A id : Model(id)' = Model(id)
  BY <1>1, SameFiles
<1>3. TypeInv'
  BY <1>1, <1>2 DEF TypeInv
<1>4. InOrder'
  BY <1>1, Zenon DEF Sound, InOrder
<1>5. NoneLost'
  BY <1>1, LostStays DEF Sound
<1>6. NoneHidden'
  BY <1>1, <1>2, Zenon DEF Sound, NoneHidden
<1>7. ByPhase'
  <2>1. /\ todo = <<>> /\ blobs # <<>>
        /\ \A k \in DOMAIN parsed : parsed[k] = Model(blobs[k].id) /\ Disk[blobs[k].id].ok
    BY <1>1 DEF Sound, ByPhase
  <2> QED
    BY <1>1, <1>2, <2>1 DEF ByPhase, all
<1> QED
  BY <1>3, <1>4, <1>5, <1>6, <1>7 DEF Sound

\* Every step of a run keeps the invariant.
LEMMA InputsNext == InputsInv /\ [Next \/ Stopped]_vars => InputsInv'
<1> SUFFICES ASSUME InputsInv, [Next \/ Stopped]_vars PROVE InputsInv'
  OBVIOUS
<1>1. ImagesExact => TypeInv /\ Sound
  BY DEF InputsInv
<1>2. decoded' = decoded /\ run' = run
  <2>1. ASSUME Fail PROVE decoded' = decoded /\ run' = run
    BY <2>1 DEF Fail
  <2>2. ASSUME NEW items, Replace(items) PROVE decoded' = decoded /\ run' = run
    BY <2>2 DEF Replace
  <2>3. CASE Collect
    <3>1. CASE Unreadable
      BY <2>1, <3>1 DEF Unreadable
    <3>2. CASE VisitDirectory
      BY <2>2, <3>2, Zenon DEF VisitDirectory
    <3>3. CASE UnpackApex
      BY <2>2, <3>3, Zenon DEF UnpackApex
    <3>4. CASE Deapex
      BY <2>1, <2>2, <3>4, Zenon DEF Deapex
    <3>5. CASE TakeDex
      BY <2>2, <3>5, Zenon DEF TakeDex
    <3>6. CASE OpenArchive
      BY <2>1, <2>2, <3>6, Zenon DEF OpenArchive
    <3>7. CASE PassOver
      BY <2>2, <3>7, Zenon DEF PassOver
    <3> QED
      BY <2>3, <3>1, <3>2, <3>3, <3>4, <3>5, <3>6, <3>7 DEF Collect
  <2>4. CASE Collected
    BY <2>4 DEF Collected
  <2>5. ASSUME NEW k \in DOMAIN blobs, Parse(k) PROVE decoded' = decoded /\ run' = run
    BY <2>1, <2>5 DEF Parse
  <2>6. CASE Merge
    BY <2>6 DEF Merge
  <2>7. CASE Stopped \/ UNCHANGED vars
    BY <2>7 DEF Stopped, vars
  <2> QED
    BY <2>3, <2>4, <2>5, <2>6, <2>7 DEF Next
<1>3. ImagesExact' = ImagesExact
  BY <1>2, SameFiles
<1> SUFFICES ASSUME ImagesExact, TypeInv, Sound PROVE TypeInv' /\ Sound'
  BY <1>1, <1>3 DEF InputsInv
<1>4. CASE Collect
  BY <1>4, Collecting
<1>5. CASE Collected
  BY <1>5, CollectedKeeps
<1>6. ASSUME NEW k \in DOMAIN blobs, Parse(k) PROVE TypeInv' /\ Sound'
  BY <1>6, ParseKeeps
<1>7. CASE Merge
  BY <1>7, MergeKeeps
<1>8. CASE Stopped \/ UNCHANGED vars
  <2>1. /\ decoded' = decoded /\ run' = run /\ todo' = todo /\ parsed' = parsed /\ blobs' = blobs
        /\ phase' = phase /\ merged' = merged
    BY <1>8 DEF Stopped, vars
  <2>2. /\ \A k : Dexes(k)' = Dexes(k) /\ Unreadables(k)' = Unreadables(k)
        /\ AllDexes' = AllDexes
        /\ Work' = Work /\ Blob' = Blob
        /\ \A i : Inside(i)' = Inside(i) /\ Faulty(i)' = Faulty(i)
        /\ \A id : Model(id)' = Model(id)
    BY <2>1, SameFiles
  <2>3. TypeInv'
    BY <2>1, <2>2 DEF TypeInv
  <2>4. InOrder'
    BY <2>1, Zenon DEF Sound, InOrder
  <2>5. NoneLost'
    BY <2>1, LostStays DEF Sound
  <2>6. NoneHidden'
    BY <2>1, <2>2, Zenon DEF Sound, NoneHidden
  <2>7. ByPhase'
    BY <2>1, <2>2, Zenon DEF Sound, ByPhase
  <2> QED
    BY <2>3, <2>4, <2>5, <2>6, <2>7 DEF Sound
<1> QED
  BY <1>4, <1>5, <1>6, <1>7, <1>8 DEF Next

\* A run fails if and only if a path, an archive, a dex or an image within
\* reach cannot be read, or there is no dex at all, whatever the files, if the
\* native readers take the jars its directory shows out of every image but those
\* only the tool reads.  What cannot be listed is not within reach.
THEOREM RunsFailForCause == Spec => [](ImagesExact => FailsForCause)
<1>1. InputsInv => (ImagesExact => FailsForCause)
  <2> SUFFICES ASSUME TypeInv, Sound, phase \in {"done", "failed"}
               PROVE  phase = "failed" <=> (AllDexes = {} \/ \E k \in DOMAIN run.given : Unreadables(k) # {})
    BY DEF InputsInv, FailsForCause
  <2>1. CASE phase = "failed"
    BY <2>1 DEF Sound, ByPhase
  <2>2. CASE phase = "done"
    <3>1. /\ todo = <<>> /\ blobs # <<>> /\ DOMAIN parsed = DOMAIN blobs
          /\ \A k \in DOMAIN parsed : Disk[blobs[k].id].ok
      BY <2>2 DEF Sound, ByPhase
    <3>2. ToSet(todo) = {}
      BY <3>1 DEF ToSet
    <3>3. blobs \in Seq(Blob)
      BY DEF TypeInv
    <3>4. 1 \in DOMAIN blobs /\ blobs[1] \in Blob /\ blobs[1] \in ToSet(blobs)
      BY <3>1, <3>3 DEF ToSet
    <3>5. blobs[1].from \in DOMAIN run.given
      BY <3>4 DEF Blob
    <3>6. blobs[1].id \in Dexes(blobs[1].from)
      BY <3>4, <3>5 DEF Sound, NoneLost
    <3>7. AllDexes # {}
      BY <3>5, <3>6 DEF AllDexes
    <3>8. \A b \in ToSet(blobs) : Disk[b.id].ok
      BY <3>1 DEF ToSet
    <3>9. \A k \in DOMAIN run.given : Unreadables(k) = {}
      BY <3>2, <3>8, Zenon DEF Sound, NoneHidden
    <3> QED
      BY <2>2, <3>7, <3>9
  <2> QED
    BY <2>1, <2>2
<1> QED
  BY <1>1, InputsInit, InputsNext, PTL DEF Spec
-----------------------------------------------------------------------------
(***************************************************************************)
(* The classes of a run.                                                   *)
(***************************************************************************)

\* What a dex says is a sequence of its classes.
LEMMA SaidOfAll ==
  ASSUME NEW dex, NEW N \in Nat, DOMAIN dex = 1 .. N, Len(dex) = N, \A s \in ToSet(dex) : IsSeq(s.classes), NEW text
  PROVE  /\ IsSeq(Source!Said(dex, text).classes)
         /\ {c.descriptor : c \in ToSet(Source!Said(dex, text).classes)} = UNION {{c.type : c \in ToSet(s.classes)} : s \in ToSet(dex)}
<1> DEFINE seqs == [k \in 1 .. Len(dex) |-> dex[k].classes]
           S == UNION {ToSet(s.classes) : s \in ToSet(dex)}
           flat == FlattenSeq(seqs)
           Say(c) == Source!ClassSaid(c, text)
           said == [k \in 1 .. Len(flat) |-> Say(flat[k])]
<1>1. \A k \in 1 .. N : dex[k] \in ToSet(dex) /\ seqs[k] = dex[k].classes
  BY DEF ToSet
<1>2. \A s \in ToSet(dex) : \E k \in 1 .. N : s = dex[k]
  BY DEF ToSet
<1>3. \A k \in 1 .. N : seqs[k] \in Seq(S)
  <2> SUFFICES ASSUME NEW k \in 1 .. N PROVE seqs[k] \in Seq(S)
    OBVIOUS
  <2>1. dex[k].classes \in Seq(ToSet(dex[k].classes))
    BY <1>1 DEF IsSeq
  <2>2. ToSet(dex[k].classes) \subseteq S
    BY <1>1
  <2> QED
    BY <1>1, <2>1, <2>2
<1>4. Len(seqs) = N /\ (N = 0 => seqs = <<>>)
  OBVIOUS
<1> HIDE DEF seqs, S
<1>5. flat \in Seq(S) /\ \E org : FromIn(org, flat, seqs, N)
  BY <1>3, <1>4, Flattened
<1> HIDE DEF flat
<1>6. PICK org : FromIn(org, flat, seqs, N)
  BY <1>5
<1>7. \A p \in 1 .. Len(flat) : org[p] \in 1 .. N /\ flat[p] \in ToSet(seqs[org[p]])
  BY <1>6 DEF FromIn
<1>8. \A k \in 1 .. N : \A x \in ToSet(seqs[k]) : \E p \in 1 .. Len(flat) : flat[p] = x
  BY <1>6 DEF FromIn
<1>9. \A c : Say(c).descriptor = c.type
  BY DEF Source!ClassSaid
<1>10. Source!Said(dex, text).classes = said
  <2>1. Source!FlattenSeq(seqs) = flat
    BY DEF Source!FlattenSeq, FlattenSeq, flat
  <2>2. Source!Said(dex, text).classes = [k \in 1 .. Len(Source!FlattenSeq(seqs)) |-> Source!ClassSaid(Source!FlattenSeq(seqs)[k], text)]
    BY DEF Source!Said, seqs
  <2> QED
    BY <2>1, <2>2, Zenon
<1> HIDE DEF Say
<1>11. IsSeq(said)
  <2>1. Len(flat) \in Nat
    BY <1>5
  <2>2. said \in Seq({said[k] : k \in 1 .. Len(flat)})
    BY <2>1
  <2>3. DOMAIN said = 1 .. Len(flat)
    OBVIOUS
  <2> HIDE DEF said
  <2> QED
    BY <2>2, <2>3, Zenon DEF IsSeq, ToSet
<1>12. ToSet(said) = {Say(flat[p]) : p \in 1 .. Len(flat)}
  BY DEF ToSet
<1> HIDE DEF said
<1>13. \A d : d \in {c.descriptor : c \in ToSet(said)} <=> \E p \in 1 .. Len(flat) : d = flat[p].type
  BY <1>9, <1>12
<1>14. \A d : d \in UNION {{c.type : c \in ToSet(s.classes)} : s \in ToSet(dex)} <=> \E k \in 1 .. N : \E c \in ToSet(seqs[k]) : d = c.type
  BY <1>1, <1>2
<1>15. {c.descriptor : c \in ToSet(said)} = UNION {{c.type : c \in ToSet(s.classes)} : s \in ToSet(dex)}
  <2>1. \A d : (\E p \in 1 .. Len(flat) : d = flat[p].type) => \E k \in 1 .. N : \E c \in ToSet(seqs[k]) : d = c.type
    BY <1>7, Zenon
  <2>2. ASSUME NEW k \in 1 .. N, NEW c \in ToSet(seqs[k]) PROVE \E p \in 1 .. Len(flat) : c.type = flat[p].type
    <3>1. PICK p \in 1 .. Len(flat) : flat[p] = c
      BY <1>8
    <3> QED
      BY <3>1
  <2>3. \A d : (\E k \in 1 .. N : \E c \in ToSet(seqs[k]) : d = c.type) => \E p \in 1 .. Len(flat) : d = flat[p].type
    BY <2>2, Zenon
  <2>4. \A d : d \in {c.descriptor : c \in ToSet(said)} <=> d \in UNION {{c.type : c \in ToSet(s.classes)} : s \in ToSet(dex)}
    BY <1>13, <1>14, <2>1, <2>3, Zenon
  <2> QED
    BY <2>4, Zenon
<1> QED
  BY <1>10, <1>11, <1>15, Zenon

\* What the dex of a file says has a class for every descriptor in it, and no other.
LEMMA SayingOfAll ==
  ASSUME decoded = Decoded, run.text \in BOOLEAN, NEW id \in File, IsDex(id)
  PROVE  IsSeq(Saying(id).classes) /\ {c.descriptor : c \in ToSet(Saying(id).classes)} = Descriptors(id)
<1> DEFINE dex == Disk[id].dex
<1>1. Saying(id) = Source!Said(dex, run.text)
  <2>1. decoded.said = [f \in File |-> [textual \in BOOLEAN |-> IF IsDex(f) THEN Source!Said(Disk[f].dex, textual) ELSE Nothing]]
    BY DEF Decoded
  <2>2. decoded.said[id] = [textual \in BOOLEAN |-> IF IsDex(id) THEN Source!Said(Disk[id].dex, textual) ELSE Nothing]
    BY <2>1, Zenon
  <2>3. Saying(id) = IF IsDex(id) THEN Source!Said(Disk[id].dex, run.text) ELSE Nothing
    BY <2>2, Zenon DEF Saying
  <2> QED
    BY <2>3
<1>2. IsSeq(dex) /\ \A s \in ToSet(dex) : IsSeq(s.classes)
  BY FilesAssumption, Zenon
<1>3. Descriptors(id) = UNION {{c.type : c \in ToSet(s.classes)} : s \in ToSet(dex)}
  BY DEF Descriptors
<1> HIDE DEF dex
<1>4. Len(dex) \in Nat /\ DOMAIN dex = 1 .. Len(dex)
  BY <1>2 DEF IsSeq
<1>5. \A text : /\ IsSeq(Source!Said(dex, text).classes)
                /\ {c.descriptor : c \in ToSet(Source!Said(dex, text).classes)} = UNION {{c.type : c \in ToSet(s.classes)} : s \in ToSet(dex)}
  BY <1>2, <1>4, SaidOfAll
<1> QED
  BY <1>1, <1>3, <1>5

\* What is merged: the classes of the blobs one after another, each a dex of a path.
LEMMA BlobsAreAll ==
  ASSUME TypeInv, Sound, phase = "done", ImagesExact, FrontEndsExact
  PROVE  \A k \in DOMAIN blobs : /\ blobs[k].from \in DOMAIN run.given /\ blobs[k].id \in Dexes(blobs[k].from)
                                 /\ parsed[k] = Saying(blobs[k].id)
                                 /\ IsSeq(parsed[k].classes)
                                 /\ {c.descriptor : c \in ToSet(parsed[k].classes)} = Descriptors(blobs[k].id)
<1> SUFFICES ASSUME NEW k \in DOMAIN blobs
             PROVE  /\ blobs[k].from \in DOMAIN run.given /\ blobs[k].id \in Dexes(blobs[k].from)
                    /\ parsed[k] = Saying(blobs[k].id)
                    /\ IsSeq(parsed[k].classes)
                    /\ {c.descriptor : c \in ToSet(parsed[k].classes)} = Descriptors(blobs[k].id)
  OBVIOUS
<1> DEFINE id == blobs[k].id
<1>1. blobs \in Seq(Blob) /\ decoded = Decoded /\ run \in Runs
  BY DEF TypeInv
<1>2. blobs[k] \in Blob /\ blobs[k] \in ToSet(blobs)
  BY <1>1 DEF ToSet
<1>3. id \in File /\ Disk[id].kind = "dex" /\ blobs[k].from \in DOMAIN run.given
  BY <1>2 DEF Blob
<1>4. id \in Dexes(blobs[k].from)
  <2>1. \E b \in ToSet(blobs) : b.from = blobs[k].from /\ b.id = id
    BY <1>2
  <2> HIDE DEF id
  <2> QED
    BY <2>1, <1>3, Zenon DEF Sound, NoneLost
<1>5. DOMAIN parsed = DOMAIN blobs /\ parsed[k] = Model(id) /\ Disk[id].ok
  BY DEF Sound, ByPhase
<1>6. IsDex(id)
  BY <1>3, <1>5 DEF IsDex
<1>7. run.text \in BOOLEAN
  BY <1>1, RunsAssumption
<1>8. decoded.native[id] = decoded.said[id][FALSE] /\ decoded.text[id] = decoded.said[id][TRUE]
  BY <1>3, <1>6 DEF FrontEndsExact
<1>9. parsed[k] = Saying(id)
  BY <1>5, <1>7, <1>8 DEF Model, Saying
<1>10. IsSeq(Saying(id).classes) /\ {c.descriptor : c \in ToSet(Saying(id).classes)} = Descriptors(id)
  <2> HIDE DEF id
  <2> QED
    BY <1>1, <1>3, <1>6, <1>7, SayingOfAll
<1> QED
  BY <1>3, <1>4, <1>9, <1>10

\* At the end every dex of a path is a blob of it.
LEMMA DexesAreBlobs ==
  ASSUME TypeInv, Sound, phase = "done", NEW h \in DOMAIN run.given, NEW id \in Dexes(h)
  PROVE  \E k \in DOMAIN blobs : blobs[k].id = id /\ blobs[k].from = h
<1>1. ToSet(todo) = {}
  BY DEF Sound, ByPhase, ToSet
<1>2. PICK b \in ToSet(blobs) : b.from = h /\ b.id = id
  BY <1>1 DEF Sound, NoneLost
<1> QED
  BY <1>2 DEF ToSet

\* Which place a class of a run comes from.
LEMMA ClassesPlaced ==
  ASSUME TypeInv, Sound, phase = "done", ImagesExact, FrontEndsExact
  PROVE  \E C, all, org :
           /\ all \in Seq(C) /\ merged.classes = FirstCopies(all)
           /\ org \in [1 .. Len(all) -> DOMAIN blobs]
           /\ \A p \in 1 .. Len(all) : all[p] \in ToSet(parsed[org[p]].classes)
           /\ \A k \in DOMAIN blobs : \A x \in ToSet(parsed[k].classes) : \E p \in 1 .. Len(all) : org[p] = k /\ all[p] = x
           /\ \A p, q \in 1 .. Len(all) : p <= q => org[p] <= org[q]
<1> DEFINE seqs == [k \in DOMAIN blobs |-> parsed[k].classes]
           C == UNION {ToSet(parsed[k].classes) : k \in DOMAIN blobs}
           all == FlattenSeq(seqs)
           N == Len(blobs)
<1>1. N \in Nat /\ DOMAIN blobs = 1 .. N
  BY DEF TypeInv
<1>2. merged.classes = FirstCopies(all)
  BY DEF Sound, ByPhase
<1>3. \A k \in 1 .. N : IsSeq(parsed[k].classes)
  BY <1>1, BlobsAreAll
<1>4. \A k \in 1 .. N : seqs[k] = parsed[k].classes
  BY <1>1
<1>5. \A k \in 1 .. N : ToSet(parsed[k].classes) \subseteq C
  BY <1>1
<1>6. Len(seqs) = N /\ (N = 0 => seqs = <<>>)
  BY <1>1
<1> HIDE DEF seqs, C, N
<1>7. \A k \in 1 .. N : seqs[k] \in Seq(C)
  <2> SUFFICES ASSUME NEW k \in 1 .. N PROVE seqs[k] \in Seq(C)
    OBVIOUS
  <2>1. parsed[k].classes \in Seq(ToSet(parsed[k].classes)) /\ ToSet(parsed[k].classes) \subseteq C
    BY <1>3, <1>5 DEF IsSeq
  <2> QED
    BY <1>4, <2>1
<1>8. all \in Seq(C) /\ \E org : FromIn(org, all, seqs, N)
  BY <1>1, <1>6, <1>7, Flattened
<1> HIDE DEF all
<1>9. PICK org : FromIn(org, all, seqs, N)
  BY <1>8
<1>10. /\ org \in [1 .. Len(all) -> DOMAIN blobs]
       /\ \A p \in 1 .. Len(all) : all[p] \in ToSet(parsed[org[p]].classes)
       /\ \A k \in DOMAIN blobs : \A x \in ToSet(parsed[k].classes) : \E p \in 1 .. Len(all) : org[p] = k /\ all[p] = x
       /\ \A p, q \in 1 .. Len(all) : p <= q => org[p] <= org[q]
  <2>1. /\ org \in [1 .. Len(all) -> 1 .. N]
        /\ \A p \in 1 .. Len(all) : all[p] \in ToSet(seqs[org[p]])
        /\ \A p, q \in 1 .. Len(all) : p <= q => org[p] <= org[q]
    BY <1>9, Zenon DEF FromIn
  <2>2. \A k \in 1 .. N : \A x \in ToSet(seqs[k]) : \E p \in 1 .. Len(all) : org[p] = k /\ all[p] = x
    BY <1>9, Zenon DEF FromIn
  <2>3. ASSUME NEW p \in 1 .. Len(all) PROVE all[p] \in ToSet(parsed[org[p]].classes)
    <3>1. org[p] \in 1 .. N
      BY <2>1
    <3> QED
      BY <1>4, <2>1, <3>1
  <2>4. ASSUME NEW k \in 1 .. N, NEW x \in ToSet(parsed[k].classes) PROVE \E p \in 1 .. Len(all) : org[p] = k /\ all[p] = x
    <3>1. x \in ToSet(seqs[k])
      BY <1>4
    <3> QED
      BY <2>2, <3>1, Zenon
  <2> QED
    BY <1>1, <2>1, <2>3, <2>4
<1> QED
  BY <1>2, <1>8, <1>10

\* A finished run has every class once, the first copy of each.
LEMMA ClassesOnce ==
  ASSUME TypeInv, Sound, phase = "done", ImagesExact, FrontEndsExact
  PROVE  EveryClassOnce
<1> DEFINE Placed(C, all, org) ==
      /\ all \in Seq(C) /\ merged.classes = FirstCopies(all)
      /\ org \in [1 .. Len(all) -> DOMAIN blobs]
      /\ \A p \in 1 .. Len(all) : all[p] \in ToSet(parsed[org[p]].classes)
      /\ \A k \in DOMAIN blobs : \A x \in ToSet(parsed[k].classes) : \E p \in 1 .. Len(all) : org[p] = k /\ all[p] = x
      /\ \A p, q \in 1 .. Len(all) : p <= q => org[p] <= org[q]
<1>1. \E C, all, org : Placed(C, all, org)
  BY ClassesPlaced
<1> HIDE DEF Placed
<1>2. PICK C, all, org : Placed(C, all, org)
  BY <1>1
<1>3. Placed(C, all, org)
  BY <1>2
<1> USE DEF Placed
<1>4. all \in Seq(C) /\ merged.classes = FirstCopies(all) /\ Len(all) \in Nat
  BY <1>3
<1>5. \A p \in 1 .. Len(all) : org[p] \in DOMAIN blobs /\ all[p] \in ToSet(parsed[org[p]].classes)
  BY <1>3
<1>6. \A k \in DOMAIN blobs : \A x \in ToSet(parsed[k].classes) : \E p \in 1 .. Len(all) : org[p] = k /\ all[p] = x
  BY <1>3
<1>7. \A p, q \in 1 .. Len(all) : p <= q => org[p] <= org[q]
  BY <1>3
<1> HIDE DEF Placed
<1> DEFINE m == merged.classes
<1>8. FirstsOf(m, all, Len(all))
  BY <1>4, FirstsKept
<1>9. /\ \A c \in ToSet(m) : \E p \in 1 .. Len(all) : c = all[p] /\ \A q \in 1 .. p - 1 : all[q].descriptor # c.descriptor
      /\ \A p \in 1 .. Len(all) : \E c \in ToSet(m) : c.descriptor = all[p].descriptor
      /\ \A a, b \in DOMAIN m : m[a].descriptor = m[b].descriptor => a = b
  BY <1>8 DEF FirstsOf
<1>10. \A k \in DOMAIN blobs : /\ blobs[k].from \in DOMAIN run.given /\ blobs[k].id \in Dexes(blobs[k].from)
                               /\ parsed[k] = Saying(blobs[k].id)
                               /\ {c.descriptor : c \in ToSet(parsed[k].classes)} = Descriptors(blobs[k].id)
  BY BlobsAreAll
<1>11. \A h \in DOMAIN run.given : \A id \in Dexes(h) : \E k \in DOMAIN blobs : blobs[k].id = id /\ blobs[k].from = h
  BY DexesAreBlobs
<1>12. /\ DOMAIN run.given \subseteq Nat /\ DOMAIN blobs \subseteq Nat
       /\ \A h \in DOMAIN run.given : 1 .. h - 1 \subseteq DOMAIN run.given
  BY RunsAssumption DEF TypeInv
<1>13. \A a, b \in DOMAIN blobs : a <= b => blobs[a].from <= blobs[b].from
  BY DEF Sound, InOrder
<1>14. \A k \in DOMAIN blobs : \A d : d \in Descriptors(blobs[k].id) <=> \E c \in ToSet(parsed[k].classes) : d = c.descriptor
  <2> SUFFICES ASSUME NEW k \in DOMAIN blobs, NEW d
               PROVE  d \in Descriptors(blobs[k].id) <=> \E c \in ToSet(parsed[k].classes) : d = c.descriptor
    OBVIOUS
  <2>1. Descriptors(blobs[k].id) = {c.descriptor : c \in ToSet(parsed[k].classes)}
    BY <1>10
  <2> QED
    BY <2>1, Zenon
<1>15. {c.descriptor : c \in ToSet(m)} = UNION {Descriptors(id) : id \in AllDexes}
  <2>1. ASSUME NEW c \in ToSet(m) PROVE \E id \in AllDexes : c.descriptor \in Descriptors(id)
    <3>1. PICK p \in 1 .. Len(all) : c = all[p]
      BY <1>9
    <3>2. c.descriptor \in Descriptors(blobs[org[p]].id)
      BY <1>5, <1>14, <3>1
    <3>3. blobs[org[p]].id \in AllDexes
      BY <1>5, <1>10 DEF AllDexes
    <3> QED
      BY <3>2, <3>3
  <2>2. ASSUME NEW id \in AllDexes, NEW d \in Descriptors(id) PROVE \E c \in ToSet(m) : d = c.descriptor
    <3>1. PICK h \in DOMAIN run.given : id \in Dexes(h)
      BY DEF AllDexes
    <3>2. PICK k \in DOMAIN blobs : blobs[k].id = id
      BY <1>11, <3>1
    <3>3. PICK x \in ToSet(parsed[k].classes) : d = x.descriptor
      BY <1>14, <3>2
    <3>4. PICK p \in 1 .. Len(all) : all[p] = x
      BY <1>6
    <3> QED
      BY <1>9, <3>3, <3>4
  <2> QED
    BY <2>1, <2>2
<1>16. ASSUME NEW c \in ToSet(m)
       PROVE  LET k == CHOOSE j \in DOMAIN run.given :
                         /\ \E id \in Dexes(j) : c.descriptor \in Descriptors(id)
                         /\ \A h \in 1 .. j - 1 : \A id \in Dexes(h) : c.descriptor \notin Descriptors(id)
              IN  \E id \in Dexes(k) : c \in ToSet(Saying(id).classes)
  <2> DEFINE Has(j) == \E id \in Dexes(j) : c.descriptor \in Descriptors(id)
             Hasnt(j) == \A id \in Dexes(j) : c.descriptor \notin Descriptors(id)
             First(j) == Has(j) /\ \A h \in 1 .. j - 1 : Hasnt(h)
  <2>1. PICK p \in 1 .. Len(all) : c = all[p] /\ \A q \in 1 .. p - 1 : all[q].descriptor # c.descriptor
    BY <1>9
  <2> DEFINE b == blobs[org[p]]
  <2>2. /\ org[p] \in DOMAIN blobs /\ b.from \in DOMAIN run.given /\ b.id \in Dexes(b.from)
        /\ c \in ToSet(Saying(b.id).classes) /\ c.descriptor \in Descriptors(b.id)
    BY <1>5, <1>10, <1>14, <2>1
  <2>3. Has(b.from)
    BY <2>2
  <2>4. ASSUME NEW h \in DOMAIN run.given, h < b.from, NEW id \in Dexes(h), c.descriptor \in Descriptors(id) PROVE FALSE
    <3>1. PICK k \in DOMAIN blobs : blobs[k].id = id /\ blobs[k].from = h
      BY <1>11
    <3>2. k \in Nat /\ org[p] \in Nat /\ h \in Nat /\ b.from \in Nat
      BY <1>12, <2>2
    <3>3. k < org[p]
      BY <1>13, <2>2, <2>4, <3>1, <3>2
    <3>4. PICK x \in ToSet(parsed[k].classes) : c.descriptor = x.descriptor
      BY <1>14, <2>4, <3>1
    <3>5. PICK q \in 1 .. Len(all) : org[q] = k /\ all[q] = x
      BY <1>6
    <3>6. ~ p <= q
      BY <1>7, <3>2, <3>3, <3>5
    <3>7. q \in 1 .. p - 1
      BY <1>4, <3>6
    <3> QED
      BY <2>1, <3>4, <3>5, <3>7
  <2> HIDE DEF b
  <2>5. First(b.from)
    <3>1. \A h \in 1 .. b.from - 1 : h \in DOMAIN run.given /\ h < b.from
      BY <1>12, <2>2
    <3> QED
      BY <2>3, <2>4, <3>1
  <2>6. ASSUME NEW j \in DOMAIN run.given, First(j) PROVE j = b.from
    <3>1. j \in Nat /\ b.from \in Nat
      BY <1>12, <2>2
    <3>2. ~ j < b.from
      BY <2>4, <2>6
    <3>3. ~ b.from < j
      <4>1. SUFFICES ASSUME b.from < j PROVE FALSE
        OBVIOUS
      <4>2. b.from \in 1 .. j - 1
        <5>1. b.from >= 1
          BY <2>2, RunsAssumption DEF TypeInv
        <5> QED
          BY <3>1, <4>1, <5>1
      <4> QED
        BY <2>3, <2>6, <4>2
    <3> QED
      BY <3>1, <3>2, <3>3
  <2> HIDE DEF First
  <2>7. (CHOOSE j \in DOMAIN run.given : First(j)) = b.from
    <3>1. (CHOOSE j \in DOMAIN run.given : First(j)) \in DOMAIN run.given /\ First(CHOOSE j \in DOMAIN run.given : First(j))
      BY <2>2, <2>5
    <3> QED
      BY <2>6, <3>1
  <2>8. \E id \in Dexes(CHOOSE j \in DOMAIN run.given : First(j)) : c \in ToSet(Saying(id).classes)
    BY <2>2, <2>7
  <2> QED
    BY <2>8 DEF First
<1>17. merged.flagged = UNION {Saying(id).flagged : id \in AllDexes}
  <2>1. merged.flagged = UNION {parsed[k].flagged : k \in DOMAIN blobs}
    BY DEF Sound, ByPhase
  <2>2. \A k \in DOMAIN blobs : blobs[k].id \in AllDexes /\ parsed[k].flagged = Saying(blobs[k].id).flagged
    BY <1>10 DEF AllDexes
  <2>3. \A id \in AllDexes : \E k \in DOMAIN blobs : blobs[k].id = id
    BY <1>11 DEF AllDexes
  <2>4. UNION {parsed[k].flagged : k \in DOMAIN blobs} = UNION {Saying(id).flagged : id \in AllDexes}
    BY <2>2, <2>3
  <2> QED
    BY <2>1, <2>4
<1> QED
  BY <1>9, <1>15, <1>16, <1>17, Zenon DEF EveryClassOnce

\* A finished run has every class of every dex within reach, once, and the
\* copy of the path given first, whatever the files, if besides either front
\* end makes of every dex what it says.  Within reach is what listings give.
THEOREM RunsHaveEveryClass == Spec => [](ImagesExact /\ FrontEndsExact => EveryClassOnce)
<1>1. InputsInv => (ImagesExact /\ FrontEndsExact => EveryClassOnce)
  <2> SUFFICES ASSUME TypeInv, Sound, ImagesExact, FrontEndsExact PROVE EveryClassOnce
    BY DEF InputsInv
  <2>1. CASE phase = "done"
    BY <2>1, ClassesOnce
  <2>2. CASE phase # "done"
    BY <2>2, Zenon DEF EveryClassOnce
  <2> QED
    BY <2>1, <2>2
<1> QED
  BY <1>1, InputsInit, InputsNext, PTL DEF Spec
=============================================================================
