------------------------------ MODULE LockContext ------------------------------
(***************************************************************************)
(* The lock-context index (src/dex/ctx.rs): which locks may be held when a *)
(* method is entered, how many call frames away, and in which orders locks *)
(* are taken.                                                              *)
(*                                                                         *)
(* The index is built from the spans and the calls of every method, each   *)
(* with the locks its own method holds there.  A worklist computes the     *)
(* distances; the order graph and the queries are read off them.  Then     *)
(* threads execute the indexed program, blocking on locks, and the index   *)
(* is right if it foretold what they run into.                             *)
(***************************************************************************)
EXTENDS Naturals, Sequences, FiniteSets, FiniteSetsExt

CONSTANTS
  Method, Lock, Thread,
  MaxDepth,     \* Options::max_depth: furthest a held lock propagates
  OrderDepth,   \* Options::order_depth: furthest the order graph looks
  BinderDepth,  \* the depth binder_sites is asked for
  Programs,     \* the programs indexed: see IsProgram
  MaxStack      \* bound on the frames of a thread

(***************************************************************************)
(* targets are the methods a call may reach, held the locks its method     *)
(* holds there.  A span is one acquisition: it covers the lines enter ..   *)
(* exit - 1, and held are the locks its method had already.  binder are    *)
(* the remote entries, entries the methods called from outside as well.    *)
(***************************************************************************)
IsCall(c) ==
  /\ c = [caller |-> c.caller, line |-> c.line, held |-> c.held, targets |-> c.targets]
  /\ c.caller \in Method /\ c.line \in Nat
  /\ c.held \subseteq Lock /\ c.targets \subseteq Method

IsSpan(s) ==
  /\ s = [method |-> s.method, lock |-> s.lock, enter |-> s.enter, exit |-> s.exit,
          held |-> s.held]
  /\ s.method \in Method /\ s.lock \in Lock
  /\ s.enter \in Nat /\ s.exit \in Nat
  /\ s.held \subseteq Lock

IsProgram(p) ==
  /\ p = [calls |-> p.calls, spans |-> p.spans, binder |-> p.binder, entries |-> p.entries]
  /\ \A c \in p.calls : IsCall(c)
  /\ \A s \in p.spans : IsSpan(s)
  /\ p.binder \subseteq Method /\ p.entries \subseteq Method

ASSUME DepthAssumption == MaxDepth \in Nat \ {0} /\ OrderDepth \in Nat /\ BinderDepth \in Nat

ASSUME MaxStackAssumption == MaxStack \in Nat

ASSUME ProgramsAssumption == \A p \in Programs : IsProgram(p)

VARIABLES
  prog,     \* the program; never changes
  phase,    \* "solve", "done"
  dist,     \* method -> lock -> frames to a holder, Far if none
  work,     \* the methods to be visited again
  stack     \* the frames of each thread, the innermost last

vars == <<prog, phase, dist, work, stack>>

-----------------------------------------------------------------------------
(***************************************************************************)
(* Distances.                                                              *)
(***************************************************************************)
Far == MaxDepth + 1

Incoming(m) == {c \in prog.calls : m \in c.targets}

\* Mutants of Offer: the cut-off comes a frame early; a caller that takes locks of
\* its own does not hand on those it was entered with.
OfferCutEarly(c, l, g) ==
  IF l \in c.held THEN 1
  ELSE IF g[c.caller][l] + 1 < MaxDepth THEN g[c.caller][l] + 1 ELSE Far

OfferOwnFirst(c, l, g) ==
  IF l \in c.held THEN 1
  ELSE IF c.held = {} /\ g[c.caller][l] < MaxDepth THEN g[c.caller][l] + 1 ELSE Far

\* How far from a holder of l the target of c is, as c knows it.
Offer(c, l, g) ==
  IF l \in c.held THEN 1
  ELSE IF g[c.caller][l] < MaxDepth THEN g[c.caller][l] + 1 ELSE Far

Nearest(m, l, g) == Min({Far} \cup {Offer(c, l, g) : c \in Incoming(m)})

Acc(m, g) == [l \in Lock |-> Nearest(m, l, g)]

Callees(m) == UNION {c.targets : c \in {k \in prog.calls : k.caller = m}}

Init ==
  /\ prog \in Programs
  /\ phase = "solve"
  /\ dist = [m \in Method |-> [l \in Lock |-> Far]]
  /\ work = Method
  /\ stack = [t \in Thread |-> <<>>]

\* Mutants of Requeued: callees are always visited again; only when m is reached by
\* a lock for the first time, not when one is found nearer.
RequeuedAlways(m) == Callees(m)
RequeuedOnFirst(m) ==
  IF \E l \in Lock : dist[m][l] = Far /\ Nearest(m, l, dist) # Far THEN Callees(m) ELSE {}

\* The methods to visit after m: its callees, if a distance of m moves.
Requeued(m) == IF Acc(m, dist) # dist[m] THEN Callees(m) ELSE {}

Visit(m) ==
  /\ phase = "solve"
  /\ m \in work
  /\ dist' = [dist EXCEPT ![m] = Acc(m, dist)]
  /\ work' = (work \ {m}) \cup Requeued(m)
  /\ UNCHANGED <<prog, phase, stack>>

Finish ==
  /\ phase = "solve"
  /\ work = {}
  /\ phase' = "done"
  /\ UNCHANGED <<prog, dist, work, stack>>

Solver == (\E m \in work : Visit(m)) \/ Finish

-----------------------------------------------------------------------------
(***************************************************************************)
(* The order graph and the queries.                                        *)
(***************************************************************************)
MayHeld(m) == {l \in Lock : dist[m][l] # Far}

\* A span that takes a lock which is held already orders nothing.
Retaken(s) == s.lock \in s.held \/ s.lock \in MayHeld(s.method)

Froms(s) ==
  {<<h, 0>> : h \in s.held}
    \cup {<<l, dist[s.method][l]>> : l \in {k \in MayHeld(s.method) : dist[s.method][k] <= OrderDepth}}

\* Every way to take lock `to` while `from` is held.
Sites ==
  UNION {{[from |-> y[1], to |-> s.lock, method |-> s.method, line |-> s.enter, dist |-> y[2]] :
            y \in {z \in Froms(s) : z[1] # s.lock}} :
         s \in {r \in prog.spans : ~ Retaken(r)}}

Alike(e) == {f \in Sites : f.from = e.from /\ f.to = e.to}

\* An edge keeps one of its nearest sites; the code keeps the first it meets.
Order == {e \in Sites : \A f \in Alike(e) : e.dist <= f.dist}

IntraHeld(m, line) ==
  {s.lock : s \in {r \in prog.spans : r.method = m /\ r.enter <= line /\ line < r.exit}}

HeldSet(m, line) == IntraHeld(m, line) \cup MayHeld(m)

\* Mutant of Gates: the two locks themselves count.
GatesAll(a, b) == HeldSet(a.method, a.line) \cap HeldSet(b.method, b.line)

\* The locks held at both sites of an inversion; the code names one of them.
Gates(a, b) == (HeldSet(a.method, a.line) \cap HeldSet(b.method, b.line)) \ {a.from, a.to}

Inversions == {p \in Order \X Order : p[1].from = p[2].to /\ p[1].to = p[2].from}

Closed(some) == \A e \in Order : e.from \in some => e.to \in some

\* The edges of the order graph lead from x to y.
Leads(x, y) == \A some \in SUBSET Lock : x \in some /\ Closed(some) => y \in some

\* Mutant of Component: only locks a single edge away are looked at.
ComponentNear(x) ==
  {y \in Lock : y = x \/ \E e, f \in Order : e.from = x /\ e.to = y /\ f.from = y /\ f.to = x}

\* The locks from which x can be reached and that can be reached from x.
Component(x) == {y \in Lock : Leads(x, y) /\ Leads(y, x)}

\* The strongly connected components of the order graph, of more than one lock.
Cycles == {c \in {Component(x) : x \in Lock} : \E x, y \in c : x # y}

\* Mutant of WitnessCalls: the calling frame is not counted.
WitnessCallsSame(m, l, d) ==
  {c \in Incoming(m) : IF d = 1 THEN l \in c.held ELSE dist[c.caller][l] = d}

\* The calls one backward step of a witness path may take, from m at distance d
\* of a holder of l.
WitnessCalls(m, l, d) ==
  {c \in Incoming(m) : IF d = 1 THEN l \in c.held ELSE dist[c.caller][l] = d - 1}

\* Mutant of BinderSites: only the locks of the calling method count.
BinderSitesHere ==
  UNION {{<<c, l, 0>> : l \in c.held} : c \in {k \in prog.calls : k.targets \cap prog.binder # {}}}

\* Calls to a remote entry with the locks held there: <<call, lock, distance>>.
BinderSites ==
  UNION {{<<c, l, 0>> : l \in c.held}
           \cup {<<c, l, dist[c.caller][l]>> :
                   l \in {k \in MayHeld(c.caller) \ c.held : dist[c.caller][k] <= BinderDepth}} :
         c \in {k \in prog.calls : k.targets \cap prog.binder # {}}}

-----------------------------------------------------------------------------
(***************************************************************************)
(* The indexed program at run time.  A frame is a method and the locks it  *)
(* took itself; a lock belongs to the thread whose frames have it.         *)
(***************************************************************************)
Frame(m) == [method |-> m, has |-> {}]

Depth(t) == Len(stack[t])

Top(t) == stack[t][Depth(t)]

Owns(t, l) == \E i \in 1 .. Depth(t) : l \in stack[t][i].has

TakenByOther(t, l) == \E u \in Thread \ {t} : Owns(u, l)

Enter(t, m) ==
  /\ phase = "done"
  /\ m \in prog.entries
  /\ stack[t] = <<>>
  /\ stack' = [stack EXCEPT ![t] = <<Frame(m)>>]
  /\ UNCHANGED <<prog, phase, dist, work>>

\* The innermost frame of t stands at call c, to its target m.
Invoke(t, c, m) ==
  /\ phase = "done"
  /\ Depth(t) \in 1 .. MaxStack - 1
  /\ Top(t).method = c.caller
  /\ Top(t).has = c.held
  /\ m \in c.targets
  /\ stack' = [stack EXCEPT ![t] = Append(stack[t], Frame(m))]
  /\ UNCHANGED <<prog, phase, dist, work>>

\* The innermost frame of t stands before span s.
StandsAt(t, s) ==
  /\ stack[t] # <<>>
  /\ Top(t).method = s.method
  /\ Top(t).has = s.held

Acquire(t, s) ==
  /\ phase = "done"
  /\ StandsAt(t, s)
  /\ ~ TakenByOther(t, s.lock)
  /\ stack' = [stack EXCEPT ![t][Depth(t)].has = s.held \cup {s.lock}]
  /\ UNCHANGED <<prog, phase, dist, work>>

Release(t, l) ==
  /\ phase = "done"
  /\ stack[t] # <<>>
  /\ l \in Top(t).has
  /\ stack' = [stack EXCEPT ![t][Depth(t)].has = Top(t).has \ {l}]
  /\ UNCHANGED <<prog, phase, dist, work>>

Return(t) ==
  /\ phase = "done"
  /\ stack[t] # <<>>
  /\ Top(t).has = {}
  /\ stack' = [stack EXCEPT ![t] = SubSeq(stack[t], 1, Depth(t) - 1)]
  /\ UNCHANGED <<prog, phase, dist, work>>

Execution ==
  \E t \in Thread :
    \/ \E m \in prog.entries : Enter(t, m)
    \/ \E c \in prog.calls : \E m \in c.targets : Invoke(t, c, m)
    \/ \E s \in prog.spans : Acquire(t, s)
    \/ \E l \in Lock : Release(t, l)
    \/ Return(t)

Next == Solver \/ Execution

Spec == Init /\ [][Next]_vars

\* The fixpoint is one loop of one thread.
FairSpec == Spec /\ WF_vars(Solver)

-----------------------------------------------------------------------------
Frames == [method : Method, has : SUBSET Lock]

TypeOK ==
  /\ prog \in Programs
  /\ phase \in {"solve", "done"}
  /\ dist \in [Method -> [Lock -> 1 .. Far]]
  /\ work \subseteq Method
  /\ stack \in [Thread -> Seq(Frames)]

-----------------------------------------------------------------------------
(***************************************************************************)
(* Properties.                                                             *)
(***************************************************************************)

\* A lock never moves away from a method while the distances are computed, so
\* the worklist (lines 607-634) comes to an end.
OnlyCloser ==
  [][\A m \in Method : \A l \in Lock : dist'[m][l] <= dist[m][l]]_vars

\* The loop of lines 607-634 is an iteration to a fixpoint: from Far, each step gives
\* one method the distances its callers offer, and they are read only when every
\* method has those, though only the callees of a moved method are visited again.
Wanted == [m \in Method |-> Acc(m, dist)]

Iteration == INSTANCE Fixpoint WITH value <- dist, want <- Wanted, Unknown <- [l \in Lock |-> Far]

Iterates == Iteration!Spec

Terminates == <>(phase = "done")

\* The methods a call chain of at most k calls leads to from a call that holds l.
Within(l, k) ==
  LET reach[j \in 1 .. k] ==
        UNION {c.targets : c \in {d \in prog.calls : l \in d.held \/ (j > 1 /\ d.caller \in reach[j - 1])}}
  IN  reach[k]

\* "The fewest call frames between a frame holding lock l and entry to m", cut
\* off at max_depth (lines 27-30).
DistIsShortest ==
  phase = "done" =>
    \A m \in Method : \A l \in Lock : \A k \in 1 .. MaxDepth : dist[m][l] <= k <=> m \in Within(l, k)

\* "Every member is backed by a concrete call path, which witness recovers"
\* (lines 34-36): the backward walk of lines 758-766 never gets stuck.
WitnessExists ==
  phase = "done" =>
    \A m \in Method : \A l \in MayHeld(m) : WitnessCalls(m, l, dist[m][l]) # {}

\* No thread enters a method with a lock held within max_depth frames that is
\* not may-held there, at that distance or nearer.
MayHeldCoversStack ==
  \A t \in Thread : \A i, j \in 1 .. Depth(t) :
    i < j /\ j - i <= MaxDepth => \A l \in stack[t][i].has : dist[stack[t][j].method][l] <= j - i

\* A thread that waits in a remote entry with a lock held near enough is at a
\* reported site, no farther than reported.
BinderSitesCoverStack ==
  \A t \in Thread : \A i, j \in 1 .. Depth(t) :
    LET caller == stack[t][j - 1].method
    IN  /\ i < j /\ stack[t][j].method \in prog.binder
        /\ j - 1 - i <= BinderDepth /\ j - 1 - i <= MaxDepth
        => \A l \in stack[t][i].has : \E b \in BinderSites :
             /\ b[1].caller = caller
             /\ stack[t][j].method \in b[1].targets
             /\ b[2] = l /\ b[3] <= j - 1 - i

\* Thread t waits for the lock of span s, which u has.
Waits(t, s, u) == StandsAt(t, s) /\ ~ Owns(t, s.lock) /\ Owns(u, s.lock)

Deadlocked(t, s, u, r) == Waits(t, s, u) /\ Waits(u, r, t)

\* t took lock l within the last OrderDepth frames.
TookNear(t, l) ==
  \E i \in 1 .. Depth(t) :
    l \in stack[t][i].has /\ Depth(t) - i <= OrderDepth /\ Depth(t) - i <= MaxDepth

\* The thread and span of each thread that waits.
Waiters == {w \in Thread \X prog.spans : StandsAt(w[1], w[2]) /\ TakenByOther(w[1], w[2].lock)}

Following(i, n) == IF i = n THEN 1 ELSE i + 1

\* n waiters, each waiting for a lock the next one took near enough, and no path
\* comes to any of the waits with its lock held.
IsRing(ring, n) ==
  \A i \in 1 .. n :
    LET next == ring[Following(i, n)]
    IN  /\ Waits(ring[i][1], ring[i][2], next[1])
        /\ TookNear(next[1], ring[i][2].lock)
        /\ ~ Retaken(ring[i][2])

\* "Sets of locks that can be acquired in inconsistent orders (deadlock
\* candidates)" (lines 806-807) and the pairs of `inversions`: threads that wait
\* for each other in a ring have all their locks in one cycle, and two of them are
\* foretold by a pair of edges.
DeadlockIsForetold ==
  \A n \in 2 .. Cardinality(Thread) : \A ring \in [1 .. n -> Waiters] :
    IsRing(ring, n) =>
      /\ \E c \in Cycles : \A i \in 1 .. n : ring[i][2].lock \in c
      /\ n = 2 => \E p \in Inversions : p[1].from = ring[2][2].lock /\ p[1].to = ring[1][2].lock

\* "An outer lock that serializes the two orders, which makes the pair benign"
\* (lines 875-876, README.md:370-371): where every pair of sites of the two
\* orders has a gate, no two threads deadlock on the pair.
Pairs(x, y) == {p \in Inversions : p[1].from = x /\ p[1].to = y}

GatedIsBenign ==
  \A t, u \in Thread : \A s, r \in prog.spans :
    Deadlocked(t, s, u, r) => \A p \in Pairs(r.lock, s.lock) : Gates(p[1], p[2]) = {}

\* That much holds of a gate that both methods take themselves: threads that
\* stand at the two sites do not wait for each other.
TakesGate(e, g) == g \in IntraHeld(e.method, e.line)

IsSiteOf(e, s) == e.method = s.method /\ e.line = s.enter

OwnGateIsBenign ==
  \A t, u \in Thread : \A s, r \in prog.spans :
    Deadlocked(t, s, u, r) =>
      \A p \in Pairs(r.lock, s.lock) :
        IsSiteOf(p[1], s) /\ IsSiteOf(p[2], r) =>
          ~ \E g \in Gates(p[1], p[2]) : TakesGate(p[1], g) /\ TakesGate(p[2], g)
=============================================================================
