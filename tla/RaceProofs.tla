------------------------------ MODULE RaceProofs ------------------------------
(***************************************************************************)
(* Proofs about LockContext, EntryHeld and Race.  First the index: the     *)
(* distance worklist only ever shortens distances, ends on a solution of   *)
(* its equations with a witness behind every entry, and that solution      *)
(* covers every stack of every execution.  The reporter runs the index     *)
(* unchanged, so all of it holds of a run of the reporter; the entry sets  *)
(* and the reachable methods are each kept by an invariant of their own,   *)
(* and the two halves of a finding follow.                                 *)
(***************************************************************************)
EXTENDS Race, LeastNumber

-----------------------------------------------------------------------------
(***************************************************************************)
(* The equations.                                                          *)
(***************************************************************************)
Distances == [Method -> [Lock -> 1 .. Far]]

Offers(m, l, g) == {Offer(c, l, g) : c \in Incoming(m)}

LEMMA FarIsFar == Far \in Nat /\ Far = MaxDepth + 1 /\ MaxDepth \in Nat /\ MaxDepth >= 1
BY DepthAssumption DEF Far

LEMMA CallTypes ==
  ASSUME prog \in Programs, NEW c \in prog.calls
  PROVE  c.caller \in Method /\ c.held \subseteq Lock /\ c.targets \subseteq Method
BY ProgramsAssumption DEF IsProgram, IsCall

LEMMA SpanTypes ==
  ASSUME prog \in Programs, NEW s \in prog.spans
  PROVE  s.method \in Method /\ s.held \subseteq Lock /\ s.lock \in Lock
BY ProgramsAssumption DEF IsProgram, IsSpan

\* What a call offers is a distance ...
LEMMA OfferType ==
  ASSUME prog \in Programs, NEW g \in Distances, NEW c \in prog.calls, NEW l \in Lock
  PROVE  Offer(c, l, g) \in 1 .. Far
<1>1. g[c.caller][l] \in 1 .. Far
  BY CallTypes DEF Distances
<1> QED
  BY <1>1, FarIsFar DEF Offer

\* ... and no call offers less when no caller is nearer.
LEMMA OfferMono ==
  ASSUME prog \in Programs, NEW g \in Distances, NEW h \in Distances,
         NEW c \in prog.calls, NEW l \in Lock, g[c.caller][l] <= h[c.caller][l]
  PROVE  Offer(c, l, g) <= Offer(c, l, h)
<1>1. g[c.caller][l] \in 1 .. Far /\ h[c.caller][l] \in 1 .. Far
  BY CallTypes DEF Distances
<1> QED
  BY <1>1, FarIsFar DEF Offer

\* The nearest offer is one of the offers, or Far, and no offer is nearer.
LEMMA NearestIsOffer ==
  ASSUME prog \in Programs, NEW g \in Distances, NEW m \in Method, NEW l \in Lock
  PROVE  /\ Nearest(m, l, g) \in 1 .. Far
         /\ Nearest(m, l, g) \in {Far} \cup Offers(m, l, g)
         /\ \A c \in Incoming(m) : Nearest(m, l, g) <= Offer(c, l, g)
<1> DEFINE S == {Far} \cup Offers(m, l, g)
<1>1. \A c \in Incoming(m) : Offer(c, l, g) \in 1 .. Far
  BY OfferType DEF Incoming
<1>2. S \subseteq 1 .. Far /\ S # {}
  BY <1>1, FarIsFar DEF Offers
<1>3. S \subseteq Nat
  BY <1>2, FarIsFar
<1>4. Nearest(m, l, g) = Min(S)
  BY DEF Nearest, Offers
<1>5. Min(S) \in S /\ \A y \in S : Min(S) <= y
  BY <1>2, <1>3, LeastIsLeast
<1>6. \A c \in Incoming(m) : Offer(c, l, g) \in S
  BY DEF Offers
<1> QED
  BY <1>2, <1>4, <1>5, <1>6

LEMMA NearestMono ==
  ASSUME prog \in Programs, NEW g \in Distances, NEW h \in Distances,
         \A m \in Method : \A l \in Lock : g[m][l] <= h[m][l],
         NEW m \in Method, NEW l \in Lock
  PROVE  Nearest(m, l, g) <= Nearest(m, l, h)
<1>1. CASE Nearest(m, l, h) = Far
  BY <1>1, NearestIsOffer, FarIsFar
<1>2. CASE Nearest(m, l, h) # Far
  <2>1. PICK c \in Incoming(m) : Nearest(m, l, h) = Offer(c, l, h)
    BY <1>2, NearestIsOffer DEF Offers
  <2>2. c \in prog.calls /\ c.caller \in Method
    BY CallTypes DEF Incoming
  <2>3. Offer(c, l, g) <= Offer(c, l, h)
    BY <2>2, OfferMono
  <2>4. Nearest(m, l, g) <= Offer(c, l, g)
    BY NearestIsOffer
  <2>5. Offer(c, l, g) \in 1 .. Far /\ Offer(c, l, h) \in 1 .. Far /\ Nearest(m, l, g) \in 1 .. Far
    BY <2>2, OfferType, NearestIsOffer
  <2> QED
    BY <2>1, <2>3, <2>4, <2>5
<1> QED
  BY <1>1, <1>2

LEMMA AccType ==
  ASSUME prog \in Programs, NEW g \in Distances, NEW m \in Method
  PROVE  Acc(m, g) \in [Lock -> 1 .. Far]
BY NearestIsOffer DEF Acc

\* What m collects depends on its callers only.
LEMMA AccLocal ==
  ASSUME NEW g, NEW h, NEW m,
         \A c \in Incoming(m) : g[c.caller] = h[c.caller]
  PROVE  Acc(m, g) = Acc(m, h)
<1>1. \A l \in Lock : \A c \in Incoming(m) : Offer(c, l, g) = Offer(c, l, h)
  BY DEF Offer
<1>2. \A l \in Lock : {Offer(c, l, g) : c \in Incoming(m)} = {Offer(c, l, h) : c \in Incoming(m)}
  BY <1>1
<1>3. \A l \in Lock : Nearest(m, l, g) = Nearest(m, l, h)
  BY <1>2 DEF Nearest
<1> QED
  BY <1>3 DEF Acc

-----------------------------------------------------------------------------
(***************************************************************************)
(* Types.                                                                  *)
(***************************************************************************)

LEMMA TopFrame ==
  ASSUME TypeOK, NEW t \in Thread, stack[t] # <<>>
  PROVE  /\ Depth(t) \in Nat \ {0}
         /\ stack[t] \in Seq(Frames)
         /\ Top(t) = stack[t][Depth(t)]
         /\ Top(t) \in Frames
BY DEF TypeOK, Depth, Top

\* What the steps of an execution do to the stack of their thread.
LEMMA FrameType ==
  ASSUME NEW m \in Method
  PROVE  Frame(m) \in Frames
BY DEF Frame, Frames

LEMMA RelockedType ==
  ASSUME TypeOK, NEW t \in Thread, stack[t] # <<>>, NEW has \in SUBSET Lock,
         stack' = [stack EXCEPT ![t][Depth(t)].has = has]
  PROVE  /\ stack' \in [Thread -> Seq(Frames)]
         /\ \A u \in Thread \ {t} : stack'[u] = stack[u]
         /\ stack'[t] = [stack[t] EXCEPT ![Depth(t)] = [Top(t) EXCEPT !.has = has]]
         /\ Len(stack'[t]) = Depth(t)
<1>1. Depth(t) \in 1 .. Len(stack[t]) /\ stack[t] \in Seq(Frames) /\ Top(t) \in Frames
  BY TopFrame DEF Depth
<1>2. [Top(t) EXCEPT !.has = has] \in Frames
  BY <1>1 DEF Frames
<1>3. stack' = [stack EXCEPT ![t] = [stack[t] EXCEPT ![Depth(t)] = [Top(t) EXCEPT !.has = has]]]
  BY DEF TypeOK, Top
<1>4. stack'[t] = [stack[t] EXCEPT ![Depth(t)] = [Top(t) EXCEPT !.has = has]]
  BY <1>3 DEF TypeOK
<1>5. stack'[t] \in Seq(Frames) /\ Len(stack'[t]) = Len(stack[t])
  BY <1>1, <1>2, <1>4, SMTT(30)
<1> QED
  BY <1>3, <1>4, <1>5 DEF TypeOK, Depth

LEMMA TypeInit ==
  ASSUME Init
  PROVE  TypeOK
BY FarIsFar DEF Init, TypeOK

LEMMA TypeStep ==
  ASSUME TypeOK, [Next]_vars
  PROVE  TypeOK'
<1> USE DEF TypeOK
<1>1. CASE UNCHANGED vars
  BY <1>1 DEF vars
<1>2. ASSUME NEW m \in work, Visit(m) PROVE TypeOK'
  <2>1. Acc(m, dist) \in [Lock -> 1 .. Far]
    BY AccType DEF Distances
  <2>2. Callees(m) \subseteq Method
    BY CallTypes DEF Callees
  <2> QED
    BY <1>2, <2>1, <2>2 DEF Visit, Requeued
<1>3. CASE Finish
  BY <1>3 DEF Finish
<1>4. ASSUME NEW t \in Thread, NEW m \in prog.entries, Enter(t, m) PROVE TypeOK'
  <2>1. m \in Method
    BY ProgramsAssumption DEF IsProgram
  <2>2. <<Frame(m)>> \in Seq(Frames)
    BY <2>1, FrameType
  <2> QED
    BY <1>4, <2>2 DEF Enter
<1>5. ASSUME NEW t \in Thread, NEW c \in prog.calls, NEW m \in c.targets, Invoke(t, c, m)
      PROVE  TypeOK'
  <2>1. Frame(m) \in Frames
    BY CallTypes, FrameType
  <2>2. Append(stack[t], Frame(m)) \in Seq(Frames)
    BY <2>1
  <2> QED
    BY <1>5, <2>2 DEF Invoke
<1>6. ASSUME NEW t \in Thread, NEW s \in prog.spans, Acquire(t, s) PROVE TypeOK'
  <2> DEFINE has == s.held \cup {s.lock}
  <2>1. has \in SUBSET Lock
    BY SpanTypes
  <2>2. stack[t] # <<>> /\ stack' = [stack EXCEPT ![t][Depth(t)].has = has]
    BY <1>6 DEF Acquire, StandsAt
  <2> HIDE DEF has
  <2>3. stack' \in [Thread -> Seq(Frames)]
    BY <2>1, <2>2, RelockedType
  <2> QED
    BY <1>6, <2>3 DEF Acquire
<1>7. ASSUME NEW t \in Thread, NEW l \in Lock, Release(t, l) PROVE TypeOK'
  <2>1. Top(t).has \ {l} \in SUBSET Lock
    BY <1>7, TopFrame DEF Release, Frames
  <2>2. stack' \in [Thread -> Seq(Frames)]
    BY <1>7, <2>1, RelockedType DEF Release
  <2> QED
    BY <1>7, <2>2 DEF Release
<1>8. ASSUME NEW t \in Thread, Return(t) PROVE TypeOK'
  <2>1. SubSeq(stack[t], 1, Depth(t) - 1) \in Seq(Frames)
    BY <1>8, TopFrame DEF Return, Depth
  <2> QED
    BY <1>8, <2>1 DEF Return
<1> QED
  BY <1>1, <1>2, <1>3, <1>4, <1>5, <1>6, <1>7, <1>8 DEF Next, Solver, Execution

\* Every variable keeps its type, for every program (build, threads).
THEOREM TypeCorrect == Spec => []TypeOK
BY TypeInit, TypeStep, PTL DEF Spec

-----------------------------------------------------------------------------
(***************************************************************************)
(* The fixpoint.  Distances stay at or above what the callers offer, and   *)
(* agree with it off the worklist.                                         *)
(***************************************************************************)
Supported == \A m \in Method : \A l \in Lock : Nearest(m, l, dist) <= dist[m][l]

CallersUnchanged == \A m \in Method \ work : dist[m] = Acc(m, dist)

SolverInv ==
  /\ TypeOK
  /\ Supported
  /\ CallersUnchanged
  /\ phase = "done" => work = {}
  /\ phase = "solve" => \A t \in Thread : stack[t] = <<>>

LEMMA VisitCloser ==
  ASSUME TypeOK, Supported, NEW v \in work, Visit(v)
  PROVE  /\ dist' \in Distances
         /\ \A m \in Method : \A l \in Lock : dist'[m][l] <= dist[m][l]
<1>1. v \in Method /\ dist \in Distances /\ dist' = [dist EXCEPT ![v] = Acc(v, dist)]
  BY DEF TypeOK, Visit, Distances
<1>2. Acc(v, dist) \in [Lock -> 1 .. Far]
  BY <1>1, AccType DEF TypeOK
<1>3. dist' \in Distances
  BY <1>1, <1>2 DEF Distances
<1>4. \A l \in Lock : dist'[v][l] = Nearest(v, l, dist)
  BY <1>1 DEF Acc, Distances
<1>5. ASSUME NEW m \in Method, NEW l \in Lock PROVE dist'[m][l] <= dist[m][l]
  <2>1. dist[m][l] \in 1 .. Far
    BY <1>1 DEF Distances
  <2>2. CASE m = v
    BY <2>2, <1>4 DEF Supported
  <2>3. CASE m # v
    BY <2>3, <2>1, <1>1, FarIsFar DEF Distances
  <2> QED
    BY <2>2, <2>3
<1> QED
  BY <1>3, <1>5

LEMMA FixpointKept ==
  ASSUME Supported, CallersUnchanged, prog' = prog, dist' = dist, work' = work
  PROVE  Supported' /\ CallersUnchanged'
<1>1. Supported'
  BY DEF Supported, Nearest, Offer, Incoming
<1>2. \A m, l : Nearest(m, l, dist)' = Nearest(m, l, dist)
  BY DEF Nearest, Offer, Incoming
<1>3. \A m : Acc(m, dist)' = Acc(m, dist)
  BY <1>2 DEF Acc
<1>4. CallersUnchanged'
  BY <1>3 DEF CallersUnchanged
<1> QED
  BY <1>1, <1>4

LEMMA SolverInit ==
  ASSUME Init
  PROVE  SolverInv
<1>1. TypeOK
  BY TypeInit
<1>2. Supported
  BY <1>1, NearestIsOffer, FarIsFar DEF Init, Supported, TypeOK, Distances
<1> QED
  BY <1>1, <1>2 DEF Init, SolverInv, CallersUnchanged

LEMMA SolverStep ==
  ASSUME SolverInv, [Next]_vars
  PROVE  SolverInv'
<1> USE DEF SolverInv
<1>0. TypeOK'
  BY TypeStep
<1>1. CASE UNCHANGED vars
  BY <1>0, <1>1, FixpointKept DEF vars
<1>2. ASSUME NEW v \in work, Visit(v) PROVE SolverInv'
  <2>1. /\ prog \in Programs /\ prog' = prog /\ dist \in Distances /\ v \in Method
        /\ dist' = [dist EXCEPT ![v] = Acc(v, dist)]
    BY <1>2 DEF Visit, TypeOK, Distances
  <2>2. /\ dist' \in Distances
        /\ \A m \in Method : \A l \in Lock : dist'[m][l] <= dist[m][l]
    BY <1>2, VisitCloser
  <2>3. \A m \in Method : \A l \in Lock : Nearest(m, l, dist') <= Nearest(m, l, dist)
    BY <2>1, <2>2, NearestMono
  <2>4. ASSUME NEW m \in Method, NEW l \in Lock PROVE Nearest(m, l, dist') <= dist'[m][l]
    <3>1. CASE m = v
      BY <3>1, <2>1, <2>3 DEF Acc, Distances
    <3>2. CASE m # v
      <4>1. dist'[m][l] = dist[m][l]
        BY <3>2, <2>1 DEF Distances
      <4>2. Nearest(m, l, dist) <= dist[m][l]
        BY DEF Supported
      <4>3. dist[m][l] \in Nat /\ Nearest(m, l, dist) \in Nat /\ Nearest(m, l, dist') \in Nat
        <5>1. dist[m][l] \in 1 .. Far
          BY <2>1 DEF Distances
        <5>2. Nearest(m, l, dist) \in 1 .. Far
          BY <2>1, NearestIsOffer
        <5>3. Nearest(m, l, dist') \in 1 .. Far
          BY <2>1, <2>2, NearestIsOffer
        <5> QED
          BY <5>1, <5>2, <5>3, FarIsFar
      <4> QED
        BY <4>1, <4>2, <4>3, <2>3
    <3> QED
      BY <3>1, <3>2
  <2>5. Supported'
    BY <2>1, <2>4 DEF Supported, Nearest, Offer, Incoming
  <2>6. ASSUME NEW m \in Method \ work' PROVE dist'[m] = Acc(m, dist')
    <3>1. CASE Acc(v, dist) = dist[v]
      <4>1. dist' = dist
        BY <3>1, <2>1 DEF Distances
      <4>2. CASE m = v
        BY <4>1, <4>2, <3>1
      <4>3. CASE m # v
        BY <4>1, <4>3, <1>2 DEF Visit, CallersUnchanged
      <4> QED
        BY <4>2, <4>3
    <3>2. CASE Acc(v, dist) # dist[v]
      <4>1. m \notin Callees(v) /\ (m = v \/ m \notin work)
        BY <3>2, <1>2 DEF Visit, Requeued
      <4>2. \A c \in Incoming(m) : c.caller # v
        BY <4>1 DEF Callees, Incoming
      <4>3. \A c \in Incoming(m) : dist'[c.caller] = dist[c.caller]
        BY <4>2, <2>1, CallTypes DEF Distances, Incoming
      <4>4. Acc(m, dist') = Acc(m, dist)
        BY <4>3, AccLocal
      <4>5. dist'[m] = Acc(m, dist)
        BY <4>1, <2>1 DEF CallersUnchanged, Distances
      <4> QED
        BY <4>4, <4>5
    <3> QED
      BY <3>1, <3>2
  <2>7. CallersUnchanged'
    BY <2>1, <2>6 DEF CallersUnchanged, Acc, Nearest, Offer, Incoming
  <2> QED
    BY <1>0, <1>2, <2>5, <2>7 DEF Visit
<1>3. CASE Finish
  BY <1>0, <1>3, FixpointKept DEF Finish
<1>4. CASE Execution
  <2>1. phase = "done" /\ UNCHANGED <<prog, phase, dist, work>>
    BY <1>4 DEF Execution, Enter, Invoke, Acquire, Release, Return
  <2> QED
    BY <1>0, <2>1, FixpointKept
<1> QED
  BY <1>1, <1>2, <1>3, <1>4 DEF Next, Solver

\* A method off the worklist agrees with its callers, so the distances the
\* worklist ends on solve the equations (lines 607-634).
THEOREM SolverCorrect == Spec => []SolverInv
BY SolverInit, SolverStep, PTL DEF Spec

\* The worklist is an iteration to a fixpoint (lines 607-634): it visits only the
\* callees of what moved, and still gives the distances out only when all agree.
THEOREM WorklistIterates == Spec => Iterates
<1>1. Init => Iteration!Init
  BY DEF Init, Iteration!Init, Iteration!Fresh
<1>2. SolverInv /\ [Next]_vars => [Iteration!Next]_<<phase, dist>>
  <2> SUFFICES ASSUME SolverInv, [Next]_vars, ~ UNCHANGED <<phase, dist>>
               PROVE  Iteration!Next
    OBVIOUS
  <2>1. dist = [m \in Method |-> dist[m]] /\ work \subseteq Method
    BY DEF SolverInv, TypeOK
  <2>2. ASSUME NEW m \in work, Visit(m)
        PROVE  Iteration!Recompute(m) /\ m \in DOMAIN dist
    BY <2>1, <2>2 DEF Visit, Iteration!Recompute, Wanted
  <2>3. CASE Finish
    <3>1. Iteration!Solved
      BY <2>1, <2>3 DEF Finish, SolverInv, CallersUnchanged, Iteration!Solved, Wanted
    <3> QED
      BY <2>3, <3>1 DEF Finish, Iteration!GiveOut, Iteration!Next
  <2>4. CASE Execution \/ UNCHANGED vars
    BY <2>4 DEF Execution, Enter, Invoke, Acquire, Release, Return, vars
  <2> QED
    BY <2>2, <2>3, <2>4 DEF Next, Solver, Iteration!Next
<1> QED
  BY <1>1, <1>2, SolverCorrect, PTL DEF Spec, Iterates, Iteration!Spec

\* A lock never moves away from a method (lines 607-634).
THEOREM DistancesShorten == Spec => OnlyCloser
<1>1. SolverInv /\ [Next]_vars => [\A m \in Method : \A l \in Lock : dist'[m][l] <= dist[m][l]]_vars
  <2>1. SUFFICES ASSUME SolverInv, Next, ~ UNCHANGED vars, NEW m \in Method, NEW l \in Lock
                 PROVE  dist'[m][l] <= dist[m][l]
    OBVIOUS
  <2>2. dist[m][l] \in Nat
    BY <2>1, FarIsFar DEF SolverInv, TypeOK
  <2>3. CASE \E v \in work : Visit(v)
    BY <2>1, <2>3, VisitCloser DEF SolverInv
  <2>4. CASE dist' = dist
    BY <2>2, <2>4
  <2> QED
    BY <2>1, <2>3, <2>4 DEF Next, Solver, Finish, Execution, Enter, Invoke, Acquire, Release, Return
<1> QED
  BY <1>1, SolverCorrect, PTL DEF Spec, OnlyCloser

\* Behind every entry of the index stands a call that gives it (lines 750-783).
THEOREM Witnessed == Spec => []WitnessExists
<1>1. SolverInv => WitnessExists
  <2>1. SUFFICES ASSUME SolverInv, phase = "done", NEW m \in Method, NEW l \in MayHeld(m)
                 PROVE  \E c \in Incoming(m) :
                          IF dist[m][l] = 1 THEN l \in c.held ELSE dist[c.caller][l] = dist[m][l] - 1
    BY DEF WitnessExists, WitnessCalls
  <2>2. l \in Lock /\ dist[m][l] # Far /\ dist \in Distances /\ prog \in Programs
    BY <2>1 DEF MayHeld, SolverInv, TypeOK, Distances
  <2>3. dist[m][l] = Nearest(m, l, dist)
    BY <2>1, <2>2 DEF SolverInv, CallersUnchanged, Acc
  <2>4. PICK c \in Incoming(m) : dist[m][l] = Offer(c, l, dist)
    BY <2>2, <2>3, NearestIsOffer DEF Offers
  <2>5. dist[c.caller][l] \in 1 .. Far
    BY <2>2, CallTypes DEF Incoming, Distances
  <2> QED
    BY <2>2, <2>4, <2>5, FarIsFar DEF Offer
<1> QED
  BY <1>1, SolverCorrect, PTL

-----------------------------------------------------------------------------
(***************************************************************************)
(* Executions.  Every frame but the innermost stands at a call to the next *)
(* one; by the equations that call carries its locks one frame further.    *)
(***************************************************************************)
CallsTo(fr, m) ==
  \E c \in prog.calls : c.caller = fr.method /\ c.held = fr.has /\ m \in c.targets

LinkedStack(t) == \A i \in 1 .. Depth(t) - 1 : CallsTo(stack[t][i], stack[t][i + 1].method)

CoveredStack(t) ==
  \A i, j \in 1 .. Depth(t) :
    i < j /\ j - i <= MaxDepth => \A l \in stack[t][i].has : dist[stack[t][j].method][l] <= j - i

StackInv ==
  /\ SolverInv
  /\ \A t \in Thread : LinkedStack(t) /\ CoveredStack(t)

\* A call brings a lock held at it, or d frames above it, to its target.
LEMMA CallCarries ==
  ASSUME SolverInv, phase = "done", NEW c \in prog.calls, NEW m \in c.targets, NEW l \in Lock
  PROVE  /\ l \in c.held => dist[m][l] <= 1
         /\ \A d \in Nat : dist[c.caller][l] <= d /\ d < MaxDepth => dist[m][l] <= d + 1
<1>1. m \in Method /\ c \in Incoming(m) /\ prog \in Programs /\ dist \in Distances
  BY CallTypes DEF SolverInv, TypeOK, Incoming, Distances
<1>2. dist[m][l] = Nearest(m, l, dist)
  BY <1>1 DEF SolverInv, CallersUnchanged, Acc
<1>3. dist[m][l] <= Offer(c, l, dist)
  BY <1>1, <1>2, NearestIsOffer
<1>4. dist[c.caller][l] \in 1 .. Far /\ dist[m][l] \in 1 .. Far
  BY <1>1, CallTypes DEF Distances
<1> QED
  BY <1>3, <1>4, FarIsFar DEF Offer

\* A stack that lost frames, or locks of its innermost frame, is as it was.
LEMMA StackKept ==
  ASSUME StackInv, NEW t \in Thread, prog' = prog, dist' = dist,
         Depth(t)' \in Nat, Depth(t)' <= Depth(t), Depth(t) \in Nat,
         \A i \in 1 .. Depth(t)' : stack'[t][i].method = stack[t][i].method,
         \A i \in 1 .. Depth(t)' - 1 : stack'[t][i].has = stack[t][i].has
  PROVE  LinkedStack(t)' /\ CoveredStack(t)'
<1>1. ASSUME NEW i \in 1 .. Depth(t)' - 1 PROVE CallsTo(stack[t][i], stack[t][i + 1].method)'
  <2>1. CallsTo(stack[t][i], stack[t][i + 1].method)
    BY <1>1 DEF StackInv, LinkedStack
  <2>2. i \in 1 .. Depth(t)' /\ i + 1 \in 1 .. Depth(t)'
    BY <1>1
  <2> QED
    BY <1>1, <2>1, <2>2 DEF CallsTo
<1>2. ASSUME NEW i \in 1 .. Depth(t)', NEW j \in 1 .. Depth(t)', i < j, j - i <= MaxDepth,
             NEW l \in stack'[t][i].has
      PROVE  dist'[stack'[t][j].method][l] <= j - i
  <2>1. i \in 1 .. Depth(t)' - 1 /\ i \in 1 .. Depth(t) /\ j \in 1 .. Depth(t)
    BY <1>2
  <2>2. l \in stack[t][i].has
    BY <2>1
  <2>3. dist[stack[t][j].method][l] <= j - i
    BY <1>2, <2>1, <2>2 DEF StackInv, CoveredStack
  <2> QED
    BY <2>3
<1>3. LinkedStack(t)'
  BY <1>1 DEF LinkedStack
<1> QED
  BY <1>2, <1>3 DEF CoveredStack

LEMMA StackSame ==
  ASSUME StackInv, NEW t \in Thread, prog' = prog, dist' = dist, stack'[t] = stack[t]
  PROVE  LinkedStack(t)' /\ CoveredStack(t)'
BY DEF StackInv, LinkedStack, CoveredStack, CallsTo, Depth

LEMMA StackRelocked ==
  ASSUME StackInv, NEW t \in Thread, stack[t] # <<>>, prog' = prog, dist' = dist,
         NEW has \in SUBSET Lock, stack' = [stack EXCEPT ![t][Depth(t)].has = has]
  PROVE  \A u \in Thread : LinkedStack(u)' /\ CoveredStack(u)'
<1>1. TypeOK
  BY DEF StackInv, SolverInv
<1>2. /\ \A u \in Thread \ {t} : stack'[u] = stack[u]
      /\ stack'[t] = [stack[t] EXCEPT ![Depth(t)] = [Top(t) EXCEPT !.has = has]]
      /\ Len(stack'[t]) = Depth(t)
  BY <1>1, RelockedType
<1>3. /\ Depth(t) \in Nat \ {0} /\ stack[t] \in Seq(Frames)
      /\ Top(t) = stack[t][Depth(t)] /\ Top(t) \in Frames
  BY <1>1, TopFrame
<1>4. DOMAIN stack[t] = 1 .. Depth(t)
  BY <1>3 DEF Depth
<1>5. \A i \in 1 .. Depth(t) : stack'[t][i].method = stack[t][i].method
  <2>1. [Top(t) EXCEPT !.has = has].method = Top(t).method
    BY <1>3 DEF Frames
  <2> QED
    BY <1>2, <1>3, <1>4, <2>1
<1>6. \A i \in 1 .. Depth(t) - 1 : stack'[t][i].has = stack[t][i].has
  BY <1>2, <1>3, <1>4
<1>7. Depth(t)' = Depth(t)
  BY <1>2 DEF Depth
<1>8. LinkedStack(t)' /\ CoveredStack(t)'
  BY <1>3, <1>5, <1>6, <1>7, StackKept
<1> QED
  BY <1>2, <1>8, StackSame

LEMMA StackEntered ==
  ASSUME StackInv, NEW t \in Thread, NEW m \in prog.entries, Enter(t, m)
  PROVE  \A u \in Thread : LinkedStack(u)' /\ CoveredStack(u)'
<1>1. /\ stack'[t] = <<Frame(m)>> /\ \A u \in Thread \ {t} : stack'[u] = stack[u]
      /\ prog' = prog /\ dist' = dist
  BY DEF Enter, StackInv, SolverInv, TypeOK
<1>2. Depth(t)' = 1
  BY <1>1 DEF Depth
<1>3. LinkedStack(t)' /\ CoveredStack(t)'
  BY <1>2 DEF LinkedStack, CoveredStack
<1> QED
  BY <1>1, <1>3, StackSame

LEMMA StackInvoked ==
  ASSUME StackInv, NEW t \in Thread, NEW c \in prog.calls, NEW m \in c.targets, Invoke(t, c, m)
  PROVE  \A u \in Thread : LinkedStack(u)' /\ CoveredStack(u)'
<1> DEFINE n == Depth(t)
<1>1. /\ stack'[t] = Append(stack[t], Frame(m)) /\ \A u \in Thread \ {t} : stack'[u] = stack[u]
      /\ prog' = prog /\ dist' = dist /\ phase = "done"
      /\ Top(t).method = c.caller /\ Top(t).has = c.held /\ stack[t] \in Seq(Frames)
  BY DEF Invoke, StackInv, SolverInv, TypeOK
<1>2. n \in Nat \ {0} /\ Top(t) = stack[t][n] /\ m \in Method
  BY <1>1, CallTypes DEF Invoke, Depth, Top, StackInv, SolverInv, TypeOK
<1>3. /\ Depth(t)' = n + 1
      /\ \A i \in 1 .. n : stack'[t][i] = stack[t][i]
      /\ stack'[t][n + 1].method = m /\ stack'[t][n + 1].has = {}
  BY <1>1, <1>2 DEF Depth, Frame
<1>4. \A i \in 1 .. n : stack[t][i].has \subseteq Lock /\ stack[t][i].method \in Method
  <2>1. \A i \in 1 .. n : stack[t][i] \in Frames
    BY <1>1, <1>2 DEF Depth
  <2> QED
    BY <2>1 DEF Frames
<1>5. ASSUME NEW i \in 1 .. n PROVE CallsTo(stack[t][i], stack'[t][i + 1].method)
  <2>1. CASE i = n
    <3>1. stack'[t][i + 1].method = m /\ stack[t][i] = Top(t)
      BY <2>1, <1>2, <1>3
    <3> QED
      BY <3>1, <1>1 DEF CallsTo
  <2>2. CASE i < n
    <3>1. i \in 1 .. n - 1 /\ i + 1 \in 1 .. n
      BY <2>2, <1>2
    <3>2. CallsTo(stack[t][i], stack[t][i + 1].method)
      BY <3>1 DEF StackInv, LinkedStack
    <3>3. stack'[t][i + 1] = stack[t][i + 1]
      BY <3>1, <1>3
    <3> QED
      BY <3>2, <3>3
  <2> QED
    BY <2>1, <2>2, <1>2
<1>6. ASSUME NEW i \in 1 .. n, NEW l \in stack[t][i].has, n + 1 - i <= MaxDepth
      PROVE  dist[m][l] <= n + 1 - i
  <2>1. l \in Lock
    BY <1>4
  <2>2. CASE i = n
    <3>1. stack[t][i] = Top(t) /\ n + 1 - i = 1
      BY <2>2, <1>2
    <3>2. dist[m][l] <= 1
      <4>1. l \in stack[t][i].has
        OBVIOUS
      <4>2. l \in c.held
        BY <4>1, <3>1, <1>1
      <4> QED
        BY <2>1, <4>2, <1>1, CallCarries DEF StackInv
    <3> QED
      BY <3>1, <3>2
  <2>3. CASE i < n
    <3>1. n \in 1 .. n /\ n - i \in Nat /\ n - i < MaxDepth
      BY <2>3, <1>2, <1>6, FarIsFar
    <3>2. dist[stack[t][n].method][l] <= n - i
      BY <2>3, <3>1, <1>2, FarIsFar DEF StackInv, CoveredStack
    <3>3. dist[c.caller][l] <= n - i
      BY <3>2, <1>1, <1>2
    <3>4. dist[m][l] <= (n - i) + 1
      BY <2>1, <3>1, <3>3, <1>1, CallCarries DEF StackInv
    <3> QED
      BY <3>4, <1>2
  <2> QED
    BY <2>2, <2>3, <1>2
<1>7. LinkedStack(t)'
  <2>1. \A i \in 1 .. n : CallsTo(stack'[t][i], stack'[t][i + 1].method)
    BY <1>3, <1>5
  <2>2. prog' = prog /\ Depth(t)' - 1 = n
    BY <1>1, <1>2, <1>3
  <2> QED
    BY <2>1, <2>2 DEF LinkedStack, CallsTo
<1>8. ASSUME NEW i \in 1 .. n + 1, NEW j \in 1 .. n + 1, i < j, j - i <= MaxDepth,
             NEW l \in stack'[t][i].has
      PROVE  dist[stack'[t][j].method][l] <= j - i
  <2>1. i \in 1 .. n /\ l \in stack[t][i].has
    BY <1>2, <1>3, <1>8
  <2>2. CASE j = n + 1
    BY <2>1, <2>2, <1>2, <1>3, <1>6, <1>8
  <2>3. CASE j # n + 1
    <3>1. j \in 1 .. n
      BY <2>3, <1>2
    <3> QED
      BY <2>1, <3>1, <1>3, <1>8 DEF StackInv, CoveredStack
  <2> QED
    BY <2>2, <2>3
<1>9. CoveredStack(t)'
  BY <1>1, <1>3, <1>8 DEF CoveredStack
<1> QED
  BY <1>1, <1>7, <1>9, StackSame

LEMMA StackReturned ==
  ASSUME StackInv, NEW t \in Thread, Return(t)
  PROVE  \A u \in Thread : LinkedStack(u)' /\ CoveredStack(u)'
<1>1. /\ stack'[t] = SubSeq(stack[t], 1, Depth(t) - 1) /\ \A u \in Thread \ {t} : stack'[u] = stack[u]
      /\ prog' = prog /\ dist' = dist
  BY DEF Return, StackInv, SolverInv, TypeOK
<1>2. Depth(t) \in Nat \ {0} /\ stack[t] \in Seq(Frames)
  BY TopFrame DEF Return, StackInv, SolverInv
<1>3. /\ Depth(t)' = Depth(t) - 1
      /\ \A i \in 1 .. Depth(t)' : stack'[t][i] = stack[t][i]
  BY <1>1, <1>2 DEF Depth
<1>4. Depth(t)' <= Depth(t) /\ Depth(t)' \in Nat
  BY <1>2, <1>3
<1>5. /\ \A i \in 1 .. Depth(t)' : stack'[t][i].method = stack[t][i].method
      /\ \A i \in 1 .. Depth(t)' - 1 : stack'[t][i].has = stack[t][i].has
  <2>1. \A i \in 1 .. Depth(t)' - 1 : i \in 1 .. Depth(t)'
    BY <1>4
  <2> QED
    BY <1>3, <2>1
<1>6. Depth(t) \in Nat /\ prog' = prog /\ dist' = dist
  BY <1>1, <1>2
<1>7. LinkedStack(t)' /\ CoveredStack(t)'
  BY <1>4, <1>5, <1>6, StackKept
<1> QED
  BY <1>1, <1>7, StackSame

LEMMA StackInit ==
  ASSUME Init
  PROVE  StackInv
<1>1. \A t \in Thread : Depth(t) = 0
  BY DEF Init, Depth
<1> QED
  BY <1>1, SolverInit DEF StackInv, LinkedStack, CoveredStack

LEMMA StackStep ==
  ASSUME StackInv, [Next]_vars
  PROVE  StackInv'
<1>0. SolverInv' /\ TypeOK
  BY SolverStep DEF StackInv, SolverInv
<1>1. CASE UNCHANGED vars
  BY <1>0, <1>1, StackSame DEF StackInv, vars
<1>2. CASE Solver
  <2>1. \A t \in Thread : stack'[t] = <<>>
    BY <1>2 DEF Solver, Visit, Finish, StackInv, SolverInv
  <2>2. \A t \in Thread : Depth(t)' = 0
    BY <2>1 DEF Depth
  <2>3. \A t \in Thread : LinkedStack(t)' /\ CoveredStack(t)'
    BY <2>2 DEF LinkedStack, CoveredStack
  <2> QED
    BY <1>0, <2>3 DEF StackInv
<1>3. ASSUME NEW t \in Thread, NEW m \in prog.entries, Enter(t, m) PROVE StackInv'
  BY <1>0, <1>3, StackEntered DEF StackInv
<1>4. ASSUME NEW t \in Thread, NEW c \in prog.calls, NEW m \in c.targets, Invoke(t, c, m)
      PROVE  StackInv'
  BY <1>0, <1>4, StackInvoked DEF StackInv
<1>5. ASSUME NEW t \in Thread, NEW s \in prog.spans, Acquire(t, s) PROVE StackInv'
  <2> DEFINE has == s.held \cup {s.lock}
  <2>1. has \in SUBSET Lock
    BY <1>0, SpanTypes DEF TypeOK
  <2>2. /\ stack[t] # <<>> /\ stack' = [stack EXCEPT ![t][Depth(t)].has = has]
        /\ prog' = prog /\ dist' = dist
    BY <1>5 DEF Acquire, StandsAt
  <2> HIDE DEF has
  <2> QED
    BY <1>0, <2>1, <2>2, StackRelocked DEF StackInv
<1>6. ASSUME NEW t \in Thread, NEW l \in Lock, Release(t, l) PROVE StackInv'
  <2> DEFINE has == Top(t).has \ {l}
  <2>1. has \in SUBSET Lock
    BY <1>0, <1>6, TopFrame DEF Release, Frames
  <2>2. /\ stack[t] # <<>> /\ stack' = [stack EXCEPT ![t][Depth(t)].has = has]
        /\ prog' = prog /\ dist' = dist
    BY <1>6 DEF Release
  <2> HIDE DEF has
  <2> QED
    BY <1>0, <2>1, <2>2, StackRelocked DEF StackInv
<1>7. ASSUME NEW t \in Thread, Return(t) PROVE StackInv'
  BY <1>0, <1>7, StackReturned DEF StackInv
<1> QED
  BY <1>1, <1>2, <1>3, <1>4, <1>5, <1>6, <1>7 DEF Next, Execution

THEOREM LockContextInvariant == Spec => []StackInv
BY StackInit, StackStep, PTL DEF Spec

\* No thread of any execution enters a method with a lock held within max_depth
\* frames that the index does not list there, at that distance or nearer.
THEOREM MayHeldSound == Spec => []MayHeldCoversStack
<1>1. StackInv => MayHeldCoversStack
  BY DEF StackInv, CoveredStack, MayHeldCoversStack
<1> QED
  BY <1>1, LockContextInvariant, PTL
\* A thread that waits in a remote entry with a lock held near enough stands at
\* a reported site, no farther than reported (lines 900-921).
THEOREM BinderSitesSound == Spec => []BinderSitesCoverStack
<1>1. StackInv => BinderSitesCoverStack
  <2>1. SUFFICES ASSUME StackInv, NEW t \in Thread,
                        NEW i \in 1 .. Depth(t), NEW j \in 1 .. Depth(t), i < j,
                        stack[t][j].method \in prog.binder,
                        j - 1 - i <= BinderDepth, j - 1 - i <= MaxDepth,
                        NEW l \in stack[t][i].has
                 PROVE  \E b \in BinderSites :
                          /\ b[1].caller = stack[t][j - 1].method
                          /\ stack[t][j].method \in b[1].targets
                          /\ b[2] = l /\ b[3] <= j - 1 - i
    BY DEF BinderSitesCoverStack
  <2>2. /\ Depth(t) \in Nat
        /\ j - 1 \in 1 .. Depth(t) - 1 /\ j - 1 \in 1 .. Depth(t) /\ (j - 1) + 1 = j
        /\ j - 1 - i \in Nat
    <3>1. stack[t] \in Seq(Frames)
      BY <2>1 DEF StackInv, SolverInv, TypeOK
    <3> QED
      BY <2>1, <3>1 DEF Depth
  <2>3. CallsTo(stack[t][j - 1], stack[t][(j - 1) + 1].method)
    BY <2>1, <2>2 DEF StackInv, LinkedStack
  <2>4. PICK c \in prog.calls : /\ c.caller = stack[t][j - 1].method
                                /\ c.held = stack[t][j - 1].has
                                /\ stack[t][j].method \in c.targets
    BY <2>2, <2>3 DEF CallsTo
  <2>5. c.targets \cap prog.binder # {}
    BY <2>1, <2>4
  <2>6. CASE l \in c.held
    <3>1. <<c, l, 0>> \in BinderSites
      BY <2>5, <2>6 DEF BinderSites
    <3> QED
      BY <2>2, <2>4, <3>1
  <2>7. CASE l \notin c.held
    <3>1. i < j - 1
      <4>1. i # j - 1
        BY <2>4, <2>7
      <4> QED
        BY <2>1, <2>2, <4>1
    <3>2. dist[c.caller][l] <= j - 1 - i
      BY <2>1, <2>2, <2>4, <3>1 DEF StackInv, CoveredStack
    <3>3. /\ prog \in Programs /\ c.caller \in Method /\ l \in Lock
          /\ dist[c.caller][l] \in 1 .. Far
      <4>1. stack[t][i] \in Frames
        BY <2>1, <2>2 DEF StackInv, SolverInv, TypeOK, Depth
      <4> QED
        BY <2>1, <4>1, CallTypes DEF StackInv, SolverInv, TypeOK, Frames
    <3>4. dist[c.caller][l] <= MaxDepth /\ dist[c.caller][l] <= BinderDepth
      BY <2>1, <2>2, <3>2, <3>3, FarIsFar, DepthAssumption
    <3>5. l \in MayHeld(c.caller)
      BY <3>3, <3>4, FarIsFar DEF MayHeld
    <3>6. <<c, l, dist[c.caller][l]>> \in BinderSites
      BY <2>5, <2>7, <3>4, <3>5 DEF BinderSites
    <3> QED
      BY <2>4, <3>2, <3>6
  <2> QED
    BY <2>6, <2>7
<1> QED
  BY <1>1, LockContextInvariant, PTL

-----------------------------------------------------------------------------
(***************************************************************************)
(* The order graph.                                                        *)
(***************************************************************************)

\* Of the sites alike to one there is a nearest, and it is kept.
LEMMA NearestIsKept ==
  ASSUME SolverInv, NEW e \in Sites
  PROVE  \E f \in Order : f.from = e.from /\ f.to = e.to
<1> DEFINE D == {f.dist : f \in Alike(e)}
<1>1. \A f \in Sites : f.dist \in Nat
  <2>1. SUFFICES ASSUME NEW s \in prog.spans, NEW y \in Froms(s) PROVE y[2] \in Nat
    BY DEF Sites
  <2>2. s.method \in Method /\ s.held \subseteq Lock
    BY SpanTypes DEF SolverInv, TypeOK
  <2>3. \A l \in Lock : dist[s.method][l] \in Nat
    BY <2>2, FarIsFar DEF SolverInv, TypeOK
  <2> QED
    BY <2>3 DEF Froms, MayHeld
<1>2. D \subseteq Nat /\ D # {}
  BY <1>1 DEF Alike
<1>3. Min(D) \in D /\ \A d \in D : Min(D) <= d
  BY <1>2, LeastIsLeast
<1>4. PICK f \in Alike(e) : f.dist = Min(D)
  BY <1>3
<1>5. f \in Order
  BY <1>3, <1>4 DEF Order, Alike
<1> QED
  BY <1>4, <1>5 DEF Alike

\* A thread at an acquisition, with another lock taken near enough, stands at an
\* edge of the graph.
LEMMA StandIsEdge ==
  ASSUME StackInv, NEW t \in Thread, NEW s \in prog.spans, NEW l \in Lock,
         StandsAt(t, s), TookNear(t, l), ~ Retaken(s), l # s.lock
  PROVE  \E e \in Order : e.from = l /\ e.to = s.lock
<1>1. PICK i \in 1 .. Depth(t) :
        l \in stack[t][i].has /\ Depth(t) - i <= OrderDepth /\ Depth(t) - i <= MaxDepth
  BY DEF TookNear
<1>2. Depth(t) \in Nat \ {0} /\ Top(t) = stack[t][Depth(t)]
  BY TopFrame DEF StandsAt, StackInv, SolverInv
<1>3. s.method \in Method /\ dist[s.method][l] \in 1 .. Far
  BY SpanTypes DEF StackInv, SolverInv, TypeOK
<1>4. \E y \in Froms(s) : y[1] = l
  <2>1. CASE i = Depth(t)
    <3>1. l \in s.held
      BY <1>1, <1>2, <2>1 DEF StandsAt
    <3>2. <<l, 0>> \in Froms(s)
      BY <3>1 DEF Froms
    <3> QED
      BY <3>2
  <2>2. CASE i < Depth(t)
    <3>1. dist[s.method][l] <= Depth(t) - i
      BY <1>1, <1>2, <2>2 DEF StandsAt, StackInv, CoveredStack
    <3>2. dist[s.method][l] <= OrderDepth /\ dist[s.method][l] <= MaxDepth
      BY <1>1, <1>2, <1>3, <3>1, FarIsFar, DepthAssumption
    <3>3. l \in MayHeld(s.method)
      BY <1>3, <3>2, FarIsFar DEF MayHeld
    <3>4. <<l, dist[s.method][l]>> \in Froms(s)
      BY <3>2, <3>3 DEF Froms
    <3> QED
      BY <3>4
  <2> QED
    BY <1>1, <1>2, <2>1, <2>2
<1>5. PICK y \in Froms(s) : y[1] = l
  BY <1>4
<1>6. [from |-> y[1], to |-> s.lock, method |-> s.method, line |-> s.enter, dist |-> y[2]] \in Sites
  BY <1>5 DEF Sites
<1> QED
  BY <1>5, <1>6, NearestIsKept DEF StackInv

\* A set that holds one lock of a row of edges holds those after it.
LEMMA ClosedRow ==
  ASSUME NEW n \in Nat, NEW row, NEW some, Closed(some),
         \A k \in 1 .. n - 1 : \E e \in Order : e.from = row[k] /\ e.to = row[k + 1],
         NEW a \in 1 .. n, row[a] \in some
  PROVE  \A k \in a .. n : row[k] \in some
<1> DEFINE Out == {k \in a .. n : row[k] \notin some}
<1>1. SUFFICES ASSUME Out # {} PROVE FALSE
  OBVIOUS
<1>2. Out \subseteq Nat
  OBVIOUS
<1>3. PICK k \in Out : \A y \in Out : k <= y
  BY <1>1, <1>2, LeastExists
<1>4. k \in a + 1 .. n
  <2>1. k # a
    BY <1>3
  <2> QED
    BY <1>3, <2>1
<1>5. k - 1 \in a .. n /\ k - 1 \in 1 .. n - 1 /\ (k - 1) + 1 = k
  BY <1>4
<1>6. row[k - 1] \in some
  <2>1. k - 1 \notin Out
    BY <1>3, <1>4
  <2> QED
    BY <1>5, <2>1
<1>7. row[k] \in some
  BY <1>5, <1>6 DEF Closed
<1> QED
  BY <1>3, <1>7

\* Locks in a ring of edges are in one cycle.
LEMMA RingIsCycle ==
  ASSUME NEW n \in Nat, n >= 2, NEW row, \A i \in 1 .. n : row[i] \in Lock,
         \A i \in 1 .. n : \E e \in Order : e.from = row[i] /\ e.to = row[Following(i, n)],
         row[1] # row[2]
  PROVE  \E c \in Cycles : \A i \in 1 .. n : row[i] \in c
<1>1. \A k \in 1 .. n - 1 : \E e \in Order : e.from = row[k] /\ e.to = row[k + 1]
  <2>1. SUFFICES ASSUME NEW k \in 1 .. n - 1
                 PROVE  \E e \in Order : e.from = row[k] /\ e.to = row[k + 1]
    OBVIOUS
  <2>2. k \in 1 .. n /\ Following(k, n) = k + 1
    BY DEF Following
  <2> QED
    BY <2>2
<1>2. \E e \in Order : e.from = row[n] /\ e.to = row[1]
  <2>1. n \in 1 .. n /\ Following(n, n) = 1
    BY DEF Following
  <2> QED
    BY <2>1
<1>3. \A i, j \in 1 .. n : Leads(row[i], row[j])
  <2>1. SUFFICES ASSUME NEW i \in 1 .. n, NEW j \in 1 .. n,
                        NEW some \in SUBSET Lock, row[i] \in some, Closed(some)
                 PROVE  row[j] \in some
    BY DEF Leads
  <2>2. row[n] \in some
    <3>1. \A k \in i .. n : row[k] \in some
      BY <1>1, <2>1, ClosedRow
    <3> QED
      BY <3>1
  <2>3. row[1] \in some
    BY <1>2, <2>1, <2>2 DEF Closed
  <2>4. \A k \in 1 .. n : row[k] \in some
    <3>1. 1 \in 1 .. n
      OBVIOUS
    <3> QED
      BY <1>1, <2>1, <2>3, <3>1, ClosedRow
  <2> QED
    BY <2>4
<1>4. \A i \in 1 .. n : row[i] \in Component(row[1])
  <2>1. 1 \in 1 .. n
    OBVIOUS
  <2> QED
    BY <1>3, <2>1 DEF Component
<1>5. Component(row[1]) \in Cycles
  <2>1. 1 \in 1 .. n /\ 2 \in 1 .. n
    OBVIOUS
  <2> QED
    BY <1>4, <2>1 DEF Cycles
<1> QED
  BY <1>4, <1>5

\* Threads of any execution that wait for each other in a ring, of any length, are
\* foretold by a cycle of the order graph, and two by a pair of edges (lines
\* 652-683, 806-898).
THEOREM DeadlocksForetold == Spec => []DeadlockIsForetold
<1>1. StackInv => DeadlockIsForetold
  <2>1. SUFFICES ASSUME StackInv, NEW n \in 2 .. Cardinality(Thread),
                        NEW ring \in [1 .. n -> Waiters], IsRing(ring, n)
                 PROVE  /\ \E c \in Cycles : \A i \in 1 .. n : ring[i][2].lock \in c
                        /\ n = 2 => \E p \in Inversions :
                                     p[1].from = ring[2][2].lock /\ p[1].to = ring[1][2].lock
    BY DEF DeadlockIsForetold
  <2> DEFINE row == [i \in 1 .. n |-> ring[i][2].lock]
  <2>2. n \in Nat /\ n >= 2
    OBVIOUS
  <2>3. \A i \in 1 .. n : /\ Following(i, n) \in 1 .. n
                          /\ ring[i][1] \in Thread /\ ring[i][2] \in prog.spans
                          /\ StandsAt(ring[i][1], ring[i][2])
                          /\ row[i] = ring[i][2].lock /\ row[i] \in Lock
    <3>1. SUFFICES ASSUME NEW i \in 1 .. n
                   PROVE  /\ Following(i, n) \in 1 .. n
                          /\ ring[i][1] \in Thread /\ ring[i][2] \in prog.spans
                          /\ StandsAt(ring[i][1], ring[i][2])
                          /\ row[i] = ring[i][2].lock /\ row[i] \in Lock
      OBVIOUS
    <3>2. Following(i, n) \in 1 .. n
      BY <2>2 DEF Following
    <3>3. /\ ring[i][1] \in Thread /\ ring[i][2] \in prog.spans
          /\ StandsAt(ring[i][1], ring[i][2])
      <4>1. ring[i] \in Waiters
        OBVIOUS
      <4> QED
        BY <4>1 DEF Waiters
    <3>4. ring[i][2].lock \in Lock
      BY <2>1, <3>3, SpanTypes DEF StackInv, SolverInv, TypeOK
    <3> QED
      BY <3>2, <3>3, <3>4
  <2>4. \A i \in 1 .. n : row[i] # row[Following(i, n)]
    <3>1. SUFFICES ASSUME NEW i \in 1 .. n PROVE row[i] # row[Following(i, n)]
      OBVIOUS
    <3>2. Owns(ring[Following(i, n)][1], ring[i][2].lock)
      BY <2>1 DEF IsRing, Waits
    <3>3. ~ Owns(ring[Following(i, n)][1], ring[Following(i, n)][2].lock)
      BY <2>1, <2>3 DEF IsRing, Waits
    <3> QED
      BY <2>3, <3>2, <3>3
  <2>5. \A i \in 1 .. n : \E e \in Order : e.from = row[i] /\ e.to = row[Following(i, n)]
    <3>1. SUFFICES ASSUME NEW i \in 1 .. n
                   PROVE  \E e \in Order : e.from = row[i] /\ e.to = row[Following(i, n)]
      OBVIOUS
    <3>2. TookNear(ring[Following(i, n)][1], ring[i][2].lock) /\ ~ Retaken(ring[Following(i, n)][2])
      BY <2>1, <2>3 DEF IsRing
    <3>3. ring[i][2].lock # ring[Following(i, n)][2].lock
      BY <2>3, <2>4
    <3> DEFINE l == ring[i][2].lock
               u == ring[Following(i, n)][1]
               r == ring[Following(i, n)][2]
    <3>4. /\ l \in Lock /\ u \in Thread /\ r \in prog.spans /\ StandsAt(u, r)
          /\ row[i] = l /\ row[Following(i, n)] = r.lock
      BY <2>3
    <3>5. TookNear(u, l) /\ ~ Retaken(r) /\ l # r.lock
      BY <3>2, <3>3
    <3> HIDE DEF row, l, u, r
    <3>6. \E e \in Order : e.from = l /\ e.to = r.lock
      BY <2>1, <3>4, <3>5, StandIsEdge
    <3> QED
      BY <3>4, <3>6
  <2> HIDE DEF row
  <2>6. \E c \in Cycles : \A i \in 1 .. n : row[i] \in c
    <3>1. row[1] # row[2]
      <4>1. 1 \in 1 .. n /\ Following(1, n) = 2
        BY <2>2 DEF Following
      <4> QED
        BY <2>4, <4>1
    <3> QED
      BY <2>2, <2>3, <2>5, <3>1, RingIsCycle
  <2>7. ASSUME n = 2
        PROVE  \E p \in Inversions : p[1].from = row[2] /\ p[1].to = row[1]
    <3>1. /\ 1 \in 1 .. n /\ Following(1, n) = 2
          /\ 2 \in 1 .. n /\ Following(2, n) = 1
      BY <2>7 DEF Following
    <3>2. PICK e \in Order : e.from = row[2] /\ e.to = row[1]
      BY <2>5, <3>1
    <3>3. PICK f \in Order : f.from = row[1] /\ f.to = row[2]
      BY <2>5, <3>1
    <3>4. <<e, f>> \in Inversions
      BY <3>2, <3>3 DEF Inversions
    <3> QED
      BY <3>2, <3>4
  <2>8. \E c \in Cycles : \A i \in 1 .. n : ring[i][2].lock \in c
    BY <2>3, <2>6
  <2>9. n = 2 => row[1] = ring[1][2].lock /\ row[2] = ring[2][2].lock
    <3>1. n = 2 => 1 \in 1 .. n /\ 2 \in 1 .. n
      OBVIOUS
    <3> QED
      BY <2>3, <3>1
  <2> QED
    BY <2>7, <2>8, <2>9
<1> QED
  BY <1>1, LockContextInvariant, PTL
-----------------------------------------------------------------------------
(***************************************************************************)
(* Distances and call chains.  The distances that solve the equations are  *)
(* the lengths of the shortest chains, by induction on the length.         *)
(***************************************************************************)
Reached(l, some) == UNION {c.targets : c \in {d \in prog.calls : l \in d.held \/ d.caller \in some}}

\* One more call: where the chains of k calls lead to, given where those of k - 1 do.
LEMMA WithinSteps ==
  ASSUME prog \in Programs, NEW l \in Lock
  PROVE  \E f \in [0 .. MaxDepth -> SUBSET Method] :
           /\ f[0] = {}
           /\ \A k \in 1 .. MaxDepth : f[k] = Reached(l, f[k - 1]) /\ Within(l, k) = f[k]
<1> DEFINE S == SUBSET Method
<1>1. \A some : Reached(l, some) \in S
  BY CallTypes DEF Reached
<1>2. {} \in S
  OBVIOUS
<1>3. PICK f \in [0 .. MaxDepth -> S] : f[0] = {} /\ \A k \in 1 .. MaxDepth : f[k] = Reached(l, f[k - 1])
  <2> DEFINE step == [k \in 1 .. MaxDepth |-> [some \in S |-> Reached(l, some)]]
  <2> HIDE DEF S
  <2>1. Steps(step, S, 0, MaxDepth)
    BY <1>1 DEF Steps
  <2>2. ASSUME NEW g \in [0 .. MaxDepth -> S], NEW k \in 1 .. MaxDepth
        PROVE  step[k][g[k - 1]] = Reached(l, g[k - 1])
    <3>1. g[k - 1] \in S
      BY FarIsFar
    <3> QED
      BY <3>1
  <2> HIDE DEF step
  <2>3. PICK g : Trace(g, step, S, 0, MaxDepth, {})
    <3>1. 0 \in Nat /\ MaxDepth \in Nat /\ 0 <= MaxDepth
      BY FarIsFar
    <3> QED
      BY <1>2, <2>1, <3>1, IterationExists
  <2>4. g \in [0 .. MaxDepth -> S] /\ g[0] = {} /\ \A k \in 1 .. MaxDepth : g[k] = step[k][g[k - 1]]
    BY <2>3 DEF Trace
  <2> QED
    BY <2>2, <2>4
<1> HIDE DEF S
<1>4. ASSUME NEW k \in 1 .. MaxDepth PROVE Within(l, k) = f[k]
  <2> DEFINE Fits(g) ==
               g = [j \in 1 .. k |->
                      UNION {c.targets : c \in {d \in prog.calls : l \in d.held \/ (j > 1 /\ d.caller \in g[j - 1])}}]
             reach == CHOOSE g : Fits(g)
             h == [j \in 1 .. k |-> f[j]]
             Good == {j \in 1 .. k : reach[j] = f[j]}
  <2>1. ASSUME NEW g, NEW j \in 1 .. k, j > 1 => g[j - 1] = f[j - 1]
        PROVE  UNION {c.targets : c \in {d \in prog.calls : l \in d.held \/ (j > 1 /\ d.caller \in g[j - 1])}} = f[j]
    <3>1. f[j] = Reached(l, f[j - 1])
      BY <1>3, FarIsFar
    <3>2. {d \in prog.calls : l \in d.held \/ (j > 1 /\ d.caller \in g[j - 1])}
            = {d \in prog.calls : l \in d.held \/ d.caller \in f[j - 1]}
      <4>1. CASE j > 1
        BY <2>1, <4>1
      <4>2. CASE ~ (j > 1)
        <5>1. j - 1 = 0
          BY <4>2
        <5> QED
          BY <4>2, <5>1, <1>3
      <4> QED
        BY <4>1, <4>2
    <3> QED
      BY <3>1, <3>2 DEF Reached
  <2>2. Fits(h)
    <3>1. \A j \in 1 .. k : j > 1 => h[j - 1] = f[j - 1]
      OBVIOUS
    <3> HIDE DEF h
    <3>2. \A j \in 1 .. k :
            UNION {c.targets : c \in {d \in prog.calls : l \in d.held \/ (j > 1 /\ d.caller \in h[j - 1])}} = f[j]
      BY <2>1, <3>1
    <3> QED
      BY <3>2 DEF h
  <2>3. Fits(reach)
    <3> HIDE DEF Fits
    <3> QED
      BY <2>2
  <2>4. Within(l, k) = reach[k]
    BY DEF Within
  <2> HIDE DEF reach
  <2>5. ASSUME NEW j \in 1 .. k, j > 1 => reach[j - 1] = f[j - 1] PROVE reach[j] = f[j]
    BY <2>1, <2>3, <2>5, ZenonT(30)
  <2> HIDE DEF Fits, h
  <2>6. 1 \in Good
    BY <2>5
  <2>7. \A j \in Good : j \in 1 .. k - 1 => j + 1 \in Good
    <3>1. SUFFICES ASSUME NEW j \in Good, j \in 1 .. k - 1 PROVE reach[j + 1] = f[j + 1]
      OBVIOUS
    <3>2. j + 1 \in 1 .. k /\ (j + 1) - 1 = j /\ reach[j] = f[j]
      BY <3>1
    <3> QED
      BY <2>5, <3>2
  <2>8. 1 \in Nat /\ k \in Nat /\ k \in 1 .. k
    BY FarIsFar
  <2> HIDE DEF Good
  <2>9. 1 .. k \subseteq Good
    BY <2>6, <2>7, <2>8, IntervalInduction
  <2> QED
    BY <2>4, <2>8, <2>9 DEF Good
<1> QED
  BY <1>3, <1>4 DEF S

\* A lock is k calls away or nearer if it is held at a call, or nearer to its caller.
LEMMA CallBrings ==
  ASSUME SolverInv, phase = "done", NEW l \in Lock, NEW m \in Method, NEW k \in 1 .. MaxDepth
  PROVE  dist[m][l] <= k <=> \E c \in Incoming(m) : l \in c.held \/ dist[c.caller][l] <= k - 1
<1>1. dist \in Distances /\ prog \in Programs /\ dist[m][l] = Nearest(m, l, dist)
  BY DEF SolverInv, TypeOK, Distances, CallersUnchanged, Acc
<1>2. \A c \in Incoming(m) : dist[c.caller][l] \in 1 .. Far /\ Offer(c, l, dist) \in 1 .. Far
  BY <1>1, CallTypes, OfferType DEF Incoming, Distances
<1>3. dist[m][l] \in 1 .. Far /\ k < Far
  BY <1>1, FarIsFar DEF Distances
<1>4. ASSUME dist[m][l] <= k
      PROVE  \E c \in Incoming(m) : l \in c.held \/ dist[c.caller][l] <= k - 1
  <2>1. dist[m][l] # Far
    BY <1>3, <1>4, FarIsFar
  <2>2. PICK c \in Incoming(m) : dist[m][l] = Offer(c, l, dist)
    BY <1>1, <2>1, NearestIsOffer DEF Offers
  <2> QED
    BY <1>2, <1>3, <1>4, <2>1, <2>2, FarIsFar DEF Offer
<1>5. ASSUME NEW c \in Incoming(m), l \in c.held \/ dist[c.caller][l] <= k - 1
      PROVE  dist[m][l] <= k
  <2>1. Offer(c, l, dist) <= k
    BY <1>2, <1>3, <1>5, FarIsFar DEF Offer
  <2>2. dist[m][l] <= Offer(c, l, dist)
    BY <1>1, NearestIsOffer
  <2> QED
    BY <1>2, <1>3, <2>1, <2>2, FarIsFar
<1> QED
  BY <1>4, <1>5

\* The distance of a lock is "the fewest call frames between a frame holding lock l
\* and entry to m" (lines 27-30): within max_depth it is the length of the
\* shortest call chain from a call that holds the lock, whatever order the
\* methods were visited in and however the calls go round.
THEOREM DistancesAreShortest == Spec => []DistIsShortest
<1>1. SolverInv => DistIsShortest
  <2>1. SUFFICES ASSUME SolverInv, phase = "done", NEW l \in Lock
                 PROVE  \A k \in 1 .. MaxDepth : \A m \in Method : dist[m][l] <= k <=> m \in Within(l, k)
    BY DEF DistIsShortest
  <2>2. PICK f \in [0 .. MaxDepth -> SUBSET Method] :
          /\ f[0] = {}
          /\ \A k \in 1 .. MaxDepth : f[k] = Reached(l, f[k - 1]) /\ Within(l, k) = f[k]
    BY <2>1, WithinSteps DEF SolverInv, TypeOK
  <2> DEFINE Exact(k) == \A m \in Method : dist[m][l] <= k <=> m \in f[k]
             Good == {k \in 0 .. MaxDepth : Exact(k)}
  <2>3. dist \in Distances /\ prog \in Programs /\ \A m \in Method : dist[m][l] \in 1 .. Far
    BY <2>1 DEF SolverInv, TypeOK, Distances
  <2>4. Exact(0)
    BY <2>2, <2>3, FarIsFar
  <2>5. ASSUME NEW k \in 1 .. MaxDepth, Exact(k - 1) PROVE Exact(k)
    <3>1. SUFFICES ASSUME NEW m \in Method PROVE dist[m][l] <= k <=> m \in Reached(l, f[k - 1])
      BY <2>2
    <3>2. m \in Reached(l, f[k - 1]) <=> \E c \in Incoming(m) : l \in c.held \/ c.caller \in f[k - 1]
      BY DEF Reached, Incoming
    <3>3. \A c \in Incoming(m) : c.caller \in f[k - 1] <=> dist[c.caller][l] <= k - 1
      BY <2>3, <2>5, CallTypes DEF Incoming
    <3>4. dist[m][l] <= k <=> \E c \in Incoming(m) : l \in c.held \/ dist[c.caller][l] <= k - 1
      BY <2>1, CallBrings
    <3> QED
      BY <3>2, <3>3, <3>4
  <2> HIDE DEF Exact
  <2>6. 0 \in Good /\ \A k \in Good : k \in 0 .. MaxDepth - 1 => k + 1 \in Good
    <3>1. 0 \in Good
      BY <2>4, FarIsFar
    <3>2. ASSUME NEW k \in Good, k \in 0 .. MaxDepth - 1 PROVE k + 1 \in Good
      <4>1. k + 1 \in 1 .. MaxDepth /\ (k + 1) - 1 = k /\ Exact(k)
        BY <3>2, FarIsFar
      <4>2. Exact(k + 1)
        BY <2>5, <4>1
      <4> QED
        BY <4>1, <4>2
    <3> QED
      BY <3>1, <3>2
  <2> HIDE DEF Good
  <2>7. 0 .. MaxDepth \subseteq Good
    BY <2>6, FarIsFar, IntervalInduction
  <2>8. \A k \in 1 .. MaxDepth : Exact(k) /\ Within(l, k) = f[k]
    BY <2>2, <2>7, FarIsFar DEF Good
  <2> QED
    BY <2>8 DEF Exact
<1> QED
  BY <1>1, SolverCorrect, PTL
-----------------------------------------------------------------------------
(***************************************************************************)
(* Gates.  A lock belongs to one thread, so threads that both hold a third *)
(* lock do not wait for each other.                                        *)
(***************************************************************************)
Exclusive == \A t, u \in Thread : \A l \in Lock : Owns(t, l) /\ Owns(u, l) => t = u

\* What a thread owns is what its frames have; it owns less after a step that gives its
\* frames nothing.
LEMMA OwnsLess ==
  ASSUME NEW t \in Thread, NEW l, Depth(t)' <= Depth(t), Depth(t) \in Nat, Depth(t)' \in Nat,
         \A i \in 1 .. Depth(t)' : stack'[t][i].has \subseteq stack[t][i].has,
         Owns(t, l)'
  PROVE  Owns(t, l)
<1>1. PICK i \in 1 .. Depth(t)' : l \in stack'[t][i].has
  BY DEF Owns
<1>2. i \in 1 .. Depth(t) /\ l \in stack[t][i].has
  BY <1>1
<1> QED
  BY <1>2 DEF Owns

LEMMA ExclusiveStep ==
  ASSUME TypeOK, Exclusive, [Next]_vars
  PROVE  Exclusive'
<1>1. CASE UNCHANGED stack
  BY <1>1 DEF Exclusive, Owns, Depth
<1>2. ASSUME NEW t \in Thread, \A u \in Thread \ {t} : stack'[u] = stack[u],
             \A l \in Lock : Owns(t, l)' => Owns(t, l) \/ ~ TakenByOther(t, l)
      PROVE  Exclusive'
  <2>1. \A u \in Thread \ {t} : \A l \in Lock : Owns(u, l)' = Owns(u, l)
    BY <1>2 DEF Owns, Depth
  <2>2. SUFFICES ASSUME NEW l \in Lock, NEW a \in Thread, NEW b \in Thread, Owns(a, l)', Owns(b, l)'
                 PROVE  a = b
    BY DEF Exclusive
  <2>3. CASE a # t /\ b # t
    BY <2>1, <2>2, <2>3 DEF Exclusive
  <2>4. ASSUME NEW u \in Thread, u # t, Owns(t, l)', Owns(u, l)' PROVE FALSE
    <3>1. Owns(u, l)
      BY <2>1, <2>4
    <3>2. TakenByOther(t, l)
      BY <2>4, <3>1 DEF TakenByOther
    <3> QED
      BY <1>2, <2>4, <3>1, <3>2 DEF Exclusive
  <2> QED
    BY <2>2, <2>3, <2>4
<1>3. ASSUME NEW t \in Thread, NEW m \in prog.entries, Enter(t, m) PROVE Exclusive'
  <2>1. stack' = [stack EXCEPT ![t] = <<Frame(m)>>]
    BY <1>3 DEF Enter
  <2>2. stack'[t] = <<Frame(m)>> /\ \A u \in Thread \ {t} : stack'[u] = stack[u]
    BY <2>1 DEF TypeOK
  <2>3. \A l \in Lock : ~ Owns(t, l)'
    BY <2>2 DEF Owns, Depth, Frame
  <2> QED
    BY <1>2, <2>2, <2>3
<1>4. ASSUME NEW t \in Thread, NEW c \in prog.calls, NEW m \in c.targets, Invoke(t, c, m) PROVE Exclusive'
  <2>1. stack' = [stack EXCEPT ![t] = Append(stack[t], Frame(m))] /\ stack[t] \in Seq(Frames)
    BY <1>4 DEF Invoke, TypeOK
  <2>2. stack'[t] = Append(stack[t], Frame(m)) /\ \A u \in Thread \ {t} : stack'[u] = stack[u]
    BY <2>1 DEF TypeOK
  <2>3. /\ Depth(t)' = Depth(t) + 1 /\ Depth(t) \in Nat
        /\ \A i \in 1 .. Depth(t) : stack'[t][i] = stack[t][i]
        /\ stack'[t][Depth(t) + 1].has = {}
    BY <2>1, <2>2 DEF Depth, Frame
  <2>4. ASSUME NEW l \in Lock, Owns(t, l)' PROVE Owns(t, l)
    <3>1. PICK i \in 1 .. Depth(t) + 1 : l \in stack'[t][i].has
      BY <2>3, <2>4 DEF Owns
    <3>2. i \in 1 .. Depth(t)
      BY <2>3, <3>1
    <3> QED
      BY <2>3, <3>1, <3>2 DEF Owns
  <2> QED
    BY <1>2, <2>2, <2>4
<1>5. ASSUME NEW t \in Thread, stack[t] # <<>>, NEW has \in SUBSET Lock,
             stack' = [stack EXCEPT ![t][Depth(t)].has = has],
             \A l \in has : l \in Top(t).has \/ ~ TakenByOther(t, l)
      PROVE  Exclusive'
  <2>1. /\ \A u \in Thread \ {t} : stack'[u] = stack[u]
        /\ stack'[t] = [stack[t] EXCEPT ![Depth(t)] = [Top(t) EXCEPT !.has = has]]
        /\ Depth(t)' = Depth(t)
    BY <1>5, RelockedType DEF Depth
  <2>2. /\ Depth(t) \in Nat \ {0} /\ stack[t] \in Seq(Frames)
        /\ Top(t) = stack[t][Depth(t)] /\ Top(t) \in Frames
    BY <1>5, TopFrame
  <2>3. /\ DOMAIN stack[t] = 1 .. Depth(t)
        /\ stack'[t][Depth(t)].has = has
        /\ \A i \in 1 .. Depth(t) - 1 : stack'[t][i] = stack[t][i]
    <3>1. DOMAIN stack[t] = 1 .. Depth(t)
      BY <2>2 DEF Depth
    <3>2. [Top(t) EXCEPT !.has = has].has = has
      BY <2>2 DEF Frames
    <3> QED
      BY <2>1, <2>2, <3>1, <3>2
  <2>4. ASSUME NEW l \in Lock, Owns(t, l)' PROVE Owns(t, l) \/ ~ TakenByOther(t, l)
    <3>1. PICK i \in 1 .. Depth(t) : l \in stack'[t][i].has
      BY <2>1, <2>4 DEF Owns
    <3>2. CASE i = Depth(t)
      BY <1>5, <2>2, <2>3, <3>1, <3>2 DEF Owns
    <3>3. CASE i # Depth(t)
      BY <2>2, <2>3, <3>1, <3>3 DEF Owns
    <3> QED
      BY <3>2, <3>3
  <2> QED
    BY <1>2, <2>1, <2>4
<1>6. ASSUME NEW t \in Thread, NEW s \in prog.spans, Acquire(t, s) PROVE Exclusive'
  <2> DEFINE has == s.held \cup {s.lock}
  <2>1. has \in SUBSET Lock
    BY SpanTypes DEF TypeOK
  <2>2. stack[t] # <<>> /\ stack' = [stack EXCEPT ![t][Depth(t)].has = has]
    BY <1>6 DEF Acquire, StandsAt
  <2>3. \A l \in has : l \in Top(t).has \/ ~ TakenByOther(t, l)
    BY <1>6 DEF Acquire, StandsAt
  <2> HIDE DEF has
  <2> QED
    BY <1>5, <2>1, <2>2, <2>3
<1>7. ASSUME NEW t \in Thread, NEW l \in Lock, Release(t, l) PROVE Exclusive'
  <2> DEFINE has == Top(t).has \ {l}
  <2>1. has \in SUBSET Lock /\ \A k \in has : k \in Top(t).has
    BY <1>7, TopFrame DEF Release, Frames
  <2>2. stack[t] # <<>> /\ stack' = [stack EXCEPT ![t][Depth(t)].has = has]
    BY <1>7 DEF Release
  <2> HIDE DEF has
  <2> QED
    BY <1>5, <2>1, <2>2
<1>8. ASSUME NEW t \in Thread, Return(t) PROVE Exclusive'
  <2>1. stack' = [stack EXCEPT ![t] = SubSeq(stack[t], 1, Depth(t) - 1)]
    BY <1>8 DEF Return
  <2>2. stack'[t] = SubSeq(stack[t], 1, Depth(t) - 1) /\ \A u \in Thread \ {t} : stack'[u] = stack[u]
    BY <2>1 DEF TypeOK
  <2>3. Depth(t) \in Nat \ {0} /\ stack[t] \in Seq(Frames)
    BY <1>8, TopFrame DEF Return
  <2>4. Depth(t)' = Depth(t) - 1 /\ \A i \in 1 .. Depth(t) - 1 : stack'[t][i] = stack[t][i]
    BY <2>2, <2>3 DEF Depth
  <2>5. \A l \in Lock : Owns(t, l)' => Owns(t, l)
    BY <2>3, <2>4, OwnsLess
  <2> QED
    BY <1>2, <2>2, <2>5
<1>9. CASE Solver
  BY <1>1, <1>9 DEF Solver, Visit, Finish
<1> QED
  BY <1>1, <1>3, <1>4, <1>6, <1>7, <1>8, <1>9 DEF Next, Execution, vars

\* A lock belongs to one thread at a time.
LEMMA LocksAreExclusive == Spec => []Exclusive
<1>1. Init => Exclusive
  BY DEF Init, Exclusive, Owns, Depth
<1> QED
  BY <1>1, ExclusiveStep, TypeCorrect, PTL DEF Spec

\* The spans of a method tell which locks it has where it takes another: a span that
\* covers the line of an acquisition is of a lock held there, or of the one taken.
LinesTell(p) ==
  \A s, q \in p.spans :
    q.method = s.method /\ q.enter <= s.enter /\ s.enter < q.exit => q.lock \in s.held \cup {s.lock}

\* In a program whose spans tell the locks held, no two threads wait for each other at
\* the sites of an inversion with a gate that both methods take themselves (lines
\* 875-876).
THEOREM OwnGatesSerialize == Spec => [](LinesTell(prog) => OwnGateIsBenign)
<1>1. Exclusive /\ TypeOK => (LinesTell(prog) => OwnGateIsBenign)
  <2>1. SUFFICES ASSUME Exclusive, TypeOK, LinesTell(prog),
                        NEW t \in Thread, NEW u \in Thread, NEW s \in prog.spans, NEW r \in prog.spans,
                        Deadlocked(t, s, u, r), NEW p \in Pairs(r.lock, s.lock),
                        IsSiteOf(p[1], s), IsSiteOf(p[2], r),
                        NEW g \in Gates(p[1], p[2]), TakesGate(p[1], g), TakesGate(p[2], g)
                 PROVE  FALSE
    BY DEF OwnGateIsBenign
  <2>2. g # s.lock /\ g # r.lock
    BY <2>1 DEF Gates, Pairs, Inversions
  <2>3. g \in s.held /\ g \in r.held
    BY <2>1, <2>2 DEF TakesGate, IsSiteOf, IntraHeld, LinesTell
  <2>4. g \in Lock
    BY <2>1, <2>3, SpanTypes DEF TypeOK
  <2>5. Owns(t, g)
    <3>1. stack[t] # <<>> /\ Top(t).has = s.held
      BY <2>1 DEF Deadlocked, Waits, StandsAt
    <3> QED
      BY <2>1, <2>3, <3>1, TopFrame DEF Owns
  <2>6. Owns(u, g)
    <3>1. stack[u] # <<>> /\ Top(u).has = r.held
      BY <2>1 DEF Deadlocked, Waits, StandsAt
    <3> QED
      BY <2>1, <2>3, <3>1, TopFrame DEF Owns
  <2>7. t # u
    BY <2>1 DEF Deadlocked, Waits
  <2> QED
    BY <2>1, <2>4, <2>5, <2>6, <2>7 DEF Exclusive
<1> QED
  BY <1>1, LocksAreExclusive, TypeCorrect, PTL

-----------------------------------------------------------------------------
(***************************************************************************)
(* The reporter runs the index.                                            *)
(***************************************************************************)

LEMMA RaceStepIsIndexStep == [RaceNext]_raceVars => [Next]_vars
BY DEF RaceNext, raceVars, Next, Spread, Round, Settle

\* The reporter implements the lock-context index (race.rs lines 114-117).
THEOREM RaceRunsTheIndex == RaceSpec => Spec
<1>1. RaceInit => Init
  BY DEF RaceInit
<1> QED
  BY <1>1, RaceStepIsIndexStep, PTL DEF RaceSpec, Spec

-----------------------------------------------------------------------------
(***************************************************************************)
(* The invariant.  The entry sets never claim more than one more round     *)
(* would; the methods seen are closed under calls, but for the frontier.   *)
(***************************************************************************)
EntrySupported ==
  \A m \in Method : \A l \in entry[m] :
    /\ m \in Inferable /\ Incoming(m) # {}
    /\ \A c \in Incoming(m) : l \in HeldAtCall(c)

SeenClosed == \A m \in seen \ frontier : Callees(m) \subseteq seen

RaceInv ==
  /\ RaceTypeOK
  /\ EntrySupported
  /\ Roots \subseteq seen /\ SeenClosed
  /\ ~ Ready => \A t \in Thread : stack[t] = <<>>
  /\ EntryHeldIsHeld
  /\ ConcurrentCoversRoots

LEMMA InferableMethods == Inferable \subseteq Method
BY InferableAssumption

LEMMA RootTypes ==
  ASSUME prog \in Programs
  PROVE  Roots \subseteq prog.entries /\ Roots \subseteq Method /\ prog.entries \cap Inferable = {}
BY RaceAssumption, InferableAssumption, ProgramsAssumption DEF IsProgram

LEMMA CalleeTypes ==
  ASSUME prog \in Programs, NEW m
  PROVE  Callees(m) \subseteq Method
BY CallTypes DEF Callees

\* What one more round yields.
LEMMA NextEntryType == NextEntry \in [Method -> SUBSET Lock]
BY DEF NextEntry, Common

\* If no set claims more than a round yields, the sets a round yields claim no
\* more than the next one does.
LEMMA RoundSupported ==
  ASSUME TypeOK, EntryTypeOK, EntrySupported, prog' = prog, entry' = NextEntry
  PROVE  EntrySupported'
<1>1. \A m : Incoming(m)' = Incoming(m)
  BY DEF Incoming
<1>2. SUFFICES ASSUME NEW m \in Method, NEW l \in NextEntry[m]
               PROVE  /\ m \in Inferable /\ Incoming(m) # {}
                      /\ \A c \in Incoming(m) : l \in c.held \cup NextEntry[c.caller]
  BY DEF EntrySupported, HeldAtCall, Incoming
<1>3. /\ m \in Inferable /\ Incoming(m) # {} /\ l \in Lock
      /\ \A c \in Incoming(m) : l \in HeldAtCall(c)
  BY <1>2 DEF NextEntry, Common
<1>4. \A k \in Method : entry[k] \subseteq NextEntry[k]
  BY DEF EntryTypeOK, EntrySupported, NextEntry, Common
<1> QED
  BY <1>3, <1>4, CallTypes DEF HeldAtCall, Incoming, TypeOK

-----------------------------------------------------------------------------
(***************************************************************************)
(* What a step of an execution does to the stack of a thread: nothing but  *)
(* the locks of its innermost frame, or a return; a new first frame; or a  *)
(* call of the innermost one.                                              *)
(***************************************************************************)
Kept(t) ==
  /\ Depth(t)' \in Nat /\ Depth(t)' <= Depth(t)
  /\ \A i \in 1 .. Depth(t)' : stack'[t][i].method = stack[t][i].method
  /\ \A i \in 1 .. Depth(t)' - 1 : stack'[t][i].has = stack[t][i].has

Entered(t) == \E m \in prog.entries : stack'[t] = <<Frame(m)>>

Invoked(t) ==
  \E c \in prog.calls : \E m \in c.targets :
    /\ stack[t] # <<>> /\ Top(t).method = c.caller /\ Top(t).has = c.held
    /\ stack'[t] = Append(stack[t], Frame(m))

LEMMA SameIsKept ==
  ASSUME TypeOK, NEW t \in Thread, stack'[t] = stack[t]
  PROVE  Kept(t)
<1>1. Depth(t) \in Nat
  BY DEF TypeOK, Depth
<1> QED
  BY <1>1 DEF Kept, Depth

LEMMA RelockedIsKept ==
  ASSUME TypeOK, NEW t \in Thread, stack[t] # <<>>, NEW has \in SUBSET Lock,
         stack' = [stack EXCEPT ![t][Depth(t)].has = has]
  PROVE  \A u \in Thread : Kept(u)
<1>1. /\ \A u \in Thread \ {t} : stack'[u] = stack[u]
      /\ stack'[t] = [stack[t] EXCEPT ![Depth(t)] = [Top(t) EXCEPT !.has = has]]
      /\ Len(stack'[t]) = Depth(t)
  BY RelockedType
<1>2. /\ Depth(t) \in Nat \ {0} /\ stack[t] \in Seq(Frames)
      /\ Top(t) = stack[t][Depth(t)] /\ Top(t) \in Frames
  BY TopFrame
<1>3. DOMAIN stack[t] = 1 .. Depth(t)
  BY <1>2 DEF Depth
<1>4. \A i \in 1 .. Depth(t) : stack'[t][i].method = stack[t][i].method
  <2>1. [Top(t) EXCEPT !.has = has].method = Top(t).method
    BY <1>2 DEF Frames
  <2> QED
    BY <1>1, <1>2, <1>3, <2>1
<1>5. \A i \in 1 .. Depth(t) - 1 : stack'[t][i].has = stack[t][i].has
  BY <1>1, <1>2, <1>3
<1>6. Depth(t)' = Depth(t)
  BY <1>1 DEF Depth
<1>7. Kept(t)
  BY <1>2, <1>4, <1>5, <1>6 DEF Kept
<1> QED
  BY <1>1, <1>7, SameIsKept

LEMMA ReturnedIsKept ==
  ASSUME TypeOK, NEW t \in Thread, Return(t)
  PROVE  \A u \in Thread : Kept(u)
<1>1. /\ stack'[t] = SubSeq(stack[t], 1, Depth(t) - 1)
      /\ \A u \in Thread \ {t} : stack'[u] = stack[u]
  BY DEF Return, TypeOK
<1>2. Depth(t) \in Nat \ {0} /\ stack[t] \in Seq(Frames)
  BY TopFrame DEF Return
<1>3. /\ Depth(t)' = Depth(t) - 1
      /\ \A i \in 1 .. Depth(t) - 1 : stack'[t][i] = stack[t][i]
  BY <1>1, <1>2 DEF Depth
<1>4. Kept(t)
  <2>1. \A i \in 1 .. Depth(t) - 1 - 1 : i \in 1 .. Depth(t) - 1
    BY <1>2
  <2> QED
    BY <1>2, <1>3, <2>1 DEF Kept
<1> QED
  BY <1>1, <1>4, SameIsKept

LEMMA StepShape ==
  ASSUME TypeOK, Execution, NEW u \in Thread
  PROVE  Kept(u) \/ Entered(u) \/ Invoked(u)
<1>1. ASSUME NEW t \in Thread, NEW m \in prog.entries, Enter(t, m)
      PROVE  Kept(u) \/ Entered(u)
  <2>1. CASE u = t
    BY <1>1, <2>1 DEF Enter, Entered, TypeOK
  <2>2. CASE u # t
    BY <1>1, <2>2, SameIsKept DEF Enter, TypeOK
  <2> QED
    BY <2>1, <2>2
<1>2. ASSUME NEW t \in Thread, NEW c \in prog.calls, NEW m \in c.targets, Invoke(t, c, m)
      PROVE  Kept(u) \/ Invoked(u)
  <2>1. CASE u = t
    BY <1>2, <2>1 DEF Invoke, Invoked, TypeOK, Depth
  <2>2. CASE u # t
    BY <1>2, <2>2, SameIsKept DEF Invoke, TypeOK
  <2> QED
    BY <2>1, <2>2
<1>3. ASSUME NEW t \in Thread, NEW s \in prog.spans, Acquire(t, s) PROVE Kept(u)
  <2> DEFINE has == s.held \cup {s.lock}
  <2>1. has \in SUBSET Lock
    BY SpanTypes DEF TypeOK
  <2>2. stack[t] # <<>> /\ stack' = [stack EXCEPT ![t][Depth(t)].has = has]
    BY <1>3 DEF Acquire, StandsAt
  <2> HIDE DEF has
  <2> QED
    BY <2>1, <2>2, RelockedIsKept
<1>4. ASSUME NEW t \in Thread, NEW l \in Lock, Release(t, l) PROVE Kept(u)
  <2> DEFINE has == Top(t).has \ {l}
  <2>1. has \in SUBSET Lock
    BY <1>4, TopFrame DEF Release, Frames
  <2>2. stack[t] # <<>> /\ stack' = [stack EXCEPT ![t][Depth(t)].has = has]
    BY <1>4 DEF Release
  <2> HIDE DEF has
  <2> QED
    BY <2>1, <2>2, RelockedIsKept
<1>5. ASSUME NEW t \in Thread, Return(t) PROVE Kept(u)
  BY <1>5, ReturnedIsKept
<1> QED
  BY <1>1, <1>2, <1>3, <1>4, <1>5 DEF Execution

\* The frames of a thread that has made a call.
LEMMA InvokedFrames ==
  ASSUME TypeOK, NEW t \in Thread, NEW m, stack[t] # <<>>, stack'[t] = Append(stack[t], Frame(m))
  PROVE  /\ Depth(t) \in Nat \ {0} /\ Depth(t)' = Depth(t) + 1
         /\ Top(t) = stack[t][Depth(t)]
         /\ \A i \in 1 .. Depth(t) : stack'[t][i] = stack[t][i]
         /\ stack'[t][Depth(t) + 1].method = m
<1>1. Depth(t) \in Nat \ {0} /\ stack[t] \in Seq(Frames) /\ Top(t) = stack[t][Depth(t)]
  BY TopFrame
<1>2. Len(stack'[t]) = Depth(t) + 1 /\ stack'[t][Depth(t) + 1] = Frame(m)
  BY <1>1 DEF Depth
<1>3. \A i \in 1 .. Depth(t) : stack'[t][i] = stack[t][i]
  BY <1>1 DEF Depth
<1> QED
  BY <1>1, <1>2, <1>3 DEF Depth, Frame

-----------------------------------------------------------------------------
(***************************************************************************)
(* Executions.                                                             *)
(***************************************************************************)

\* A call takes every lock its target is said to be entered with along.
LEMMA EntryHeldKept ==
  ASSUME RaceInv, Execution, UNCHANGED entryVars
  PROVE  EntryHeldIsHeld'
<1>1. TypeOK /\ EntryTypeOK /\ EntrySupported /\ EntryHeldIsHeld /\ entry' = entry
  BY DEF RaceInv, RaceTypeOK, entryVars
<1>2. SUFFICES ASSUME NEW t \in Thread, NEW j \in 1 .. Depth(t)', NEW l \in entry[stack'[t][j].method]
               PROVE  \E i \in 1 .. j - 1 : l \in stack'[t][i].has
  BY <1>1 DEF EntryHeldIsHeld
<1>3. CASE Kept(t)
  <2>1. /\ Depth(t)' \in Nat /\ Depth(t)' <= Depth(t) /\ Depth(t) \in Nat
        /\ stack'[t][j].method = stack[t][j].method
    BY <1>1, <1>3 DEF Kept, TypeOK, Depth
  <2>2. PICK i \in 1 .. j - 1 : l \in stack[t][i].has
    BY <1>1, <1>2, <2>1 DEF EntryHeldIsHeld
  <2>3. i \in 1 .. Depth(t)' - 1
    BY <2>1
  <2> QED
    BY <1>3, <2>2, <2>3 DEF Kept
<1>4. CASE Entered(t)
  <2>1. PICK m \in prog.entries : stack'[t] = <<Frame(m)>>
    BY <1>4 DEF Entered
  <2>2. j = 1 /\ stack'[t][j].method = m
    BY <2>1 DEF Depth, Frame
  <2>3. m \in Method /\ m \notin Inferable
    BY <1>1, RootTypes, ProgramsAssumption DEF TypeOK, IsProgram
  <2> QED
    BY <1>1, <1>2, <2>2, <2>3 DEF EntrySupported
<1>5. CASE Invoked(t)
  <2>0. PICK c \in prog.calls : \E m \in c.targets :
          /\ stack[t] # <<>> /\ Top(t).method = c.caller /\ Top(t).has = c.held
          /\ stack'[t] = Append(stack[t], Frame(m))
    BY <1>5 DEF Invoked
  <2>1. PICK m \in c.targets :
          /\ stack[t] # <<>> /\ Top(t).method = c.caller /\ Top(t).has = c.held
          /\ stack'[t] = Append(stack[t], Frame(m))
    BY <2>0
  <2>2. /\ Depth(t) \in Nat \ {0} /\ Depth(t)' = Depth(t) + 1
        /\ Top(t) = stack[t][Depth(t)]
        /\ \A i \in 1 .. Depth(t) : stack'[t][i] = stack[t][i]
        /\ stack'[t][Depth(t) + 1].method = m
    BY <1>1, <2>1, InvokedFrames
  <2>3. CASE j \in 1 .. Depth(t)
    <3>1. PICK i \in 1 .. j - 1 : l \in stack[t][i].has
      BY <1>1, <1>2, <2>2, <2>3 DEF EntryHeldIsHeld
    <3>2. i \in 1 .. Depth(t)
      BY <2>2, <2>3
    <3> QED
      BY <2>2, <3>1, <3>2
  <2>4. CASE j = Depth(t) + 1
    <3>1. m \in Method /\ c \in Incoming(m)
      BY <1>1, CallTypes DEF Incoming, TypeOK
    <3>2. l \in c.held \cup entry[c.caller]
      <4>1. l \in entry[m]
        BY <2>2, <2>4
      <4>2. l \in HeldAtCall(c)
        BY <1>1, <3>1, <4>1 DEF EntrySupported
      <4> QED
        BY <4>2 DEF HeldAtCall
    <3>3. stack[t][Depth(t)].method = c.caller /\ stack[t][Depth(t)].has = c.held
      BY <2>1, <2>2
    <3>4. Depth(t) \in 1 .. Depth(t) /\ Depth(t) \in 1 .. j - 1
      BY <2>2, <2>4
    <3>5. CASE l \in c.held
      <4>1. stack'[t][Depth(t)] = stack[t][Depth(t)]
        BY <2>2, <3>4
      <4>2. l \in stack'[t][Depth(t)].has
        BY <3>5, <3>3, <4>1
      <4> QED
        BY <3>4, <4>2
    <3>6. CASE l \in entry[c.caller]
      <4>1. l \in entry[stack[t][Depth(t)].method]
        BY <3>6, <3>3
      <4>2. PICK i \in 1 .. Depth(t) - 1 : l \in stack[t][i].has
        BY <1>1, <3>4, <4>1 DEF EntryHeldIsHeld
      <4>3. i \in 1 .. Depth(t) /\ i \in 1 .. j - 1
        BY <2>2, <2>4
      <4> QED
        BY <2>2, <4>2, <4>3
    <3> QED
      BY <3>2, <3>5, <3>6
  <2> QED
    BY <2>2, <2>3, <2>4
<1> QED
  BY <1>1, <1>3, <1>4, <1>5, StepShape

\* A call leads from a method seen to a method seen, once the frontier is empty.
LEMMA ConcurrentKept ==
  ASSUME RaceInv, Execution, frontier = {}, UNCHANGED reachVars
  PROVE  ConcurrentCoversRoots'
<1>1. TypeOK /\ SeenClosed /\ Roots \subseteq seen /\ ConcurrentCoversRoots /\ seen' = seen
  BY DEF RaceInv, RaceTypeOK, reachVars
<1>2. SUFFICES ASSUME NEW t \in Thread, stack'[t] # <<>>, stack'[t][1].method \in Roots,
                      NEW j \in 1 .. Depth(t)'
               PROVE  stack'[t][j].method \in seen
  BY <1>1 DEF ConcurrentCoversRoots
<1>3. CASE Kept(t)
  <2>1. /\ Depth(t)' \in Nat /\ Depth(t)' <= Depth(t) /\ Depth(t) \in Nat
        /\ \A i \in 1 .. Depth(t)' : stack'[t][i].method = stack[t][i].method
    BY <1>1, <1>3 DEF Kept, TypeOK, Depth
  <2>2. 1 \in 1 .. Depth(t)' /\ j \in 1 .. Depth(t) /\ stack[t] # <<>>
    BY <2>1 DEF Depth
  <2> QED
    BY <1>1, <1>2, <2>1, <2>2 DEF ConcurrentCoversRoots
<1>4. CASE Entered(t)
  BY <1>1, <1>2, <1>4 DEF Entered, Depth, Frame
<1>5. CASE Invoked(t)
  <2>0. PICK c \in prog.calls : \E m \in c.targets :
          /\ stack[t] # <<>> /\ Top(t).method = c.caller /\ Top(t).has = c.held
          /\ stack'[t] = Append(stack[t], Frame(m))
    BY <1>5 DEF Invoked
  <2>1. PICK m \in c.targets :
          /\ stack[t] # <<>> /\ Top(t).method = c.caller /\ Top(t).has = c.held
          /\ stack'[t] = Append(stack[t], Frame(m))
    BY <2>0
  <2>2. /\ Depth(t) \in Nat \ {0} /\ Depth(t)' = Depth(t) + 1
        /\ Top(t) = stack[t][Depth(t)]
        /\ \A i \in 1 .. Depth(t) : stack'[t][i] = stack[t][i]
        /\ stack'[t][Depth(t) + 1].method = m
    BY <1>1, <2>1, InvokedFrames
  <2>3. \A i \in 1 .. Depth(t) : stack[t][i].method \in seen
    BY <1>1, <1>2, <2>1, <2>2 DEF ConcurrentCoversRoots
  <2>4. m \in seen
    <3>1. c.caller \in seen
      BY <2>1, <2>2, <2>3
    <3>2. m \in Callees(c.caller)
      BY <2>1 DEF Callees
    <3> QED
      BY <1>1, <3>1, <3>2 DEF SeenClosed
  <2>5. j \in 1 .. Depth(t) \/ j = Depth(t) + 1
    BY <2>2
  <2> QED
    BY <2>2, <2>3, <2>4, <2>5
<1> QED
  BY <1>1, <1>3, <1>4, <1>5, StepShape

-----------------------------------------------------------------------------
(***************************************************************************)
(* The invariant is kept.                                                  *)
(***************************************************************************)
LEMMA RaceStart ==
  ASSUME RaceInit
  PROVE  RaceInv
<1>1. TypeOK /\ \A t \in Thread : stack[t] = <<>>
  BY TypeInit DEF RaceInit, Init
<1>2. EntryTypeOK /\ EntrySupported
  <2>1. entry = [m \in Method |-> {}] /\ rounds = 0 /\ settled = FALSE
    BY DEF RaceInit, EntryInit
  <2>2. 0 \in 0 .. MaxRounds
    BY MaxRoundsAssumption
  <2> QED
    BY <2>1, <2>2 DEF EntryTypeOK, EntrySupported
<1>3. seen \subseteq Method /\ frontier \subseteq seen /\ Roots \subseteq seen /\ SeenClosed
  BY <1>1, RootTypes DEF RaceInit, SeenClosed, TypeOK
<1>4. \A t \in Thread : Depth(t) = 0
  BY <1>1 DEF Depth
<1>5. EntryHeldIsHeld /\ ConcurrentCoversRoots
  BY <1>1, <1>4 DEF EntryHeldIsHeld, ConcurrentCoversRoots
<1> QED
  BY <1>1, <1>2, <1>3, <1>5 DEF RaceInv, RaceTypeOK

\* Before the executions there is no stack to speak of.
LEMMA NoStacks ==
  ASSUME \A t \in Thread : stack'[t] = <<>>
  PROVE  EntryHeldIsHeld' /\ ConcurrentCoversRoots'
<1>1. \A t \in Thread : Depth(t)' = 0
  BY DEF Depth
<1> QED
  BY <1>1 DEF EntryHeldIsHeld, ConcurrentCoversRoots

LEMMA RaceStep ==
  ASSUME RaceInv, [RaceNext]_raceVars
  PROVE  RaceInv'
<1>1. TypeOK' /\ TypeOK
  BY RaceStepIsIndexStep, TypeStep DEF RaceInv, RaceTypeOK
<1>2. CASE UNCHANGED raceVars
  BY <1>1, <1>2 DEF raceVars, vars, entryVars, reachVars, RaceInv, RaceTypeOK, EntryTypeOK, EntrySupported,
     HeldAtCall, Incoming, SeenClosed, Callees, Ready, EntryHeldIsHeld, ConcurrentCoversRoots, Depth
<1>3. CASE Solver /\ UNCHANGED <<entryVars, reachVars>>
  <2>1. prog' = prog /\ stack' = stack /\ UNCHANGED <<entry, rounds, settled, seen, frontier>>
    BY <1>3 DEF Solver, Visit, Finish, entryVars, reachVars
  <2>2. RaceTypeOK'
    BY <1>1, <2>1 DEF RaceInv, RaceTypeOK, EntryTypeOK
  <2>3. EntrySupported'
    BY <2>1 DEF RaceInv, EntrySupported, HeldAtCall, Incoming
  <2>4. (Roots \subseteq seen)' /\ SeenClosed'
    BY <2>1 DEF RaceInv, SeenClosed, Callees
  <2>5. (~ Ready => \A t \in Thread : stack[t] = <<>>)'
    BY <1>3, <2>1 DEF RaceInv, Ready, Solver, Visit, Finish, entryVars, reachVars
  <2>6. EntryHeldIsHeld' /\ ConcurrentCoversRoots'
    BY <2>1 DEF RaceInv, EntryHeldIsHeld, ConcurrentCoversRoots, Depth
  <2> QED
    BY <2>2, <2>3, <2>4, <2>5, <2>6 DEF RaceInv
<1>4. ASSUME NEW m \in frontier, Spread(m) PROVE RaceInv'
  <2>1. /\ prog' = prog /\ stack' = stack /\ UNCHANGED <<entry, rounds, settled>>
        /\ seen' = seen \cup Fresh(m) /\ frontier' = (frontier \ {m}) \cup Fresh(m)
    BY <1>4 DEF Spread, vars, entryVars
  <2>2. Fresh(m) \subseteq Method /\ seen' \subseteq Method /\ frontier' \subseteq seen'
    BY <1>1, <2>1, CalleeTypes DEF Fresh, RaceInv, RaceTypeOK, TypeOK
  <2>3. SeenClosed'
    <3>1. SUFFICES ASSUME NEW k \in seen' \ frontier' PROVE Callees(k) \subseteq seen'
      BY <2>1 DEF SeenClosed, Callees
    <3>2. CASE k = m
      BY <2>1, <3>2 DEF Fresh
    <3>3. CASE k # m
      BY <2>1, <3>1, <3>3 DEF RaceInv, SeenClosed
    <3> QED
      BY <3>2, <3>3
  <2>4. \A t \in Thread : stack'[t] = <<>>
    BY <1>4, <2>1 DEF RaceInv, Ready
  <2>5. RaceTypeOK' /\ EntrySupported' /\ Roots \subseteq seen'
    BY <1>1, <2>1, <2>2 DEF RaceInv, RaceTypeOK, EntryTypeOK, EntrySupported, HeldAtCall, Incoming
  <2> QED
    BY <2>3, <2>4, <2>5, NoStacks DEF RaceInv
<1>5. CASE Round /\ UNCHANGED reachVars
  <2>1. /\ UNCHANGED vars /\ UNCHANGED <<settled, seen, frontier>> /\ ~ settled
        /\ entry' = NextEntry /\ rounds' = rounds + 1 /\ rounds < MaxRounds
    BY <1>5 DEF Round, RoundsLeft, reachVars
  <2>2. EntryTypeOK'
    BY <2>1, NextEntryType, MaxRoundsAssumption DEF RaceInv, RaceTypeOK, EntryTypeOK
  <2>3. EntrySupported'
    BY <1>1, <2>1, RoundSupported DEF RaceInv, RaceTypeOK, vars
  <2>4. \A t \in Thread : stack'[t] = <<>>
    BY <2>1 DEF RaceInv, Ready, vars
  <2>5. RaceTypeOK' /\ SeenClosed' /\ Roots \subseteq seen'
    BY <1>1, <2>1, <2>2 DEF RaceInv, RaceTypeOK, SeenClosed, Callees, vars
  <2> QED
    BY <2>3, <2>4, <2>5, NoStacks DEF RaceInv
<1>6. CASE Settle /\ UNCHANGED reachVars
  <2>1. UNCHANGED vars /\ UNCHANGED <<entry, rounds, seen, frontier>> /\ ~ settled /\ settled' = TRUE
    BY <1>6 DEF Settle, reachVars
  <2>2. \A t \in Thread : stack'[t] = <<>>
    BY <2>1 DEF RaceInv, Ready, vars
  <2>3. RaceTypeOK' /\ EntrySupported' /\ SeenClosed' /\ Roots \subseteq seen'
    BY <1>1, <2>1 DEF RaceInv, RaceTypeOK, EntryTypeOK, EntrySupported, HeldAtCall, Incoming,
       SeenClosed, Callees, vars
  <2> QED
    BY <2>2, <2>3, NoStacks DEF RaceInv
<1>7. CASE Ready /\ Execution /\ UNCHANGED <<entryVars, reachVars>>
  <2>1. prog' = prog /\ UNCHANGED <<entry, rounds, settled, seen, frontier>> /\ frontier = {}
    BY <1>7 DEF Ready, Execution, Enter, Invoke, Acquire, Release, Return, entryVars, reachVars
  <2>2. EntryHeldIsHeld' /\ ConcurrentCoversRoots'
    BY <1>7, <2>1, EntryHeldKept, ConcurrentKept DEF entryVars, reachVars
  <2>3. RaceTypeOK' /\ EntrySupported' /\ SeenClosed' /\ Roots \subseteq seen' /\ Ready'
    BY <1>1, <1>7, <2>1 DEF RaceInv, RaceTypeOK, EntryTypeOK, EntrySupported, HeldAtCall, Incoming,
       SeenClosed, Callees, Ready
  <2> QED
    BY <2>2, <2>3 DEF RaceInv
<1> QED
  BY <1>2, <1>3, <1>4, <1>5, <1>6, <1>7 DEF RaceNext

\* The entry sets, however many rounds were run, and the methods seen, however
\* the queue was served, cover every stack.
THEOREM RaceInvariant == RaceSpec => []RaceInv
BY RaceStart, RaceStep, PTL DEF RaceSpec

\* Every variable of the reporter keeps its type.
THEOREM RaceTypeCorrect == RaceSpec => []RaceTypeOK
BY RaceInvariant, PTL DEF RaceInv

\* A lock inferred to be held on entry is held whenever a thread is in the
\* method (flow.rs, entry_held), even if MAX_ROUNDS cuts the rounds short.
THEOREM EntryHeldSound == RaceSpec => []EntryHeldIsHeld
BY RaceInvariant, PTL DEF RaceInv

\* Whatever a thread that started in a root runs is found concurrent.
THEOREM ConcurrentSound == RaceSpec => []ConcurrentCoversRoots
BY RaceInvariant, PTL DEF RaceInv

-----------------------------------------------------------------------------
(***************************************************************************)
(* What is reported.                                                       *)
(***************************************************************************)

\* A remote call that is reported holds every lock reported with it.
THEOREM BinderUnderLockSound == RaceSpec => []BinderHeldIsHeld
<1>1. RaceInv => BinderHeldIsHeld
  <2>1. SUFFICES ASSUME RaceInv, NEW c \in prog.calls, NEW t \in Thread, stack[t] # <<>>,
                        Top(t).method = c.caller, Top(t).has = c.held, NEW l \in HeldAtCall(c)
                 PROVE  Owns(t, l)
    BY DEF BinderHeldIsHeld, BinderUnderLock
  <2>2. Depth(t) \in Nat \ {0} /\ Top(t) = stack[t][Depth(t)]
    BY <2>1, TopFrame DEF RaceInv, RaceTypeOK
  <2>3. CASE l \in c.held
    BY <2>1, <2>2, <2>3 DEF Owns
  <2>4. CASE l \in entry[c.caller]
    <3>1. l \in entry[stack[t][Depth(t)].method]
      BY <2>1, <2>2, <2>4
    <3>2. PICK i \in 1 .. Depth(t) - 1 : l \in stack[t][i].has
      BY <2>1, <2>2, <3>1 DEF RaceInv, EntryHeldIsHeld
    <3>3. i \in 1 .. Depth(t)
      BY <2>2
    <3> QED
      BY <3>2, <3>3 DEF Owns
  <2> QED
    BY <2>1, <2>3, <2>4 DEF HeldAtCall
<1> QED
  BY <1>1, RaceInvariant, PTL

\* A raw access is one of the two shapes.
LEMMA RawShape ==
  ASSUME NEW f, NEW r \in FieldRaws(f)
  PROVE  \/ \E a \in Accesses : /\ r.at = a /\ r.via = {}
                                /\ r.held = a.has \cup entry[a.method]
                                /\ r.unlocked = Free(a.method, r.held)
         \/ \E a \in Accesses : /\ a.method \in Forwarders
                                /\ \E c \in Incoming(a.method) :
                                     /\ r.at = a /\ r.via = {c} /\ r.held = c.held
                                     /\ r.unlocked = Free(c.caller, c.held)
<1>1. PICK a \in Accesses : r \in RawsOf(a)
  BY DEF FieldRaws
<1>2. CASE a.method \in Forwarders
  <2>1. PICK c \in Incoming(a.method) : r = Raw(a, {c}, c.caller, c.held, Free(c.caller, c.held))
    BY <1>1, <1>2 DEF RawsOf, ForwardedRaws
  <2>2. r.at = a /\ r.via = {c} /\ r.held = c.held /\ r.unlocked = Free(c.caller, c.held)
    BY <2>1 DEF Raw
  <2> QED
    BY <1>2, <2>2
<1>3. CASE a.method \notin Forwarders
  <2>1. r = OwnRaw(a)
    BY <1>1, <1>3 DEF RawsOf
  <2> DEFINE held == a.has \cup entry[a.method]
  <2>2. r = Raw(a, {}, a.method, held, Free(a.method, held))
    BY <2>1 DEF OwnRaw
  <2>3. r.at = a /\ r.via = {} /\ r.held = held /\ r.unlocked = Free(a.method, held)
    BY <2>2 DEF Raw
  <2>4. r.unlocked = Free(a.method, r.held)
    BY <2>3
  <2> QED
    BY <2>3, <2>4
<1> QED
  BY <1>2, <1>3

LEMMA FindingShape ==
  ASSUME NEW x \in Findings
  PROVE  \E f, l : x.guardedAt = Holding(l, FieldRaws(f)) /\ x.guard = l
                    /\ x.unguarded = Unguarded(FieldRaws(f))
BY DEF Findings, Finding

\* At a guarded access of a finding the guard is held.
THEOREM GuardsSound == RaceSpec => []GuardIsHeld
<1>1. RaceInv => GuardIsHeld
  <2>1. SUFFICES ASSUME RaceInv, NEW x \in Findings, NEW r \in x.guardedAt,
                        NEW t \in Thread, StandsAtRaw(t, r)
                 PROVE  Owns(t, x.guard)
    BY DEF GuardIsHeld
  <2>2. PICK f, l : x.guardedAt = Holding(l, FieldRaws(f)) /\ x.guard = l
    BY FindingShape
  <2>3. r \in FieldRaws(f) /\ l \in r.held
    BY <2>2 DEF Holding
  <2>4. /\ stack[t] # <<>> /\ Top(t).method = r.at.method /\ Top(t).has = r.at.has
        /\ Depth(t) \in Nat \ {0} /\ Top(t) = stack[t][Depth(t)]
    BY <2>1, TopFrame DEF StandsAtRaw, RaceInv, RaceTypeOK
  <2>5. ASSUME NEW a \in Accesses, r.at = a, r.held = a.has \cup entry[a.method]
        PROVE  Owns(t, l)
    <3>1. CASE l \in a.has
      BY <2>4, <2>5, <3>1 DEF Owns
    <3>2. CASE l \in entry[a.method]
      <4>1. l \in entry[stack[t][Depth(t)].method]
        BY <2>4, <2>5, <3>2
      <4>2. Depth(t) \in 1 .. Depth(t)
        BY <2>4
      <4>3. PICK i \in 1 .. Depth(t) - 1 : l \in stack[t][i].has
        BY <2>1, <4>1, <4>2 DEF RaceInv, EntryHeldIsHeld
      <4>4. i \in 1 .. Depth(t)
        BY <2>4
      <4> QED
        BY <4>3, <4>4 DEF Owns
    <3> QED
      BY <2>3, <2>5, <3>1, <3>2
  <2>6. ASSUME NEW c, r.via = {c}, r.held = c.held
        PROVE  Owns(t, l)
    <3>1. Depth(t) - 1 \in 1 .. Depth(t) /\ stack[t][Depth(t) - 1].has = c.held
      BY <2>1, <2>4, <2>6 DEF StandsAtRaw
    <3> QED
      BY <2>3, <2>6, <3>1 DEF Owns
  <2> QED
    BY <2>2, <2>3, <2>5, <2>6, RawShape
<1> QED
  BY <1>1, RaceInvariant, PTL

\* A thread in a method that may not be entered with a lock held has none within
\* max_depth frames below it.
LEMMA NothingAbove ==
  ASSUME StackInv, NEW t \in Thread, NEW i \in 1 .. Depth(t), NEW j \in 1 .. Depth(t),
         i < j, j - i <= MaxDepth, MayHeld(stack[t][j].method) = {}
  PROVE  stack[t][i].has = {}
<1>1. stack[t][i] \in Frames /\ stack[t][j] \in Frames /\ Depth(t) \in Nat
  BY DEF StackInv, SolverInv, TypeOK, Depth
<1>2. SUFFICES ASSUME NEW l \in stack[t][i].has PROVE FALSE
  OBVIOUS
<1>3. l \in Lock /\ stack[t][j].method \in Method
  BY <1>1 DEF Frames
<1>4. dist[stack[t][j].method][l] \in 1 .. Far
  BY <1>3 DEF StackInv, SolverInv, TypeOK
<1>5. dist[stack[t][j].method][l] <= j - i
  BY DEF StackInv, CoveredStack
<1>6. dist[stack[t][j].method][l] # Far
  BY <1>1, <1>4, <1>5, FarIsFar
<1> QED
  BY <1>3, <1>6 DEF MayHeld

\* At an unguarded write of a finding no lock is held, within max_depth frames.
THEOREM UnlockedSound == RaceSpec => []UnlockedOnEveryPath
<1>1. RaceInv /\ StackInv => UnlockedOnEveryPath
  <2>1. SUFFICES ASSUME RaceInv, StackInv, NEW x \in Findings, NEW r \in x.unguarded,
                        NEW t \in Thread, StandsAtRaw(t, r),
                        NEW i \in 1 .. Depth(t), Depth(t) - i <= MaxDepth
                 PROVE  stack[t][i].has = {}
    BY DEF UnlockedOnEveryPath
  <2>2. PICK f : x.unguarded = Unguarded(FieldRaws(f))
    BY FindingShape
  <2>3. r \in FieldRaws(f) /\ r.unlocked
    BY <2>2 DEF Unguarded
  <2>4. /\ stack[t] # <<>> /\ Top(t).method = r.at.method /\ Top(t).has = r.at.has
        /\ Depth(t) \in Nat \ {0} /\ Top(t) = stack[t][Depth(t)]
    BY <2>1, TopFrame DEF StandsAtRaw, RaceInv, RaceTypeOK
  <2>5. ASSUME NEW a \in Accesses, r.at = a, r.held = a.has \cup entry[a.method],
               r.unlocked = Free(a.method, r.held)
        PROVE  stack[t][i].has = {}
    <3>1. MayHeld(stack[t][Depth(t)].method) = {} /\ stack[t][Depth(t)].has = {}
      BY <2>3, <2>4, <2>5 DEF Free
    <3>2. CASE i = Depth(t)
      BY <3>1, <3>2
    <3>3. CASE i < Depth(t)
      <4>1. Depth(t) \in 1 .. Depth(t)
        BY <2>4
      <4> QED
        BY <2>1, <3>1, <3>3, <4>1, NothingAbove
    <3> QED
      BY <2>4, <3>2, <3>3
  <2>6. ASSUME NEW a \in Accesses, a.method \in Forwarders, NEW c \in Incoming(a.method),
               r.at = a, r.via = {c}, r.unlocked = Free(c.caller, c.held)
        PROVE  stack[t][i].has = {}
    <3>1. MayHeld(c.caller) = {} /\ c.held = {} /\ a.has = {}
      BY <2>3, <2>6, RaceAssumption DEF Free
    <3>2. /\ Depth(t) - 1 \in 1 .. Depth(t) /\ stack[t][Depth(t) - 1].method = c.caller
          /\ stack[t][Depth(t) - 1].has = {}
      BY <2>1, <2>4, <2>6, <3>1 DEF StandsAtRaw
    <3>3. CASE i = Depth(t)
      BY <2>4, <2>6, <3>1, <3>3
    <3>4. CASE i = Depth(t) - 1
      BY <3>2, <3>4
    <3>5. CASE i < Depth(t) - 1
      <4>1. MayHeld(stack[t][Depth(t) - 1].method) = {}
        BY <3>1, <3>2
      <4>2. Depth(t) - 1 - i <= MaxDepth
        BY <2>1, <2>4, FarIsFar
      <4> QED
        BY <3>2, <3>5, <4>1, <4>2, NothingAbove, <2>1
    <3> QED
      BY <2>4, <3>3, <3>4, <3>5
  <2> QED
    BY <2>3, <2>5, <2>6, RawShape
<1>2. RaceSpec => []StackInv
  BY RaceRunsTheIndex, LockContextInvariant, PTL
<1> QED
  BY <1>1, <1>2, RaceInvariant, PTL
===============================================================================
