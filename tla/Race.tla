--------------------------------- MODULE Race ---------------------------------
(***************************************************************************)
(* Fields with an inconsistent locking discipline (src/dex/race.rs):       *)
(* guarded by a lock nearly everywhere, and written somewhere with no lock *)
(* held on any path.                                                       *)
(*                                                                         *)
(* The reporter joins three analyses of one call graph: the lock-context   *)
(* index (what may be held), the entry sets (what must be held) and the    *)
(* methods reachable from a thread entry point.                            *)
(***************************************************************************)
EXTENDS EntryHeld

CONSTANTS
  Roots,        \* methods that serve a remote interface or a thread
  Forwarders,   \* compiler-generated accessors: no line, one field access
  Accesses,     \* the field accesses: see IsAccess
  Times(_),     \* how many instructions an access, or a call, stands for
  Exempt,       \* final and volatile fields
  MinGuarded,   \* Options::min_guarded
  MinPercent    \* Options::min_ratio, in percent

\* has are the locks the accessing method took itself and still holds.
IsAccess(a) ==
  /\ a = [method |-> a.method, line |-> a.line, field |-> a.field, write |-> a.write,
          has |-> a.has]
  /\ a.method \in Method /\ a.line \in Nat /\ a.write \in BOOLEAN /\ a.has \subseteq Lock

ASSUME RaceAssumption ==
  /\ \A p \in Programs : Roots \subseteq p.entries
  /\ \A a \in Accesses : IsAccess(a) /\ (a.method \in Forwarders => a.has = {})
  /\ \A a \in Accesses : Times(a) \in Nat \ {0}
  /\ \A p \in Programs : \A c \in p.calls : Times(c) \in Nat \ {0}
  /\ MinGuarded \in Nat \ {0} /\ MinPercent \in 1 .. 100

VARIABLES
  seen,       \* methods found reachable from a root
  frontier    \* those whose calls are still to be followed

reachVars == <<seen, frontier>>
raceVars == <<vars, entryVars, reachVars>>

-----------------------------------------------------------------------------
(***************************************************************************)
(* The methods that run concurrently.                                      *)
(***************************************************************************)
\* Mutant of Fresh: only calls of a single target are followed.
FreshSingle(m) == UNION {c.targets : c \in {k \in prog.calls : k.caller = m /\ Cardinality(k.targets) = 1}} \ seen

Fresh(m) == Callees(m) \ seen

Spread(m) ==
  /\ phase = "done"
  /\ m \in frontier
  /\ seen' = seen \cup Fresh(m)
  /\ frontier' = (frontier \ {m}) \cup Fresh(m)
  /\ UNCHANGED <<vars, entryVars>>

RaceInit ==
  /\ Init
  /\ EntryInit
  /\ seen = Roots
  /\ frontier = Roots

Ready == settled /\ frontier = {}

RaceNext ==
  \/ Solver /\ UNCHANGED <<entryVars, reachVars>>
  \/ \E m \in frontier : Spread(m)
  \/ frontier = {} /\ (Round \/ Settle) /\ UNCHANGED reachVars
  \/ Ready /\ Execution /\ UNCHANGED <<entryVars, reachVars>>

RaceSpec == RaceInit /\ [][RaceNext]_raceVars

-----------------------------------------------------------------------------
(***************************************************************************)
(* The accesses as they are reported.  One inside a forwarder is reported  *)
(* at each call of the forwarder instead; via is that call, or nothing.    *)
(***************************************************************************)
Raw(a, via, m, held, unlocked) ==
  [at |-> a, via |-> via, method |-> m, held |-> held, unlocked |-> unlocked]

\* Mutant of Free: the callers are not looked at.
FreeHere(m, held) == held = {}

\* No lock is held in m on any path, when its own code holds `held`.
Free(m, held) == MayHeld(m) = {} /\ held = {}

\* Mutant of OwnRaw: what may be held on entry counts as held.
OwnRawMay(a) ==
  LET held == a.has \cup MayHeld(a.method)
  IN  Raw(a, {}, a.method, held, Free(a.method, held))

OwnRaw(a) ==
  LET held == a.has \cup entry[a.method]
  IN  Raw(a, {}, a.method, held, Free(a.method, held))

ForwardedRaws(a) ==
  {Raw(a, {c}, c.caller, c.held, Free(c.caller, c.held)) : c \in Incoming(a.method)}

RawsOf(a) == IF a.method \in Forwarders THEN ForwardedRaws(a) ELSE {OwnRaw(a)}

FieldRaws(f) == UNION {RawsOf(a) : a \in {b \in Accesses : b.field = f}}

Holding(l, raws) == {r \in raws : l \in r.held}

\* As the code counts them: the same access made twice is two, and so is the same
\* call of a forwarder.
Instances(r) == Times(r.at) * (IF r.via = {} THEN 1 ELSE MapThenSumSet(Times, r.via))

Count(raws) == MapThenSumSet(Instances, raws)

\* The lock held at most accesses; the code breaks ties by name.
GuardsOf(raws) ==
  {l \in Lock : \A k \in Lock : Count(Holding(k, raws)) <= Count(Holding(l, raws))}

Established(l, raws) ==
  LET guarded == Count(Holding(l, raws))
  IN  MinGuarded <= guarded /\ MinPercent * Count(raws) <= 100 * guarded

Unguarded(raws) == {r \in raws : r.at.write /\ r.unlocked}

Finding(f, l) ==
  LET raws == FieldRaws(f)
  IN  [field |-> f, guard |-> l, guardedAt |-> Holding(l, raws), unguarded |-> Unguarded(raws)]

Inconsistent(f, l) ==
  LET raws == FieldRaws(f)
  IN  /\ \E r \in raws : r.at.write
      /\ l \in GuardsOf(raws)
      /\ Established(l, raws)
      /\ Unguarded(raws) # {}

Reported == {a.field : a \in Accesses} \ Exempt

Findings == {Finding(x[1], x[2]) : x \in {y \in Reported \X Lock : Inconsistent(y[1], y[2])}}

Concurrent(r) == r.method \in seen

-----------------------------------------------------------------------------
RaceTypeOK ==
  /\ TypeOK
  /\ EntryTypeOK
  /\ seen \subseteq Method
  /\ frontier \subseteq seen

-----------------------------------------------------------------------------
(***************************************************************************)
(* Properties.                                                             *)
(***************************************************************************)

\* The innermost frame of t stands at the access of r, called as r says.
StandsAtRaw(t, r) ==
  /\ stack[t] # <<>>
  /\ Top(t).method = r.at.method
  /\ Top(t).has = r.at.has
  /\ \A c \in r.via :
       /\ Depth(t) > 1
       /\ stack[t][Depth(t) - 1].method = c.caller
       /\ stack[t][Depth(t) - 1].has = c.held

\* "This write holds nothing, on any path" (race.rs:25-28): no thread that stands
\* at an unguarded write of a finding holds a lock within max_depth frames.
UnlockedOnEveryPath ==
  Ready => \A f \in Findings : \A r \in f.unguarded : \A t \in Thread :
    StandsAtRaw(t, r) =>
      \A i \in 1 .. Depth(t) : Depth(t) - i <= MaxDepth => stack[t][i].has = {}

\* "Lock L is held at these accesses.  A must set" (race.rs:22-24): a thread that
\* stands at a guarded access of a finding holds the guard.
GuardIsHeld ==
  Ready => \A f \in Findings : \A r \in f.guardedAt : \A t \in Thread :
    StandsAtRaw(t, r) => Owns(t, f.guard)

\* Whatever a thread that started in a root runs was found concurrent (race.rs:308-320).
ConcurrentCoversRoots ==
  \A t \in Thread :
    stack[t] # <<>> /\ stack[t][1].method \in Roots
      => \A i \in 1 .. Depth(t) : stack[t][i].method \in seen
=============================================================================
