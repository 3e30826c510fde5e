----------------------------- MODULE MethodScan -----------------------------
(***************************************************************************)
(* What the lock-context index knows of one method: the spans of lines     *)
(* over which it holds a lock, and its calls with the locks held there,    *)
(* all under names of the whole program (src/dex/ctx.rs, `build`: the      *)
(* parallel walk).  The walk replays the held-lock dataflow (HeldFlow) of  *)
(* a method entered with nothing held; LockContext starts from its result. *)
(***************************************************************************)
EXTENDS HeldFlow

CONSTANT Canonical   \* the name the extraction gives each lock, where it is taken

\* A name of the program is not one of those that a lock without a name has in its method.
ASSUME CanonicalAssumption ==
  /\ DOMAIN Canonical = Lock
  /\ \A l \in Lock : \A b \in Methods : \A i \in 1 .. Len(b.insns) : Canonical[l] # Opaque(i)

VARIABLES
  at,        \* the instruction the walk replays next
  names,     \* lock -> the name it goes by in this method
  spans,     \* <<name, enter line>> -> exit line, NoLine if no release was seen, and the names held when it was taken
  calls      \* instruction -> its line and the names held there

scan == <<at, names, spans, calls>>

-----------------------------------------------------------------------------
IsOpaque(name) == \E i \in 1 .. Size : name = Opaque(i)

Acquiring == {"Enter", "Acquire", "TryAcquire"}

\* The name of the lock that instruction i takes.
SiteName(i) == IF m.insns[i].named THEN Canonical[m.insns[i].lock] ELSE Opaque(i)

\* The names of the acquisitions on a line.
SitesOn(line) == {SiteName(i) : i \in {j \in 1 .. Size : Op(j) \in Acquiring /\ m.lines[j] = line}}

\* What is known stays.
Kept(known, new) == [x \in DOMAIN known \cup DOMAIN new |-> IF x \in DOMAIN known THEN known[x] ELSE new[x]]

\* Mutant of Named: every line is asked anew.
NamedHere(sc, locks, line) ==
  [sc EXCEPT !.names = [l \in locks |-> IF Cardinality(SitesOn(line)) = 1 THEN CHOOSE c \in SitesOn(line) : TRUE ELSE l] @@ @]

\* The first name found for a lock is kept: that of the only acquisition on the
\* line, or its own.
Named(sc, locks, line) ==
  [sc EXCEPT !.names = Kept(@, [l \in locks |-> IF Cardinality(SitesOn(line)) = 1 THEN CHOOSE c \in SitesOn(line) : TRUE ELSE l])]

NamesOf(sc, locks) == {c \in {sc.names[l] : l \in locks} : ~ IsOpaque(c)}

\* Lock l is taken on this line with these held.
Taken(sc, l, line, held) ==
  LET own == Named(sc, {l}, line)
      all == Named(own, held, line)
      key == <<own.names[l], line>>
  IN  IF IsOpaque(own.names[l]) THEN own
      ELSE [all EXCEPT !.spans = Kept(@, [k \in {key} |-> [exit |-> NoLine, held |-> NamesOf(all, held)]])]

\* Mutant of Later: the first release seen ends the span.
LaterFirst(exit, line) == IF exit = NoLine THEN line ELSE exit

Later(exit, line) == Max({exit, line})

\* Lock l, taken on line enter, is released on this one.  The end of a span is
\* exclusive, and a block on one line covers that line.
Freed(sc, l, line, enter) ==
  IF enter = NoLine THEN sc
  ELSE LET own == Named(sc, {l}, enter)
           key == <<own.names[l], enter>>
       IN  IF key \notin DOMAIN own.spans THEN own
           ELSE [own EXCEPT !.spans[key].exit = Later(@, Max({line, enter + 1}))]

CallMade(sc, i, held) ==
  LET all == Named(sc, held, m.lines[i])
  IN  [all EXCEPT !.calls = Kept(@, [j \in {i} |-> [line |-> m.lines[i], held |-> NamesOf(all, held)]])]

FreedAs(sc, e, line) == Freed(sc, e.lock, line, e.enter)

FreedFrom(sc, st, l, line) == IF l \in Held(st) THEN FreedAs(sc, Innermost(st, l), line) ELSE sc

\* A call, then what the helper releases and takes for its caller.
Helped(sc, st, i) ==
  LET e == eff[m.insns[i].callee]
      line == m.lines[i]
      Drop(p, l) == [sc |-> FreedFrom(p.sc, p.st, l, line), st |-> Release(p.st, {l})]
      Take(p, l) == [sc |-> Taken(p.sc, l, line, Held(p.st)), st |-> Push(p.st, <<l>>, line)]
      dropped == FoldLeft(Drop, [sc |-> CallMade(sc, i, Held(st)), st |-> st], SetToSeq(e.releases))
  IN  FoldLeft(Take, dropped, SetToSeq(e.acquires)).sc

\* Instruction i is replayed in state st.
Replayed(sc, st, i) ==
  LET insn == m.insns[i]
  IN  CASE insn.op \in Acquiring                         -> Taken(sc, Operand(i), m.lines[i], Held(st))
        [] insn.op \in {"Exit", "Release"} /\ insn.named -> FreedFrom(sc, st, insn.lock, m.lines[i])
        [] insn.op = "Exit" /\ ~ insn.named /\ Held(st) # {} -> FreedAs(sc, Topmost(st), m.lines[i])
        [] insn.op = "Call"                              -> Helped(sc, st, i)
        [] OTHER                                         -> sc

\* The blocks are replayed in the order of the code, those never reached left out.
Scan ==
  /\ phase = "done" /\ m.entry = <<>>
  /\ at <= Size /\ at' = at + 1
  /\ IF BlockOf(at) \notin DOMAIN inn THEN UNCHANGED <<names, spans, calls>>
     ELSE \E st \in {Before(BlockOf(at), inn[BlockOf(at)], at)} :
          \E known \in {[names |-> names, spans |-> spans, calls |-> calls]} :
          \E sc \in {Replayed(known, st, at)} :
            names' = sc.names /\ spans' = sc.spans /\ calls' = sc.calls
  /\ UNCHANGED vars

ScanInit == Init /\ at = 1 /\ names = <<>> /\ spans = <<>> /\ calls = <<>>

Scanned == at > Size

\* The analysis, then the executions of the method.
Analysis == (Solver /\ UNCHANGED scan) \/ Scan

ScanNext == Analysis \/ ((Scanned \/ m.entry # <<>>) /\ Execution /\ UNCHANGED scan)

\* The dataflow and the walk are loops of one thread.
ScanSpec == ScanInit /\ [][ScanNext]_<<vars, scan>> /\ WF_<<vars, scan>>(Analysis)

-----------------------------------------------------------------------------
(***************************************************************************)
(* Queries and properties.                                                 *)
(***************************************************************************)
\* The locks held at a line, from the spans alone.
IntraHeld(line) == {key[1] : key \in {k \in DOMAIN spans : k[2] <= line /\ (spans[k].exit = NoLine \/ line < spans[k].exit)}}

HeldNow == {l \in Lock : has[l] > 0}

\* Lines tell the acquisitions apart, and the code of a block comes after one
\* reached of each lock it is entered under.
Told ==
  /\ \A i, j \in 1 .. Size :
       {Op(i), Op(j)} \subseteq Acquiring /\ m.lines[i] = m.lines[j] => SiteName(i) = SiteName(j)
  /\ \A b \in DOMAIN inn : \A l \in Held(inn[b]) :
       \E i \in 1 .. b - 1 : Op(i) \in Acquiring /\ Operand(i) = l /\ BlockOf(i) \in DOMAIN inn

\* Names are those of the acquisition sites, "shared with resolution" (lines
\* 215-216): at a call that an execution of nested `synchronized` blocks
\* reaches, the index has exactly the locks held, each under the name its
\* acquisition has in the rest of the program.
CallsHoldTheirLocks ==
  Scanned /\ m \in DOMAIN Monitors /\ Told /\ pc # 0 /\ Op(pc) = "Call" =>
    pc \in DOMAIN calls /\ calls[pc].held = {Canonical[l] : l \in HeldNow}

\* A lock is "held over" the lines of its span (lines 58-66), however many exits
\* the block has: on every line that an execution of nested `synchronized` blocks
\* reaches with a lock held, a span says so, but for the lines it is released on.
SpansCoverHolding ==
  Scanned /\ m \in DOMAIN Monitors /\ Told /\ pc # 0 =>
    \A l \in HeldNow :
      \/ Canonical[l] \in IntraHeld(m.lines[pc])
      \/ \E i \in 1 .. Size : Op(i) = "Exit" /\ m.insns[i].lock = l /\ m.lines[i] = m.lines[pc]
=============================================================================
