--------------------------------- MODULE Lookup ---------------------------------
(***************************************************************************)
(* The lock taken at a source line (src/dex/resolve.rs, `Lookup`): at that *)
(* very line, else at the nearest line of the file where a lock is taken,  *)
(* else the only lock there is in the file.                                *)
(*                                                                         *)
(* An index is a set of acquisitions.  A file is written base or path/base *)
(* in a query; a line is an integer of any size.                           *)
(***************************************************************************)
EXTENDS Integers, FiniteSets

CONSTANTS
  Fuzz,        \* Options::fuzz, in lines
  IfUnique,    \* Options::if_unique
  WordLimit    \* 2^32 in the code: lines are kept in words

ASSUME LookupAssumption == Fuzz \in Nat /\ IfUnique \in BOOLEAN /\ WordLimit \in Nat \ {0}

\* An acquisition may have no line: that of a synchronized method has none.
IsSite(a) ==
  /\ a = [base |-> a.base, path |-> a.path, line |-> a.line, lock |-> a.lock]
  /\ a.line = {} \/ \E n \in 0 .. WordLimit - 1 : a.line = {n}

\* endings are the paths that the file of the query ends with, if it has a slash.
IsQuery(q) ==
  /\ q = [base |-> q.base, slash |-> q.slash, endings |-> q.endings, line |-> q.line]
  /\ q.slash \in BOOLEAN /\ q.line \in Int

-----------------------------------------------------------------------------
Candidates(sites, q) ==
  {a \in sites : a.base = q.base /\ (q.slash => a.path \in q.endings) /\ a.line # {}}

LocksAt(some, n) == {a.lock : a \in {b \in some : n \in b.line}}

AsWord(n) == n % WordLimit

Distance(n, q) == IF n < q.line THEN q.line - n ELSE n - q.line

Lines(some) == UNION {a.line : a \in some}

InWindow(some, q) == {n \in Lines(some) : Distance(n, q) <= Fuzz}

\* Mutant of Nearest: any line of the window will do.
NearestAny(some, q) == InWindow(some, q)

\* The nearest lines in the window.  Of two the code takes the one whose site
\* comes first in the index.
Nearest(some, q) == {n \in InWindow(some, q) : \A k \in InWindow(some, q) : Distance(n, q) <= Distance(k, q)}

LocksIn(some) == {a.lock : a \in some}

Unanimous(some) == \E l \in LocksIn(some) : LocksIn(some) = {l}

\* The answers the lookup may give: each is a set of locks.
LineAnswers(some, q) ==
  IF LocksAt(some, AsWord(q.line)) # {} THEN {LocksAt(some, AsWord(q.line))}
  ELSE IF Fuzz > 0 /\ Nearest(some, q) # {} THEN {LocksAt(some, n) : n \in Nearest(some, q)}
  ELSE IF IfUnique /\ Unanimous(some) THEN {LocksIn(some)}
  ELSE {{}}

Answers(sites, q) == LineAnswers(Candidates(sites, q), q)

-----------------------------------------------------------------------------
(***************************************************************************)
(* What the documentation says of it (README.md:95-99), as one rule: the   *)
(* nearest lines count if they are within the window, the queried line     *)
(* itself being the nearest there can be.                                  *)
(***************************************************************************)
Closest(some, q) == {n \in Lines(some) : \A k \in Lines(some) : Distance(n, q) <= Distance(k, q)}

Right(sites, q) ==
  LET some == Candidates(sites, q)
      near == {n \in Closest(some, q) : Distance(n, q) <= Fuzz}
  IN  IF near # {} THEN {LocksAt(some, n) : n \in near}
      ELSE IF IfUnique /\ Unanimous(some) THEN {LocksIn(some)}
      ELSE {{}}

\* The line of the query is one that a word can hold.
FitsWord(q) == q.line \in 0 .. WordLimit - 1
=================================================================================
