-------------------------------- MODULE MCRace --------------------------------
(***************************************************************************)
(* Small programs for Race.  A is a thread's entry, B and C are private    *)
(* helpers or further entries; the field f is written in B, read in A and  *)
(* touched through the accessor D; g is touched in C.                      *)
(***************************************************************************)
EXTENDS Race, ProgramBodies

CONSTANTS A, B, C, D, X, Y, t1, f, g

MCMethod == {A, B, C, D}
MCLock == {X, Y}
MCThread == {t1}

First == {Under(A, X, {B}), Under(A, X, {C}), Forward(A, {B}), Sometimes(A, X, {B}),
          Sometimes(A, X, {D})}
Second == {Under(B, Y, {C}), Forward(B, {C}), Leaf(B, X), Forward(B, {A, C}), Under(B, X, {D}),
           Forward(B, {D})}
Third == {Leaf(C, Y), Forward(C, {D}), Under(C, X, {B}), Forward(C, {C}), Under(C, Y, {D})}

MCInferable == {B, D}

MCPrograms ==
  {Program({a, b, c}, {D}, entries) :
     a \in First, b \in Second, c \in Third, entries \in {{A}, {A, C}}}

Access(m, field, write, has) == [method |-> m, line |-> 2, field |-> field, write |-> write, has |-> has]

MCAccesses ==
  {Access(B, f, TRUE, {}), Access(B, f, FALSE, {X}), Access(A, f, FALSE, {X}), Access(D, f, TRUE, {}),
   Access(C, g, TRUE, {}), Access(C, g, FALSE, {Y}), Access(B, g, TRUE, {Y}), Access(C, g, FALSE, {X})}

\* B touches f and C touches g more than once; C calls the accessor twice.
MCTimes(x) ==
  IF x \in {Access(B, f, FALSE, {X}), Access(C, g, FALSE, {X})} THEN 2
  ELSE IF x \notin MCAccesses /\ x.caller = C THEN 2
  ELSE 1
===============================================================================
