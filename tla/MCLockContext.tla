---------------------------- MODULE MCLockContext ----------------------------
(***************************************************************************)
(* Small programs for LockContext: methods over three locks, each    *)
(* with a body that locks, nests, forwards or calls under a lock.          *)
(***************************************************************************)
EXTENDS LockContext, ProgramBodies

CONSTANTS A, B, C, D, E, X, Y, G, t1, t2, t3

MCMethod == {A, B, C, D, E}
MCLock == {X, Y, G}
MCThread == {t1, t2, t3}
MCPair == {t1, t2}

First == {Under(A, G, {B, C}), Under(A, X, {B}), Forward(A, {B, C}), Gated(A, G, X, Y), Nest(A, X, Y),
          Again(A, X, {C})}
Second == {Gated(B, G, Y, X), Under(B, X, {C}), Under(B, Y, {A, C}), Forward(B, {C}), Forward(B, {B, A})}
Third == {Leaf(C, Y), Nest(C, Y, X), Under(C, Y, {A})}

\* Each of three methods takes a lock before that of the next.
Rings == {{a, Nest(B, Y, G), Nest(C, G, X)} : a \in {Nest(A, X, Y), Under(A, X, {B})}}

\* D is reached by a longer and by a shorter way, and calls on.
Detour ==
  {Under(E, X, {A, B}), Forward(A, {C}), Forward(C, {D}), Forward(B, {D}), Forward(D, {E})}

MCPrograms ==
  {Program({a, b, c}, {}, {A, B, C}) : a \in First, b \in Second, c \in Third}
    \cup {Program({a, b}, {C}, {A, B}) : a \in First, b \in {Under(B, X, {C}), Under(B, Y, {A, C})}}
    \cup {Program(r, {}, {A, B, C}) : r \in Rings}
    \cup {Program(Detour, {}, {})}

\* Programs that are entered at A only.
MCClosed ==
  {Program({a, b, c}, {}, {A}) :
     a \in First \cup {Sometimes(A, G, {B, C})}, b \in Second \cup {Nest(B, X, Y)}, c \in Third}
=============================================================================
