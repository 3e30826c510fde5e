---------------------------- MODULE ProgramBodies ----------------------------
(***************************************************************************)
(* Shapes of method bodies, to put small programs for LockContext and Race *)
(* together from.                                                          *)
(***************************************************************************)
EXTENDS Naturals

Call(m, line, held, targets) == [caller |-> m, line |-> line, held |-> held, targets |-> targets]

Span(m, lock, enter, exit, held) ==
  [method |-> m, lock |-> lock, enter |-> enter, exit |-> exit, held |-> held]

Body(spans, calls) == [spans |-> spans, calls |-> calls]

Forward(m, targets) == Body({}, {Call(m, 1, {}, targets)})
Under(m, l, targets) == Body({Span(m, l, 1, 3, {})}, {Call(m, 2, {l}, targets)})
Leaf(m, l) == Body({Span(m, l, 1, 2, {})}, {})
Nest(m, l, k) == Body({Span(m, l, 1, 4, {}), Span(m, k, 2, 3, {l})}, {})
Gated(m, g, l, k) ==
  Body({Span(m, g, 1, 6, {}), Span(m, l, 2, 5, {g}), Span(m, k, 3, 4, {g, l})}, {})
Again(m, l, targets) == Body({Span(m, l, 1, 4, {}), Span(m, l, 2, 3, {l})}, {Call(m, 3, {l}, targets)})

\* synchronized (l) { targets(); } targets();
Sometimes(m, l, targets) ==
  Body({Span(m, l, 1, 3, {})}, {Call(m, 2, {l}, targets), Call(m, 4, {}, targets)})

Program(bodies, binder, entries) ==
  [calls |-> UNION {b.calls : b \in bodies}, spans |-> UNION {b.spans : b \in bodies},
   binder |-> binder, entries |-> entries]
==============================================================================
