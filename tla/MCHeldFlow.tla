----------------------------- MODULE MCHeldFlow -----------------------------
(***************************************************************************)
(* Small methods for HeldFlow: every body of four instructions over two    *)
(* locks that starts by taking one, with and without an exception handler, *)
(* bodies compiled from `synchronized` blocks, and calls of every small    *)
(* helper, of pairs of them, and of some that nest or recur.               *)
(***************************************************************************)
EXTENDS MethodScan

CONSTANTS K, L,   \* the two locks
          Shared  \* what L is called by the rest of the program

MCLock == {K, L}

MCCanonical == (K :> K) @@ (L :> Shared)

Insn(op, lock, named, targets, callee) ==
  [op |-> op, lock |-> lock, named |-> named, targets |-> targets, callee |-> callee]

Act(op, lock) == Insn(op, lock, TRUE, {}, "work")
Blind(op, lock) == Insn(op, lock, FALSE, {}, "work")
Jump(op, targets) == Insn(op, K, TRUE, targets, "work")
Call(callee) == Insn("Call", K, TRUE, {}, callee)
Work == Call("work")
Stop(op) == Insn(op, K, TRUE, {}, "work")

\* A body, its source lines numbered like its instructions.
Code(insns, catches) == [insns |-> insns, lines |-> [i \in DOMAIN insns |-> i], catches |-> catches]

Just(insn) == Code(<<insn, Stop("Return")>>, {})

Library == [work |-> Just(Stop("Other")), drop |-> Just(Act("Release", K)), take |-> Just(Act("Acquire", L))]

Method(code, helpers) == [insns |-> code.insns, lines |-> code.lines, catches |-> code.catches, entry |-> <<>>, helpers |-> helpers]

Body(insns, catches) == Method(Code(insns, catches), Library)

Steps ==
  {Act("Exit", K), Act("Acquire", K), Act("Release", K), Act("TryAcquire", L), Act("Release", L),
   Work, Call("drop"), Call("take"), Jump("Branch", {4}), Jump("Branch", {5})}

Short ==
  {Body(<<a, b, c, d, Stop("Return")>>, catches) :
     a \in {Act("Acquire", K)}, b \in Steps, c \in Steps, d \in Steps,
     catches \in {{}, {<<2, 4, 5>>}}}

\* synchronized (K) { if (..) return; work(); }
EarlyReturn ==
  [body |-> Body(<<Act("Enter", K), Jump("Branch", {5}), Act("Exit", K), Stop("Return"),
                   Work, Act("Exit", K), Stop("Return"), Act("Exit", K), Stop("Throw")>>,
                 {<<2, 4, 8>>, <<5, 7, 8>>, <<8, 9, 8>>}),
   around |-> <<{}, {K}, {K}, {}, {K}, {K}, {}, {K}, {}>>]

\* synchronized (K) { synchronized (L) { work(); } work(); }
Nested ==
  [body |-> Body(<<Act("Enter", K), Act("Enter", L), Work, Act("Exit", L), Work, Act("Exit", K), Stop("Return"),
                   Act("Exit", L), Stop("Throw"), Act("Exit", K), Stop("Throw")>>,
                 {<<2, 3, 10>>, <<3, 5, 8>>, <<5, 7, 10>>, <<8, 9, 8>>, <<9, 11, 10>>}),
   around |-> <<{}, {K}, {K, L}, {K, L}, {K}, {K}, {}, {K, L}, {K}, {K}, {}>>]

\* try { work(); synchronized (K) { work(); } work(); } catch (E) { work(); }
Caught ==
  [body |-> Body(<<Work, Act("Enter", K), Work, Act("Exit", K), Work, Stop("Return"),
                   Act("Exit", K), Stop("Throw"), Work, Stop("Return")>>,
                 {<<1, 3, 9>>, <<3, 5, 7>>, <<5, 6, 9>>, <<7, 8, 7>>, <<8, 9, 9>>}),
   around |-> <<{}, {}, {K}, {K}, {}, {}, {K}, {}, {}, {}>>]

\* while (..) { synchronized (K) { work(); } }
Loop ==
  [body |-> Body(<<Jump("Branch", {6}), Act("Enter", K), Work, Act("Exit", K), Jump("Goto", {1}),
                   Stop("Return"), Act("Exit", K), Stop("Throw")>>, {<<3, 5, 7>>, <<7, 8, 7>>}),
   around |-> <<{}, {}, {K}, {K}, {}, {}, {K}, {}>>]

\* synchronized (K) { try { work(); } catch (E) { work(); } }
Guarded ==
  [body |-> Body(<<Act("Enter", K), Work, Act("Exit", K), Stop("Return"), Work, Jump("Goto", {3}), Act("Exit", K), Stop("Throw")>>,
                 {<<2, 3, 5>>, <<2, 4, 7>>, <<5, 8, 7>>}),
   around |-> <<{}, {K}, {K}, {}, {K}, {K}, {K}, {}>>]

\* while (..) { synchronized (K) { synchronized (L) { work(); } } }  with the inner block laid out first
Outward ==
  [body |-> Body(<<Jump("Goto", {6}), Act("Enter", L), Work, Act("Exit", L), Jump("Goto", {8}),
                   Act("Enter", K), Jump("Goto", {2}), Act("Exit", K), Stop("Return"),
                   Act("Exit", L), Act("Exit", K), Stop("Throw")>>, {<<2, 3, 11>>, <<3, 5, 10>>, <<8, 9, 11>>, <<10, 11, 10>>, <<11, 12, 11>>}),
   around |-> <<{}, {K}, {K, L}, {K, L}, {K}, {}, {K}, {K}, {}, {K, L}, {K}, {}>>]

\* a private helper entered with K held, with a switch in it
Helper ==
  [body |-> [Body(<<Jump("Switch", {3, 5}), Work, Act("Enter", L), Act("Exit", L), Stop("Return")>>, {}) EXCEPT !.entry = <<K>>],
   around |-> <<{K}, {K}, {K}, {K, L}, {K}>>]

\* an operand the register pass lost, and one unlocked through a lost register
Lost ==
  {Body(<<Act("Enter", K), Blind("Enter", L), Jump("Branch", {5}), Work, Blind("Exit", L), Act("Exit", K),
          Stop("Return")>>, {}),
   Body(<<Act("Acquire", K), Blind("Release", K), Work, Stop("Return")>>, {})}

\* lock(); if (..) lock(); unlock(); work();  with the longer path joined first
Uneven ==
  Body(<<Act("Acquire", K), Jump("Branch", {5}), Stop("Other"), Jump("Goto", {6}),
         Act("Acquire", K), Act("Release", K), Work, Stop("Return")>>, {})

\* Two nested blocks whose exits are left to the handler of the outer one, which is reached
\* with one lock or with both.
Leaky ==
  Body(<<Act("Enter", K), Act("Enter", L), Work, Act("Exit", L), Work, Act("Exit", K), Stop("Return"),
         Act("Exit", L), Stop("Throw"), Act("Exit", K), Stop("Throw")>>,
       {<<2, 3, 10>>, <<3, 4, 8>>, <<4, 6, 10>>, <<8, 10, 10>>})

\* The source lines of a body: one for each instruction, for each two, or for all.
Laid(body) == {body} \cup {[body EXCEPT !.lines = [i \in DOMAIN @ |-> (i + 1) \div 2]], [body EXCEPT !.lines = [i \in DOMAIN @ |-> 1]]}

MCMonitors ==
  LET nested == {Helper, EarlyReturn, Nested, Caught, Guarded, Loop, Outward}
  IN  [b \in UNION {Laid(n.body) : n \in nested} |-> (CHOOSE n \in nested : b \in Laid(n.body)).around]

Through(first, callee, helpers) == Method(Code(<<first, Call(callee), Work, Stop("Return")>>, {}), helpers)

\* lock(); try { callee(); } catch (E) { work(); }
Tried(callee, helpers) == Method(Code(<<Act("Acquire", K), Call(callee), Stop("Return"), Work, Stop("Return")>>, {<<2, 3, 4>>}), helpers)

\* Every helper of three instructions, with and without a handler, and with one that it calls.
Parts(callees) == {Act("Acquire", L), Act("Release", L), Work, Jump("Branch", {4})} \cup {Call(h) : h \in callees}

Small(callees) ==
  {Code(<<a, b, c, Stop("Return")>>, catches) :
     a, b, c \in Parts(callees), catches \in {{}, {<<1, 3, 4>>}, {<<1, 2, 2>>}}}

Alone ==
  {Through(Act("Acquire", L), "outer", [work |-> Library.work, outer |-> outer]) : outer \in Small({})}

\* One that hands its caller's lock to a helper, or takes one for it, in either order.
Inner == {Code(<<a, b, Stop("Return")>>, {}) : a, b \in {Act("Acquire", L), Act("Release", L), Jump("Branch", {3})}}

Pairs ==
  {Through(Act("Acquire", L), "outer", [work |-> Library.work, inner |-> inner, outer |-> outer]) :
     inner \in Inner, outer \in {Code(<<a, b, Stop("Return")>>, catches) :
                                  a, b \in Parts({"inner"}), catches \in {{}, {<<1, 2, 2>>}}}}

\* Helpers four deep, and two that call each other.
Chain ==
  [work |-> Library.work, a |-> Library.drop,
   b |-> Code(<<Jump("Branch", {4}), Call("a"), Stop("Return"), Act("Acquire", L), Call("a"), Act("Release", L), Stop("Return")>>, {}),
   c |-> Code(<<Call("b"), Act("Acquire", K), Act("Release", K), Stop("Return")>>, {}),
   d |-> Just(Call("c")),
   ping |-> Code(<<Jump("Branch", {4}), Act("Release", K), Stop("Return"), Call("pong"), Act("Release", K), Stop("Return")>>, {}),
   pong |-> Code(<<Call("ping"), Act("Acquire", K), Stop("Return")>>, {})]

Nesting == {Through(Act("Acquire", K), h, Chain) : h \in DOMAIN Chain}

\* try { K.unlock(); work(); } catch (E) {}  releases K whichever way it returns, but
\* the handler is entered with what the block is entered with.
Swallowed == Code(<<Act("Release", K), Work, Jump("Goto", {4}), Stop("Return")>>, {<<1, 3, 4>>})

\* The same with the unlock before the try.
Careful == Code(<<Act("Release", K), Work, Stop("Return")>>, {<<2, 3, 3>>})

\* K is let go for a while; L is taken and a loop waits; K is taken and given back if work() throws.
Yields == Code(<<Act("Release", K), Work, Act("Acquire", K), Stop("Return"), Act("Acquire", K), Stop("Throw")>>, {<<2, 3, 5>>})

Awaits == Code(<<Act("Acquire", L), Jump("Branch", {5}), Work, Jump("Goto", {2}), Stop("Return")>>, {})

Cleans == Code(<<Act("Acquire", L), Work, Stop("Return"), Act("Release", L), Stop("Throw")>>, {<<2, 3, 4>>})

Special ==
  UNION {{Through(Act("Acquire", K), "outer", helpers), Tried("outer", helpers)} :
           helpers \in {[work |-> Library.work, outer |-> h] : h \in {Swallowed, Careful, Yields, Awaits, Cleans}}}

\* What was done before each instruction, along the code and into its handlers.
MCSteady(t, h) ==
  LET after[n \in 0 .. 4] ==
        [g \in DOMAIN t.helpers |->
           LET b == t.helpers[g]
               size == Len(b.insns)
               done[i \in 1 .. size] ==
                 LET before == {j \in 1 .. i - 1 : i \in NextOf(b, j)}
                     thrown == {j \in 1 .. i - 1 : i \in HandlersOf(b, j)}
                     back == [x \in DOMAIN t.helpers |-> after[n - 1][x].back]
                 IN  IF before # {}
                     THEN After(done[Max(before)], Takes(b.insns[Max(before)], back), Frees(b.insns[Max(before)], back))
                     ELSE IF thrown # {} THEN done[Max(thrown)] ELSE Nothing
               ends == {i \in 1 .. size : b.insns[i].op = "Return"}
           IN  IF n = 0 \/ ends = {} THEN [at |-> [i \in 1 .. size |-> Nothing], back |-> Nothing]
               ELSE [at |-> done, back |-> done[Max(ends)]]]
  IN  after[4][h]

MCMethods == Short \cup DOMAIN MCMonitors \cup Lost \cup {Uneven, Leaky} \cup Alone \cup Pairs \cup Nesting \cup Special
=============================================================================
