------------------------------- MODULE Fixpoint -------------------------------
(***************************************************************************)
(* What a worklist promises.  The cells of a solution start from the value *)
(* nothing is known by; one at a time, in any order and as often as it     *)
(* takes, a cell gets the value its equation asks for; and the solution is *)
(* only given out when every cell has that value.  How a worklist knows    *)
(* that it may stop, and which cells it leaves alone, is not said here.    *)
(*                                                                         *)
(* The solver of parameters (Injector) and that of distances (LockContext) *)
(* are shown to implement it.                                              *)
(***************************************************************************)
CONSTANT Unknown   \* the value of a cell nothing is known of

VARIABLES
  phase,   \* "gather": the cells are being collected; "solve"; "done"
  value,   \* cell -> its value
  want     \* cell -> what its equation asks for; moves with the values it reads

Fresh(cells) == \A c \in DOMAIN cells : cells[c] = Unknown

Solved == \A c \in DOMAIN value : value[c] = want[c]

Init ==
  /\ phase \in {"gather", "solve"}
  /\ Fresh(value)

Collected ==
  /\ phase = "gather"
  /\ phase' = "solve"
  /\ Fresh(value')

Recompute(c) ==
  /\ phase = "solve"
  /\ value' = [value EXCEPT ![c] = want[c]]
  /\ UNCHANGED phase

GiveOut ==
  /\ phase = "solve"
  /\ Solved
  /\ phase' = "done"
  /\ UNCHANGED value

Next == Collected \/ (\E c \in DOMAIN value : Recompute(c)) \/ GiveOut

Spec == Init /\ [][Next]_<<phase, value>>
===============================================================================
