------------------------------- MODULE EntryHeld -------------------------------
(***************************************************************************)
(* Locks held on entry to a method by every one of its callers, and the    *)
(* remote calls made while a lock is held (src/dex/flow.rs, `entry_held`;  *)
(* src/dex/binder.rs, `binder_under_lock`).                                *)
(*                                                                         *)
(* The call graph and the threads that execute it are LockContext's.  When *)
(* the index is built the rounds of `entry_held` follow; executions start  *)
(* after the last round.                                                   *)
(***************************************************************************)
EXTENDS LockContext

CONSTANTS
  Inferable,    \* the methods all of whose callers are visible: private ones,
                \* in a closed world also those of a signature of their own
  MaxRounds     \* flow.rs MAX_ROUNDS

ASSUME InferableAssumption ==
  /\ Inferable \subseteq Method
  /\ \A p \in Programs :
       /\ Inferable \cap p.entries = {}
       /\ \A c \in p.calls : c.targets \cap Inferable # {} => \E m \in Method : c.targets = {m}

ASSUME MaxRoundsAssumption == MaxRounds \in Nat

VARIABLES
  entry,    \* method -> the locks held whenever it is entered
  rounds,   \* rounds that changed something
  settled   \* the rounds are over

entryVars == <<entry, rounds, settled>>

-----------------------------------------------------------------------------
\* The locks held at call c, those of its caller's callers included.
HeldAtCall(c) == c.held \cup entry[c.caller]

\* Mutant of Common: one call site is enough.
CommonAny(m) == {l \in Lock : \E c \in Incoming(m) : l \in HeldAtCall(c)}

Common(m) == {l \in Lock : \A c \in Incoming(m) : l \in HeldAtCall(c)}

NextEntry == [m \in Method |-> IF m \in Inferable /\ Incoming(m) # {} THEN Common(m) ELSE {}]

EntryInit ==
  /\ entry = [m \in Method |-> {}]
  /\ rounds = 0
  /\ settled = FALSE

RoundsLeft == rounds < MaxRounds

Round ==
  /\ phase = "done"
  /\ ~ settled
  /\ RoundsLeft
  /\ NextEntry # entry
  /\ entry' = NextEntry
  /\ rounds' = rounds + 1
  /\ UNCHANGED <<vars, settled>>

Settle ==
  /\ phase = "done"
  /\ ~ settled
  /\ NextEntry = entry \/ ~ RoundsLeft
  /\ settled' = TRUE
  /\ UNCHANGED <<vars, entry, rounds>>

-----------------------------------------------------------------------------
\* The remote calls made with a lock held: <<call, locks>>.
BinderUnderLock ==
  {<<c, HeldAtCall(c)>> :
     c \in {k \in prog.calls : k.targets \cap prog.binder # {} /\ HeldAtCall(k) # {}}}

-----------------------------------------------------------------------------
EntryTypeOK ==
  /\ entry \in [Method -> SUBSET Lock]
  /\ rounds \in 0 .. MaxRounds
  /\ settled \in BOOLEAN

\* A lock inferred to be held on entry to a method is held whenever a thread is
\* in it, by a frame further out, even if the rounds were cut short.
EntryHeldIsHeld ==
  \A t \in Thread : \A j \in 1 .. Depth(t) : \A l \in entry[stack[t][j].method] :
    \E i \in 1 .. j - 1 : l \in stack[t][i].has

\* "A finding is a lock demonstrably held across a binder call" (binder.rs:12):
\* a thread at the call of a finding holds all its locks.
BinderHeldIsHeld ==
  \A b \in BinderUnderLock : \A t \in Thread :
    stack[t] # <<>> /\ Top(t).method = b[1].caller /\ Top(t).has = b[1].held
      => \A l \in b[2] : Owns(t, l)
=============================================================================
