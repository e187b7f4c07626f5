---------------------------- MODULE RobustMutex ----------------------------
(***************************************************************************)
(* What the processes expect of the lock of the shared region: at most one *)
(* of them is inside; when it dies inside, another one that waits may take *)
(* over (the lock is an orphan until then), or the lock is lost, for ever. *)
(***************************************************************************)
CONSTANT Procs

VARIABLES
  inside,  \* the processes that have the lock
  state    \* "free", "held", "orphan" or "lost"

vars == <<inside, state>>

Init ==
  /\ inside = {}
  /\ state = "free"

(* lock_shrreg returns, or a waiter takes the lock over from a dead owner. *)
Take(p) ==
  /\ state \in {"free", "orphan"}
  /\ inside' = {p}
  /\ state' = "held"

Drop(p) ==
  /\ inside = {p}
  /\ inside' = {}
  /\ state' = "free"

(* The holder dies: it can be found out, or not. *)
Die(p) ==
  /\ inside = {p}
  /\ inside' = {}
  /\ state' \in {"orphan", "lost"}

Next == \E p \in Procs : Take(p) \/ Drop(p) \/ Die(p)

Spec == Init /\ [][Next]_vars
=============================================================================
