------------------------------ MODULE Registry ------------------------------
(***************************************************************************)
(* What those who add up the memory totals of the processes expect of the  *)
(* table of process slots: a live process has one total, which starts at   *)
(* zero and which nobody else changes; the total of a process that was     *)
(* killed stays until it is removed as a whole.  Nothing is promised once  *)
(* the table has been spoiled.                                             *)
(***************************************************************************)
EXTENDS Naturals

CONSTANT Procs

VARIABLES
  live,   \* the processes that are registered and have not left
  total,  \* total[p]: what is counted for p
  intact  \* the table has not been spoiled

vars == <<live, total, intact>>

Init ==
  /\ live = {}
  /\ total = [p \in Procs |-> 0]
  /\ intact = TRUE

Others(p) == \A q \in Procs \ {p} : total'[q] = total[q]

(* A process registers, perhaps with the pid of one whose total was left. *)
Join(p) ==
  /\ p \notin live
  /\ live' = live \cup {p}
  /\ total'[p] = 0 /\ Others(p)

Account(p) ==
  /\ p \in live
  /\ live' = live
  /\ Others(p)

(* A process is killed and its total stays, or it exits and marks its slot. *)
Leave(p) ==
  /\ p \in live
  /\ live' = live \ {p}
  /\ total'[p] \in {total[p], 0} /\ Others(p)

(* The totals of processes that are not live are removed. *)
Clear ==
  /\ live' = live
  /\ \A q \in live : total'[q] = total[q]
  /\ \A q \in Procs \ live : total'[q] \in {total[q], 0}

Step == Clear \/ \E p \in Procs : Join(p) \/ Account(p) \/ Leave(p)

Next == intact' => intact /\ Step

Spec == Init /\ [][Next]_vars
=============================================================================
