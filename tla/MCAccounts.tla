----------------------------- MODULE MCAccounts ------------------------------
EXTENDS Accounts, TLC

(* Two devices in NVML's order or in the other one, one with a tight limit  *)
(* and one without, and other processes that leave no room or some.         *)
MCMaps == {[d \in {0, 1} |-> d], [d \in {0, 1} |-> 1 - d]}
MCLimits == {0 :> 4 @@ 1 :> 0}
MCOthers == {[n \in {0, 1} |-> 0], 0 :> 3 @@ 1 :> 1}

(* Contexts and blocks of the pool have accounts of their own, which meet   *)
(* in the limit only: with blocks there is one reference to a context at    *)
(* most, and no trouble with contexts, in the states that are followed.     *)
Apart == blocks = {} \/ (SumOf(refs) <= 1 /\ foul \cap {"failed", "raced", "nested"} = {})

ThreadSymmetry == Permutations(Threads)
==============================================================================
