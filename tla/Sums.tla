------------------------------- MODULE Sums --------------------------------
(***************************************************************************)
(* Sums of sizes, for the totals that modules Allocator and Accounts       *)
(* compare with what they are the totals of.                               *)
(***************************************************************************)
EXTENDS Integers, FiniteSets

(* The units that the values of w stand for, each under its index.         *)
Units(w) == UNION {{i} \X (1 .. w[i]) : i \in DOMAIN w}

(* The sum of the values of w: the number of its units.                    *)
SumOf(w) == Cardinality(Units(w))
=============================================================================
