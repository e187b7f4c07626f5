----------------------------- MODULE MCAllocator ----------------------------
(* Two processes, the first with two threads; one device with a limit.       *)
EXTENDS Allocator, TLC

CONSTANTS p1, p2, t1, t2, t3

MCProcOf == [t \in Threads |-> IF t = t3 THEN p2 ELSE p1]
MCSlots == <<p1, p2>>
Ask(call, size) == [call : {call}, dev : Devs, size : {size}]
MCAsks == [t \in Threads |->
  CASE t = t1 -> Ask("alloc", 2)
    [] t = t2 -> Ask("create", 3)
    [] t = t3 -> Ask("managed", 2)]
MCMap == [d \in Devs |-> d]
MCLimit == [d \in Devs |-> 4]

ASSUME NoWrap

(* The processes together stay within the limit of the device.               *)
TotalWithinLimit ==
  \A d \in Devs : Limit[d] # 0 => used[p1][d] + used[p2][d] <= Limit[d]

Symmetry == Permutations(Handles)

(* Explore no further once an unlocked list removal has raced. *)
WhileIntact == \A p \in Procs : ~raced[p]

(* Contexts and failed tracking are explored apart. *)
Apart == (\E p \in Procs, d \in Devs : other[p][d] # 0) => \A p \in Procs : ~stuck[p] /\ lost[p] = {}
=============================================================================
