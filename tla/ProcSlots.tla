----------------------------- MODULE ProcSlots ------------------------------
(***************************************************************************)
(* The table of process slots in the shared region: region->procs and      *)
(* region->proc_num, the pointer my_slot that each process caches, and the *)
(* code that changes them (multiprocess_memory_limit.c):                   *)
(*   init_proc_slot_withlock   a process registers, under the lock         *)
(*   clear_proc_slot_nolock    removes the slots of dead processes: under  *)
(*                             the lock from init_proc_slot_withlock, and  *)
(*                             without it from oom_check (allocator.c)     *)
(*   exit_handler              marks the slot of a process that exits      *)
(*   add_/rm_gpu_device_memory_usage  account memory in the cached slot    *)
(*                                                                         *)
(* The lock is the one of module ShrregLock, taken here as a mutex that is *)
(* freed when its holder dies.  A slot is its pid, its memory total and    *)
(* whether its seqlock is odd; hostpid, status, the split of the total and *)
(* the utilization samples are copied and reset along with them.           *)
(***************************************************************************)
EXTENDS Integers, FiniteSets

CONSTANTS
  Procs,         \* the pids of the container
  NoPid,         \* the value 0 of a slot's pid, and of a free lock
  MaxSlots,      \* SHARED_REGION_MAX_PROCESS_NUM
  MaxKicks,      \* dead processes removed by one walk (10 in the code)
  ExitProcs,     \* processes that end by exit(); the others are killed
  LimitedProcs,  \* processes whose oom_check can fail (a memory limit is set)
  MemProcs,      \* processes that allocate device memory
  MaxHeld,       \* bound: units of memory a process holds
  Word,          \* totals are counted modulo Word
  MaxRestarts    \* bound: how many times a pid is reused

ASSUME SlotsAssumption ==
  /\ NoPid \notin Procs
  /\ MaxSlots \in Nat \ {0}
  /\ MaxKicks \in Nat
  /\ ExitProcs \subseteq Procs
  /\ LimitedProcs \subseteq Procs
  /\ MemProcs \subseteq Procs
  /\ MaxHeld \in Nat
  /\ Word \in Nat /\ Word > MaxHeld
  /\ MaxRestarts \in Nat

VARIABLES
  procs,     \* region->procs
  procNum,   \* region->proc_num
  lock,      \* the process that has the lock of the region
  up,        \* up[p]: the process exists
  ph,        \* ph[p]: how far p is with registering or with exit_handler
  found,     \* found[p]: the slot that exit_handler found
  mySlot,    \* region_info.my_slot
  walk,      \* walk[p]: the run of clear_proc_slot_nolock in p
  wr,        \* wr[p]: the update of the memory total that p has begun
  target,    \* target[p]: the slot that this update has taken from my_slot
  held,      \* held[p]: memory that p has accounted and not given back
  restarts,
  foul       \* history: what has happened that no step allows for (see below)

vars == <<procs, procNum, lock, up, ph, found, mySlot, walk, wr, target, held, restarts, foul>>

-----------------------------------------------------------------------------
(* State *)

Slots == 0..(MaxSlots - 1)

NoSlot == -1   \* my_slot == NULL

(* Phases of a process, in order:                                           *)
(*   new      has not called the library                                    *)
(*   find     init: has the lock, looks for its own pid, writes a slot      *)
(*   publish  init: proc_num + 1                                            *)
(*   clear    init: in clear_proc_slot_nolock                               *)
(*   run      registered                                                    *)
(*   mark     exit_handler has found the slot of its pid                    *)
(*   done     exit_handler has ended, or has found no slot                  *)
(* A walk looks at the slot under its cursor ("look"), or has done          *)
(* proc_num-- and copies the last slot into the gap ("copy").               *)
NoWalk == [pc |-> "no", at |-> 0, kicks |-> 0]

(* Foul events, which the steps below do not allow for:                     *)
(*   race     clear_proc_slot_nolock ran without the lock next to another    *)
(*            process that was changing the table                           *)
(*   moved    a process moved the slot of another live process, whose        *)
(*            my_slot stays behind                                          *)
(*   clobber  exit_handler marked a slot that was no longer its own          *)
(*   torn     a process ended between proc_num-- and the copy of the last    *)
(*            slot, which then no longer counts                             *)
(*   late     a thread accounted memory after exit_handler had marked the    *)
(*            slot                                                          *)
(*   midway   a process moved its own slot while another of its threads was  *)
(*            in the middle of an update, which goes on in the old place    *)

EmptySlot == [pid |-> NoPid, used |-> 0, odd |-> FALSE]

(* What init_proc_slot_withlock stores in the slot of p. *)
FreshSlot(p) == [pid |-> p, used |-> 0, odd |-> FALSE]

(* try_create_shrreg has set proc_num to 0 in a zero-filled file. *)
Init ==
  /\ procs = [i \in Slots |-> EmptySlot]
  /\ procNum = 0
  /\ lock = NoPid
  /\ up = [p \in Procs |-> TRUE]
  /\ ph = [p \in Procs |-> "new"]
  /\ found = [p \in Procs |-> 0]
  /\ mySlot = [p \in Procs |-> NoSlot]
  /\ walk = [p \in Procs |-> NoWalk]
  /\ wr = [p \in Procs |-> "no"]
  /\ target = [p \in Procs |-> NoSlot]
  /\ held = [p \in Procs |-> 0]
  /\ restarts = 0
  /\ foul = {}

Walking(p) == walk[p].pc # "no"

(* The slots below i that carry the pid p. *)
SlotsOf(p, i) == {j \in Slots : j < i /\ procs[j].pid = p}

First(S) == CHOOSE j \in S : \A k \in S : j <= k

Advance(p, a, b) ==
  /\ up[p]
  /\ ph[p] = a
  /\ ph' = [ph EXCEPT ![p] = b]

-----------------------------------------------------------------------------
(* Faulty variants of the definitions below, each with one plausible         *)
(* mistake: the properties of this module must tell them from the real ones. *)

(* the reused slot keeps the seqlock of the killed process *)
init_reuse_keeps_seqlock(p) ==
  LET own == SlotsOf(p, procNum) IN
  /\ procNum < MaxSlots
  /\ own # {}
  /\ Advance(p, "find", "clear")
  /\ procs' = [procs EXCEPT ![First(own)].used = 0]
  /\ mySlot' = [mySlot EXCEPT ![p] = First(own)]
  /\ walk' = [walk EXCEPT ![p] = [NoWalk EXCEPT !.pc = "look"]]
  /\ UNCHANGED <<procNum, lock, up, found, wr, target, held, restarts, foul>>

(* a slot that already carries the pid is not looked for *)
init_append_always(p) ==
  /\ procNum \in Slots
  /\ Advance(p, "find", "publish")
  /\ procs' = [procs EXCEPT ![procNum] = FreshSlot(p)]
  /\ mySlot' = [mySlot EXCEPT ![p] = procNum]
  /\ UNCHANGED <<procNum, lock, up, found, walk, wr, target, held, restarts, foul>>

(* the cached pointer stays behind when the own slot moves *)
walk_copy_keeps_pointer(p) ==
  /\ up[p] /\ walk[p].pc = "copy" /\ procNum \in Slots
  /\ procs' = [procs EXCEPT ![walk[p].at] = procs[procNum]]
  /\ walk' = [walk EXCEPT ![p].pc = "look"]
  /\ UNCHANGED <<procNum, lock, up, ph, found, mySlot, wr, target, held, restarts, foul>>

(* the walk does not ask whether the process of a slot is alive *)
Kickable_alive(p, i) ==
  /\ procs[i].pid # NoPid
  /\ walk[p].kicks < MaxKicks

-----------------------------------------------------------------------------
(* init_proc_slot_withlock *)

init_lock(p) ==
  /\ lock = NoPid
  /\ lock' = p
  /\ Advance(p, "new", "find")
  /\ foul' = foul \cup (IF \E q \in Procs : Walking(q) THEN {"race"} ELSE {})
  /\ UNCHANGED <<procs, procNum, up, found, mySlot, walk, wr, target, held, restarts>>

(* A slot with the pid of the process itself is left over from a killed      *)
(* process with that pid: it is reset and used again.                       *)
init_reuse(p) ==
  LET own == SlotsOf(p, procNum) IN
  /\ procNum < MaxSlots
  /\ own # {}
  /\ Advance(p, "find", "clear")
  /\ procs' = [procs EXCEPT ![First(own)] = FreshSlot(p)]
  /\ mySlot' = [mySlot EXCEPT ![p] = First(own)]
  /\ walk' = [walk EXCEPT ![p] = [NoWalk EXCEPT !.pc = "look"]]
  /\ UNCHANGED <<procNum, lock, up, found, wr, target, held, restarts, foul>>

init_append(p) ==
  /\ procNum \in Slots
  /\ SlotsOf(p, procNum) = {}
  /\ Advance(p, "find", "publish")
  /\ procs' = [procs EXCEPT ![procNum] = FreshSlot(p)]
  /\ mySlot' = [mySlot EXCEPT ![p] = procNum]
  /\ UNCHANGED <<procNum, lock, up, found, walk, wr, target, held, restarts, foul>>

init_publish(p) ==
  /\ Advance(p, "publish", "clear")
  /\ procNum' = procNum + 1
  /\ walk' = [walk EXCEPT ![p] = [NoWalk EXCEPT !.pc = "look"]]
  /\ UNCHANGED <<procs, lock, up, found, mySlot, wr, target, held, restarts, foul>>

init_unlock(p) ==
  /\ ~Walking(p)
  /\ Advance(p, "clear", "run")
  /\ lock' = IF lock = p THEN NoPid ELSE lock
  /\ UNCHANGED <<procs, procNum, up, found, mySlot, walk, wr, target, held, restarts, foul>>

-----------------------------------------------------------------------------
(* clear_proc_slot_nolock *)

(* oom_check: the limit is exceeded, so look for dead processes, unlocked. *)
oom_clear(p) ==
  /\ up[p] /\ ph[p] = "run" /\ p \in LimitedProcs
  /\ ~Walking(p)
  /\ walk' = [walk EXCEPT ![p] = [NoWalk EXCEPT !.pc = "look"]]
  /\ foul' = foul \cup
       (IF lock # NoPid \/ \E q \in Procs : Walking(q) THEN {"race"} ELSE {})
  /\ UNCHANGED <<procs, procNum, lock, up, ph, found, mySlot, wr, target, held, restarts>>

(* The slot under the cursor was marked by exit_handler, or its process is   *)
(* dead and the walk may still kick one.                                    *)
Marked(i) == procs[i].pid = NoPid

Kickable(p, i) ==
  /\ procs[i].pid # NoPid
  /\ ~up[procs[i].pid]
  /\ walk[p].kicks < MaxKicks

walk_remove(p) ==
  LET i == walk[p].at IN
  /\ up[p] /\ walk[p].pc = "look" /\ i < procNum
  /\ Marked(i) \/ Kickable(p, i)
  /\ procNum' = procNum - 1
  /\ walk' = [walk EXCEPT ![p] =
       [pc |-> "copy", at |-> i, kicks |-> IF Marked(i) THEN @.kicks ELSE @.kicks + 1]]
  /\ UNCHANGED <<procs, lock, up, ph, found, mySlot, wr, target, held, restarts, foul>>

walk_keep(p) ==
  LET i == walk[p].at IN
  /\ up[p] /\ walk[p].pc = "look" /\ i < procNum
  /\ ~(Marked(i) \/ Kickable(p, i))
  /\ walk' = [walk EXCEPT ![p].at = i + 1]
  /\ UNCHANGED <<procs, procNum, lock, up, ph, found, mySlot, wr, target, held, restarts, foul>>

walk_end(p) ==
  /\ up[p] /\ walk[p].pc = "look" /\ walk[p].at >= procNum
  /\ walk' = [walk EXCEPT ![p] = NoWalk]
  /\ UNCHANGED <<procs, procNum, lock, up, ph, found, mySlot, wr, target, held, restarts, foul>>

(* The last slot fills the gap.  If it is the walker's own, the cached       *)
(* pointer follows and the old place is emptied; an update that another      *)
(* thread has begun keeps the pointer it has taken.  (Two walks that race    *)
(* can take proc_num below 0: the walk then copies from outside the table,   *)
(* and is not followed further.)                                            *)
walk_copy(p) ==
  LET i == walk[p].at
      last == procNum
      moved == [procs EXCEPT ![i] = procs[last]]
  IN
  /\ up[p] /\ walk[p].pc = "copy" /\ last \in Slots
  /\ IF mySlot[p] = last
       THEN /\ mySlot' = [mySlot EXCEPT ![p] = i]
            /\ procs' = [moved EXCEPT ![last] = EmptySlot]
       ELSE /\ procs' = moved
            /\ UNCHANGED mySlot
  /\ walk' = [walk EXCEPT ![p].pc = "look"]
  /\ foul' = foul \cup
       (IF i # last /\ \E q \in Procs \ {p} : up[q] /\ mySlot[q] = last
          THEN {"moved"} ELSE {}) \cup
       (IF mySlot[p] = last /\ wr[p] # "no" THEN {"midway"} ELSE {})
  /\ UNCHANGED <<procNum, lock, up, ph, found, wr, target, held, restarts>>

-----------------------------------------------------------------------------
(* add_gpu_device_memory_usage, rm_gpu_device_memory_usage: the fast path.   *)
(* The thread that updates the total is not the one that walks.             *)

(* slot = my_slot, once for the whole call; seqlock + 1: a write is in       *)
(* progress                                                                 *)
usage_begin(p, d) ==
  /\ up[p] /\ ph[p] \in {"run", "mark", "done"}
  /\ p \in MemProcs
  /\ mySlot[p] # NoSlot
  /\ wr[p] = "no"
  /\ IF d = "add" THEN held[p] < MaxHeld ELSE held[p] > 0
  /\ wr' = [wr EXCEPT ![p] = d]
  /\ target' = [target EXCEPT ![p] = mySlot[p]]
  /\ procs' = [procs EXCEPT ![mySlot[p]].odd = ~@]
  /\ foul' = foul \cup (IF ph[p] = "done" THEN {"late"} ELSE {})
  /\ UNCHANGED <<procNum, lock, up, ph, found, mySlot, walk, held, restarts>>

(* used[dev].total and the field of its type, plus or minus the size *)
usage_total(p) ==
  LET d == IF wr[p] = "add" THEN 1 ELSE -1 IN
  /\ up[p] /\ wr[p] \in {"add", "rm"}
  /\ wr' = [wr EXCEPT ![p] = "end"]
  /\ procs' = [procs EXCEPT ![target[p]].used = (@ + d) % Word]
  /\ held' = [held EXCEPT ![p] = @ + d]
  /\ foul' = foul \cup (IF ph[p] = "done" THEN {"late"} ELSE {})
  /\ UNCHANGED <<procNum, lock, up, ph, found, mySlot, walk, target, restarts>>

(* seqlock + 1: the write is complete *)
usage_end(p) ==
  /\ up[p] /\ wr[p] = "end"
  /\ wr' = [wr EXCEPT ![p] = "no"]
  /\ target' = [target EXCEPT ![p] = NoSlot]
  /\ procs' = [procs EXCEPT ![target[p]].odd = ~@]
  /\ foul' = foul \cup (IF ph[p] = "done" THEN {"late"} ELSE {})
  /\ UNCHANGED <<procNum, lock, up, ph, found, mySlot, walk, held, restarts>>

-----------------------------------------------------------------------------
(* The end of a process *)

Vanish(p) ==
  /\ up[p]
  /\ up' = [up EXCEPT ![p] = FALSE]
  /\ ph' = [ph EXCEPT ![p] = "new"]
  /\ found' = [found EXCEPT ![p] = 0]
  /\ mySlot' = [mySlot EXCEPT ![p] = NoSlot]
  /\ walk' = [walk EXCEPT ![p] = NoWalk]
  /\ wr' = [wr EXCEPT ![p] = "no"]
  /\ target' = [target EXCEPT ![p] = NoSlot]
  /\ held' = [held EXCEPT ![p] = 0]
  /\ lock' = IF lock = p THEN NoPid ELSE lock
  /\ foul' = foul \cup (IF walk[p].pc = "copy" THEN {"torn"} ELSE {})
  /\ UNCHANGED <<procs, procNum, restarts>>

(* exit_handler looks for its pid in the whole table, beyond proc_num too;   *)
(* the other threads of the process keep running.                           *)
exit_scan(p) ==
  LET own == SlotsOf(p, MaxSlots) IN
  /\ p \in ExitProcs
  /\ Advance(p, "run", IF own = {} THEN "done" ELSE "mark")
  /\ found' = [found EXCEPT ![p] = IF own = {} THEN 0 ELSE First(own)]
  /\ UNCHANGED <<procs, procNum, lock, up, mySlot, walk, wr, target, held, restarts, foul>>

exit_mark(p) ==
  /\ Advance(p, "mark", "done")
  /\ procs' = [procs EXCEPT ![found[p]].pid = NoPid]
  /\ foul' = foul \cup (IF procs[found[p]].pid # p THEN {"clobber"} ELSE {})
  /\ found' = [found EXCEPT ![p] = 0]
  /\ UNCHANGED <<procNum, lock, up, mySlot, walk, wr, target, held, restarts>>

exited(p) == ph[p] = "done" /\ Vanish(p)

(* The table is full: exit_withlock(-1).  It unlocks, exit_handler marks a   *)
(* slot that carries the pid, and the process ends.                         *)
init_full(p) ==
  LET own == SlotsOf(p, MaxSlots) IN
  /\ ph[p] = "find" /\ procNum >= MaxSlots
  /\ up[p]
  /\ up' = [up EXCEPT ![p] = FALSE]
  /\ ph' = [ph EXCEPT ![p] = "new"]
  /\ lock' = IF lock = p THEN NoPid ELSE lock
  /\ procs' = IF own = {} THEN procs ELSE [procs EXCEPT ![First(own)].pid = NoPid]
  /\ UNCHANGED <<procNum, found, mySlot, walk, wr, target, held, restarts, foul>>

kill(p) == ph[p] # "done" /\ Vanish(p)

restart(p) ==
  /\ ~up[p]
  /\ restarts < MaxRestarts
  /\ restarts' = restarts + 1
  /\ up' = [up EXCEPT ![p] = TRUE]
  /\ UNCHANGED <<procs, procNum, lock, ph, found, mySlot, walk, wr, target, held, foul>>

-----------------------------------------------------------------------------
(* Specification *)

init_proc_slot_withlock(p) ==
  \/ init_lock(p)
  \/ init_full(p)
  \/ init_reuse(p)
  \/ init_append(p)
  \/ init_publish(p)
  \/ init_unlock(p)

clear_proc_slot_nolock(p) ==
  \/ walk_remove(p)
  \/ walk_keep(p)
  \/ walk_end(p)
  \/ walk_copy(p)

gpu_device_memory_usage(p) ==
  \/ \E d \in {"add", "rm"} : usage_begin(p, d)
  \/ usage_total(p)
  \/ usage_end(p)

exit_handler(p) ==
  \/ exit_scan(p)
  \/ exit_mark(p)
  \/ exited(p)

Next ==
  \E p \in Procs :
    \/ init_proc_slot_withlock(p)
    \/ oom_clear(p)
    \/ clear_proc_slot_nolock(p)
    \/ gpu_device_memory_usage(p)
    \/ exit_handler(p)
    \/ kill(p)
    \/ restart(p)

Spec == Init /\ [][Next]_vars

-----------------------------------------------------------------------------
(* Properties *)

(* The slots that count: those below proc_num, except that in the middle of  *)
(* a removal the last one stands for the one it is about to replace.        *)
Counted ==
  LET moving == {p \in Procs : walk[p].pc = "copy"} IN
  IF moving = {} THEN {i \in Slots : i < procNum}
  ELSE LET p == CHOOSE q \in moving : TRUE IN
       {i \in Slots : i <= procNum /\ (i # walk[p].at \/ i = procNum)}

(* A live process between its registration and its exit has one slot: its    *)
(* usage is neither forgotten nor counted twice.                            *)
RegisteredOnce ==
  \A p \in Procs :
    up[p] /\ ph[p] \in {"run", "mark"} =>
      Cardinality({i \in Counted : procs[i].pid = p}) = 1

(* None of the events that take a slot away from a live process. *)
Intact == foul \cap {"race", "clobber", "torn"} = {}

(* Kills, exits, reused pids and the removals of other processes leave every *)
(* live process with its one slot, until clear_proc_slot_nolock runs without *)
(* the lock next to another change, a process ends in the middle of a        *)
(* removal, or exit_handler marks a slot that was moved while it looked.     *)
RegisteredOnceUnlessRaced == Intact => RegisteredOnce

(* my_slot points to the slot of the process, and that slot records what the *)
(* process has accounted.                                                   *)
OwnSlot ==
  \A p \in Procs :
    up[p] /\ ph[p] = "run" =>
      /\ mySlot[p] \in Counted
      /\ procs[mySlot[p]].pid = p
      /\ procs[mySlot[p]].used = held[p]

(* The cached pointer is right, and the usage exact, until one of the six    *)
(* foul events happens; in particular a process always moves its own pointer *)
(* along when it moves its own slot.                                        *)
OwnSlotUnlessFoul == foul = {} => OwnSlot

(* The seqlock of a slot that counts is odd only while a live process writes *)
(* it, or when its process was killed in the middle of a write and the slot  *)
(* has not been removed: otherwise every reader would spin on it for ever.   *)
OddHasWriter ==
  foul = {} =>
    \A i \in Counted :
      procs[i].odd =>
        \/ procs[i].pid = NoPid
        \/ ~up[procs[i].pid]
        \/ ph[procs[i].pid] # "run"
        \/ wr[procs[i].pid] # "no"

-----------------------------------------------------------------------------
(* The table as a registry of totals *)

(* The processes that have registered and have not begun to leave. *)
Joined == {p \in Procs : up[p] /\ ph[p] \in {"clear", "run", "mark"}}

(* What the slots that count record for each process. *)
Totals ==
  [p \in Procs |->
     LET own == {i \in Counted : procs[i].pid = p} IN
     IF own = {} THEN 0 ELSE procs[First(own)].used]

Registry == INSTANCE Registry WITH live <- Joined, total <- Totals, intact <- foul = {}

(* As long as none of the six foul events happens, the table keeps for       *)
(* every live process one total that starts at zero and that no other        *)
(* process changes, wherever the slots are moved, and clear_proc_slot_nolock *)
(* removes only totals of processes that are gone.  (In the middle of a      *)
(* removal the last slot counts, as above: who sums up just then misses it.) *)
ImplementsRegistry == Registry!Spec
=============================================================================
