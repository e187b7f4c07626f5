----------------------------- MODULE Allocator ------------------------------
(***************************************************************************)
(* Allocation of device memory under a limit: oom_check, add_chunk,        *)
(* add_chunk_only, remove_chunk, remove_chunk_only (allocator.c) and the   *)
(* driver entry points that call them (cuda/memory.c).                     *)
(*                                                                         *)
(* Several processes, each with several threads, allocate and free at the  *)
(* same time.  The mutex and the list device_overallocated belong to one   *)
(* process; the memory totals in the slots are shared, written without a   *)
(* lock, and added up slot by slot by oom_check.  To the same totals the   *)
(* primary contexts and the stream-ordered pool add their own shares, the  *)
(* contexts without any check; how they come about is the subject of       *)
(* module Accounts, here a share is any number and changes at any time.    *)
(* The slots stay where they are (how they move is the subject of module   *)
(* ProcSlots).  A read of a slot waits for its seqlock to be even: one     *)
(* step.  The unlocked walk of remove_chunk_only through the list is one   *)
(* step as well, and what it may meet there is in raced.                   *)
(***************************************************************************)
EXTENDS Integers, Sequences, FiniteSets, Sums

CONSTANTS
  Procs,       \* processes of the container
  Threads,     \* all their threads
  ProcOf,      \* ProcOf[t]: the process of thread t
  Slots,       \* the processes in the order of their slots
  Mortal,      \* processes that may be killed
  Devs,        \* device indices
  Map,         \* cuda_to_nvml_map
  Limit,       \* region->limit, 0: no limit
  Sizes,       \* sizes that are asked for
  Asks,        \* Asks[t]: the allocations that t may ask for
  Handles,     \* addresses or handles that the driver gives out
  None,        \* no thread, no handle
  Word,        \* memory sizes are unsigned: modulo 2^64 in the code
  MaxOther,    \* bound: the most that contexts and pool add to a total
  Others,      \* processes that have contexts or a pool
  EntryFails   \* threads whose INIT_ALLOCATED_LIST_ENTRY may fail

(* cuMemAlloc_v2; cuMemAllocManaged and cuMemAllocPitch_v2; cuMemCreate *)
Calls == {"alloc", "managed", "create"}

Requests == [call : Calls, dev : Devs, size : Sizes]

ASSUME AllocatorAssumption ==
  /\ Procs # {}
  /\ IsFiniteSet(Threads)
  /\ ProcOf \in [Threads -> Procs]
  /\ Slots \in Seq(Procs)
  /\ \A p \in Procs : \E i \in DOMAIN Slots : Slots[i] = p
  /\ \A i, j \in DOMAIN Slots : Slots[i] = Slots[j] => i = j
  /\ Mortal \subseteq Procs
  /\ Devs # {} /\ Sizes # {}
  /\ Map \in [Devs -> Devs]
  /\ Word \in Nat \ {0} /\ MaxOther \in 0 .. Word - 1 /\ Others \subseteq Procs
  /\ Limit \in [Devs -> 0 .. Word - 1]
  /\ Sizes \subseteq 1 .. Word - 1
  /\ Asks \in [Threads -> SUBSET Requests]
  /\ None \notin Threads \cup Handles
  /\ EntryFails \subseteq Threads

VARIABLES
  up,     \* processes that are running
  used,   \* used[p][d]: the share of add_chunk* in procs[slot of p].used[d].total
  other,  \* other[p][d]: the share of contexts and pool in it
  list,   \* list[p]: device_overallocated
  drv,    \* drv[p][h]: size of what the driver has given out as h, 0 if nothing
  own,    \* own[p]: what the application has got and not freed: handle and call
  mutex,  \* mutex[p]: the thread that holds the allocator's mutex
  pc,     \* pc[t]
  req,    \* req[t]: the call, its device and its size
  hd,     \* hd[t]: the handle the thread works on
  sum,    \* sum[t]: _usage so far
  at,     \* at[t]: the slot that oom_check reads next
  stuck,  \* history: a thread left add_chunk* with the mutex locked
  lost,   \* history: lost[p]: handles whose tracking has failed once
  raced   \* history: the unlocked remove_chunk_only met another list operation
          \* or took the entry of another allocation

allocVars == <<up, used, list, drv, own, mutex, pc, req, hd, sum, at, stuck, lost, raced>>
vars == <<allocVars, other>>

-----------------------------------------------------------------------------
(* State *)

PC ==
  {"idle",     \* in the application
   "gone",     \* the process was killed
   "pre",      \* first oom_check
   "driver",   \* the driver allocates
   "lock",     \* waits for the mutex
   "post",     \* oom_check with the mutex
   "entry",    \* builds the list entry and adds it
   "account",  \* add_gpu_device_memory_usage and unlock
   "undo",     \* frees what it could not account
   "unlist",   \* remove_chunk waits for the mutex
   "settle",   \* rm_gpu_device_memory_usage and unlock
   "free",     \* frees at the driver
   "drop",     \* remove_chunk_only looks for the entry
   "unlink",   \* LIST_REMOVE of remove_chunk_only
   "deduct"}   \* rm_gpu_device_memory_usage of remove_chunk_only

(* Where a thread has the mutex. *)
Inside == {"post", "entry", "account", "settle"}

AnyRequest == CHOOSE r \in Requests : TRUE

Init ==
  /\ up = Procs
  /\ used = [p \in Procs |-> [d \in Devs |-> 0]]
  /\ other = [p \in Procs |-> [d \in Devs |-> 0]]
  /\ list = [p \in Procs |-> <<>>]
  /\ drv = [p \in Procs |-> [h \in Handles |-> 0]]
  /\ own = [p \in Procs |-> {}]
  /\ mutex = [p \in Procs |-> None]
  /\ pc = [t \in Threads |-> "idle"]
  /\ req = [t \in Threads |-> AnyRequest]
  /\ hd = [t \in Threads |-> None]
  /\ sum = [t \in Threads |-> 0]
  /\ at = [t \in Threads |-> 1]
  /\ stuck = [p \in Procs |-> FALSE]
  /\ lost = [p \in Procs |-> {}]
  /\ raced = [p \in Procs |-> FALSE]

Goto(t, a, b) == pc[t] = a /\ pc' = [pc EXCEPT ![t] = b]

(* The thread is back in the application; its locals are gone. *)
Return(t) ==
  /\ pc' = [pc EXCEPT ![t] = "idle"]
  /\ req' = [req EXCEPT ![t] = AnyRequest]
  /\ hd' = [hd EXCEPT ![t] = None]
  /\ sum' = [sum EXCEPT ![t] = 0]
  /\ at' = [at EXCEPT ![t] = 1]

(* The list of p becomes l.  LIST_REMOVE in remove_chunk_only takes no mutex: *)
(* when another thread is inside it, entries may get unlinked with it.        *)
SetList(t, l) ==
  LET p == ProcOf[t]
      race == \E u \in Threads \ {t} : ProcOf[u] = p /\ pc[u] = "unlink"
  IN
  IF race
    THEN \E keep \in SUBSET DOMAIN l :
           LET Kept(e) == \E i \in keep : l[i] = e IN
           /\ list' = [list EXCEPT ![p] = SelectSeq(l, Kept)]
           /\ raced' = [raced EXCEPT ![p] = TRUE]
    ELSE /\ list' = [list EXCEPT ![p] = l]
         /\ UNCHANGED raced

(* The first entry of the list that has the handle, 0 if none has. *)
Find(l, h) ==
  LET hits == {i \in DOMAIN l : l[i].h = h} IN
  IF hits = {} THEN 0 ELSE CHOOSE i \in hits : \A j \in hits : i <= j

Without(l, i) == SubSeq(l, 1, i - 1) \o SubSeq(l, i + 1, Len(l))

-----------------------------------------------------------------------------
(* oom_check *)

(* Starts to add up the totals. *)
StartCheck(t) ==
  /\ sum' = [sum EXCEPT ![t] = 0]
  /\ at' = [at EXCEPT ![t] = 1]

Checked(t) == at[t] > Len(Slots)

(* A faulty variant: the sum leaves out the other processes. *)
read_slot_own(t) ==
  /\ pc[t] \in {"pre", "post"}
  /\ ~Checked(t)
  /\ IF Slots[at[t]] = ProcOf[t]
       THEN sum' = [sum EXCEPT ![t] = (@ + used[ProcOf[t]][req[t].dev] + other[ProcOf[t]][req[t].dev]) % Word]
       ELSE UNCHANGED sum
  /\ at' = [at EXCEPT ![t] = @ + 1]
  /\ UNCHANGED <<up, other, used, list, drv, own, mutex, pc, req, hd, stuck, lost, raced>>

(* get_gpu_memory_usage reads one more slot, at the index of the CUDA device. *)
read_slot(t) ==
  /\ pc[t] \in {"pre", "post"}
  /\ ~Checked(t)
  /\ sum' = [sum EXCEPT ![t] = (@ + used[Slots[at[t]]][req[t].dev] + other[Slots[at[t]]][req[t].dev]) % Word]
  /\ at' = [at EXCEPT ![t] = @ + 1]
  /\ UNCHANGED <<up, other, used, list, drv, own, mutex, pc, req, hd, stuck, lost, raced>>

(* What the sum says, when all the slots have been read. *)
Over(t) ==
  LET d == req[t].dev IN
  Limit[d] # 0 /\ (sum[t] + req[t].size) % Word > Limit[d]

(* Slots of killed processes that have not been removed. *)
DeadSlots == {p \in Procs \ up : \E d \in Devs : used[p][d] # 0 \/ other[p][d] # 0}

Fits(t) == Checked(t) /\ ~Over(t)
Exceeds(t) == Checked(t) /\ Over(t) /\ DeadSlots = {}

(* Over the limit with slots of dead processes in the table:                *)
(* clear_proc_slot_nolock removes them and oom_check starts again.          *)
clear_and_retry(t) ==
  /\ pc[t] \in {"pre", "post"}
  /\ Checked(t) /\ Over(t) /\ DeadSlots # {}
  /\ used' = [p \in Procs |-> IF p \in DeadSlots THEN [d \in Devs |-> 0] ELSE used[p]]
  /\ other' = [p \in Procs |-> IF p \in DeadSlots THEN [d \in Devs |-> 0] ELSE other[p]]
  /\ StartCheck(t)
  /\ UNCHANGED <<up, list, drv, own, mutex, pc, req, hd, stuck, lost, raced>>

-----------------------------------------------------------------------------
(* Faulty variants of the actions below, each with one plausible mistake:    *)
(* the properties must tell them from the real ones.                        *)

(* add_chunk* goes on without waiting for the mutex *)
alloc_lock_unguarded(t) ==
  LET p == ProcOf[t] IN
  /\ mutex' = [mutex EXCEPT ![p] = t]
  /\ Goto(t, "lock", "post")
  /\ StartCheck(t)
  /\ UNCHANGED <<up, other, used, list, drv, own, req, hd, stuck, lost, raced>>

(* the early return keeps the mutex *)
post_check_undoes_locked(t) ==
  /\ Exceeds(t)
  /\ req[t].call = "alloc"
  /\ Goto(t, "post", "undo")
  /\ UNCHANGED <<up, other, used, list, drv, own, mutex, req, hd, sum, at, stuck, lost, raced>>

(* the memory is not given back to the driver *)
post_check_undoes_leaking(t) ==
  LET p == ProcOf[t] IN
  /\ pc[t] = "post" /\ Exceeds(t)
  /\ req[t].call = "alloc"
  /\ mutex' = [mutex EXCEPT ![p] = None]
  /\ Return(t)
  /\ UNCHANGED <<up, other, used, list, drv, own, stuck, lost, raced>>

(* remove_chunk_only leaves the total as it is *)
deduct_forgotten(t) ==
  /\ pc[t] = "deduct"
  /\ Return(t)
  /\ UNCHANGED <<up, other, used, list, drv, own, mutex, stuck, lost, raced>>

-----------------------------------------------------------------------------
(* Allocation *)

alloc_call(t) ==
  /\ Goto(t, "idle", "pre")
  /\ \E r \in Asks[t] : req' = [req EXCEPT ![t] = r]
  /\ StartCheck(t)
  /\ UNCHANGED <<up, other, used, list, drv, own, mutex, hd, stuck, lost, raced>>

(* Over the limit: CUDA_ERROR_OUT_OF_MEMORY, nothing was done. *)
pre_check_fails(t) ==
  /\ pc[t] = "pre" /\ Exceeds(t)
  /\ Return(t)
  /\ UNCHANGED <<up, other, used, list, drv, own, mutex, stuck, lost, raced>>

pre_check_passes(t) ==
  /\ Fits(t)
  /\ Goto(t, "pre", "driver")
  /\ UNCHANGED <<up, other, used, list, drv, own, mutex, req, hd, sum, at, stuck, lost, raced>>

driver_alloc(t) ==
  LET p == ProcOf[t] IN
  /\ Goto(t, "driver", "lock")
  /\ \E h \in Handles :
       /\ drv[p][h] = 0
       /\ drv' = [drv EXCEPT ![p][h] = req[t].size]
       /\ hd' = [hd EXCEPT ![t] = h]
  /\ UNCHANGED <<up, other, used, list, own, mutex, req, sum, at, stuck, lost, raced>>

driver_alloc_fails(t) ==
  /\ pc[t] = "driver"
  /\ Return(t)
  /\ UNCHANGED <<up, other, used, list, drv, own, mutex, stuck, lost, raced>>

(* pthread_mutex_lock in add_chunk and add_chunk_only, and the second check. *)
alloc_lock(t) ==
  LET p == ProcOf[t] IN
  /\ mutex[p] = None
  /\ mutex' = [mutex EXCEPT ![p] = t]
  /\ Goto(t, "lock", "post")
  /\ StartCheck(t)
  /\ UNCHANGED <<up, other, used, list, drv, own, req, hd, stuck, lost, raced>>

(* add_chunk gives the memory back. *)
post_check_undoes(t) ==
  LET p == ProcOf[t] IN
  /\ Exceeds(t)
  /\ req[t].call = "alloc"
  /\ Goto(t, "post", "undo")
  /\ mutex' = [mutex EXCEPT ![p] = None]
  /\ UNCHANGED <<up, other, used, list, drv, own, req, hd, sum, at, stuck, lost, raced>>

undo(t) ==
  LET p == ProcOf[t] IN
  /\ pc[t] = "undo"
  /\ drv' = [drv EXCEPT ![p][hd[t]] = 0]
  /\ Return(t)
  /\ UNCHANGED <<up, other, used, list, own, mutex, stuck, lost, raced>>

(* add_chunk_only returns -1, which its callers ignore: the application gets *)
(* the memory and nothing records it.                                       *)
post_check_ignored(t) ==
  LET p == ProcOf[t] IN
  /\ pc[t] = "post" /\ Exceeds(t)
  /\ req[t].call # "alloc"
  /\ mutex' = [mutex EXCEPT ![p] = None]
  /\ own' = [own EXCEPT ![p] = @ \cup {<<hd[t], req[t].call>>}]
  /\ lost' = [lost EXCEPT ![p] = @ \cup {hd[t]}]
  /\ Return(t)
  /\ UNCHANGED <<up, other, used, list, drv, stuck, raced>>

post_check_passes(t) ==
  /\ Fits(t)
  /\ Goto(t, "post", "entry")
  /\ UNCHANGED <<up, other, used, list, drv, own, mutex, req, hd, sum, at, stuck, lost, raced>>

(* INIT_ALLOCATED_LIST_ENTRY returns -1 from the function that expands it:   *)
(* the mutex stays locked and the memory is forgotten (add_chunk), or handed *)
(* out untracked (add_chunk_only).                                          *)
entry_fails(t) ==
  LET p == ProcOf[t] IN
  /\ t \in EntryFails
  /\ pc[t] = "entry"
  /\ stuck' = [stuck EXCEPT ![p] = TRUE]
  /\ lost' = [lost EXCEPT ![p] = @ \cup {hd[t]}]
  /\ own' = IF req[t].call = "alloc" THEN own
            ELSE [own EXCEPT ![p] = @ \cup {<<hd[t], req[t].call>>}]
  /\ Return(t)
  /\ UNCHANGED <<up, other, used, list, drv, mutex, raced>>

list_add(t) ==
  LET p == ProcOf[t] IN
  /\ Goto(t, "entry", "account")
  /\ SetList(t, Append(list[p], [h |-> hd[t], len |-> req[t].size, dev |-> req[t].dev]))
  /\ UNCHANGED <<up, other, used, drv, own, mutex, req, hd, sum, at, stuck, lost>>

(* add_gpu_device_memory_usage, at the index of the NVML device; unlock. *)
account(t) ==
  LET p == ProcOf[t] IN
  /\ pc[t] = "account"
  /\ used' = [used EXCEPT ![p][Map[req[t].dev]] = (@ + req[t].size) % Word]
  /\ mutex' = [mutex EXCEPT ![p] = None]
  /\ own' = [own EXCEPT ![p] = @ \cup {<<hd[t], req[t].call>>}]
  /\ Return(t)
  /\ UNCHANGED <<up, other, list, drv, stuck, lost, raced>>

-----------------------------------------------------------------------------
(* cuMemFree_v2, for what cuMemAlloc_v2, ...Managed or ...Pitch returned *)

free_call(t) ==
  LET p == ProcOf[t] IN
  /\ pc[t] = "idle"
  /\ \E o \in own[p] :
       /\ o[2] # "create"
       /\ own' = [own EXCEPT ![p] = @ \ {o}]
       /\ IF list[p] = <<>>  \* returns -1 before it locks
            THEN UNCHANGED <<pc, hd>>
            ELSE /\ pc' = [pc EXCEPT ![t] = "unlist"]
                 /\ hd' = [hd EXCEPT ![t] = o[1]]
  /\ UNCHANGED <<up, other, used, list, drv, mutex, req, sum, at, stuck, lost, raced>>

(* Takes the mutex and finds the entry; without one it unlocks and returns -1. *)
remove_chunk(t) ==
  LET p == ProcOf[t]
      i == Find(list[p], hd[t])
  IN
  /\ mutex[p] = None
  /\ i # 0
  /\ Goto(t, "unlist", "settle")
  /\ mutex' = [mutex EXCEPT ![p] = t]
  /\ SetList(t, Without(list[p], i))
  /\ req' = [req EXCEPT ![t] = [call |-> "alloc", dev |-> list[p][i].dev, size |-> list[p][i].len]]
  /\ UNCHANGED <<up, other, used, drv, own, hd, sum, at, stuck, lost>>

remove_chunk_unknown(t) ==
  LET p == ProcOf[t] IN
  /\ pc[t] = "unlist"
  /\ mutex[p] = None
  /\ Find(list[p], hd[t]) = 0
  /\ Return(t)
  /\ UNCHANGED <<up, other, used, list, drv, own, mutex, stuck, lost, raced>>

(* rm_gpu_device_memory_usage with the device of the entry; unlock. *)
settle(t) ==
  LET p == ProcOf[t] IN
  /\ Goto(t, "settle", "free")
  /\ used' = [used EXCEPT ![p][Map[req[t].dev]] = (@ - req[t].size) % Word]
  /\ mutex' = [mutex EXCEPT ![p] = None]
  /\ UNCHANGED <<up, other, list, drv, own, req, hd, sum, at, stuck, lost, raced>>

(* cuMemoryFree, outside the mutex *)
driver_free(t) ==
  LET p == ProcOf[t] IN
  /\ pc[t] = "free"
  /\ drv' = [drv EXCEPT ![p][hd[t]] = 0]
  /\ Return(t)
  /\ UNCHANGED <<up, other, used, list, own, mutex, stuck, lost, raced>>

-----------------------------------------------------------------------------
(* cuMemRelease: the driver first, then remove_chunk_only, without the mutex *)

release_call(t) ==
  LET p == ProcOf[t] IN
  /\ Goto(t, "idle", "drop")
  /\ \E o \in own[p] :
       /\ o[2] = "create"
       /\ own' = [own EXCEPT ![p] = @ \ {o}]
       /\ drv' = [drv EXCEPT ![p][o[1]] = 0]
       /\ hd' = [hd EXCEPT ![t] = o[1]]
  /\ UNCHANGED <<up, other, used, list, mutex, req, sum, at, stuck, lost, raced>>

(* Finds an entry with the handle and remembers its size and device.  If the  *)
(* handle's own tracking had failed, the entry is that of a newer allocation *)
(* to which the driver has given the same handle.                            *)
remove_chunk_only(t) ==
  LET p == ProcOf[t]
      i == Find(list[p], hd[t])
  IN
  /\ i # 0
  /\ Goto(t, "drop", "unlink")
  /\ req' = [req EXCEPT ![t] = [call |-> "create", dev |-> list[p][i].dev, size |-> list[p][i].len]]
  /\ raced' = [raced EXCEPT ![p] = @ \/ hd[t] \in lost[p]]
  /\ UNCHANGED <<up, other, used, list, drv, own, mutex, hd, sum, at, stuck, lost>>

unlink(t) ==
  LET p == ProcOf[t] IN
  /\ Goto(t, "unlink", "deduct")
  /\ SetList(t, LET i == Find(list[p], hd[t]) IN IF i = 0 THEN list[p] ELSE Without(list[p], i))
  /\ UNCHANGED <<up, other, used, drv, own, mutex, req, hd, sum, at, stuck, lost>>

remove_chunk_only_unknown(t) ==
  /\ pc[t] = "drop"
  /\ Find(list[ProcOf[t]], hd[t]) = 0
  /\ Return(t)
  /\ UNCHANGED <<up, other, used, list, drv, own, mutex, stuck, lost, raced>>

deduct(t) ==
  LET p == ProcOf[t] IN
  /\ pc[t] = "deduct"
  /\ used' = [used EXCEPT ![p][Map[req[t].dev]] = (@ - req[t].size) % Word]
  /\ Return(t)
  /\ UNCHANGED <<up, other, list, drv, own, mutex, stuck, lost, raced>>

-----------------------------------------------------------------------------
(* cuDevicePrimaryCtxRetain and cuDevicePrimaryCtxRelease add and take the   *)
(* size of a context, add_chunk_async and free_raw_async that of the pool,   *)
(* the first two without oom_check and without the mutex.                    *)
other_use(p) ==
  /\ p \in up \cap Others
  /\ \E d \in Devs, n \in 0 .. MaxOther : other' = [other EXCEPT ![p][d] = n]
  /\ UNCHANGED allocVars

(* SIGKILL: the driver takes back the memory, the slot stays as it was. *)
kill(p) ==
  LET Reset(f, v) == [t \in Threads |-> IF ProcOf[t] = p THEN v ELSE f[t]] IN
  /\ p \in up \cap Mortal
  /\ up' = up \ {p}
  /\ pc' = Reset(pc, "gone")
  /\ req' = Reset(req, AnyRequest)
  /\ hd' = Reset(hd, None)
  /\ sum' = Reset(sum, 0)
  /\ at' = Reset(at, 1)
  /\ list' = [list EXCEPT ![p] = <<>>]
  /\ drv' = [drv EXCEPT ![p] = [h \in Handles |-> 0]]
  /\ own' = [own EXCEPT ![p] = {}]
  /\ mutex' = [mutex EXCEPT ![p] = None]
  /\ UNCHANGED <<used, other, stuck, lost, raced>>

-----------------------------------------------------------------------------
(* Specification *)

allocate(t) ==
  \/ alloc_call(t)
  \/ read_slot(t)
  \/ clear_and_retry(t)
  \/ pre_check_fails(t)
  \/ pre_check_passes(t)
  \/ driver_alloc(t)
  \/ driver_alloc_fails(t)
  \/ alloc_lock(t)
  \/ post_check_undoes(t)
  \/ undo(t)
  \/ post_check_ignored(t)
  \/ post_check_passes(t)
  \/ entry_fails(t)
  \/ list_add(t)
  \/ account(t)

deallocate(t) ==
  \/ free_call(t)
  \/ remove_chunk(t)
  \/ remove_chunk_unknown(t)
  \/ settle(t)
  \/ driver_free(t)
  \/ release_call(t)
  \/ remove_chunk_only(t)
  \/ unlink(t)
  \/ remove_chunk_only_unknown(t)
  \/ deduct(t)

Next ==
  \/ \E t \in Threads : allocate(t) \/ deallocate(t)
  \/ \E p \in Procs : kill(p) \/ other_use(p)

Spec == Init /\ [][Next]_vars

-----------------------------------------------------------------------------
(* Properties *)

(* The CUDA and the NVML index of every device are the same, and no size is  *)
(* so close to the word that the sum that oom_check computes could wrap.     *)
NoWrap ==
  /\ \A d \in Devs : Map[d] = d
  /\ \A d \in Devs, n \in Sizes : Limit[d] # 0 => Len(Slots) * (Limit[d] + MaxOther) + n < Word

(* The total of a process on a device exceeds the limit of the device by no  *)
(* more than its contexts and pool, which are accounted apart: add_chunk*    *)
(* never lets its own share grow beyond the limit, however the threads, the  *)
(* other processes and the contexts interleave, since oom_check counts the   *)
(* own slot, and that share changes under the mutex only, or shrinks.        *)
(* (After a race on a list the total of that process may wrap below 0, and   *)
(* the sums that the other processes read with it.)                          *)
ProcWithinLimit ==
  (\A q \in Procs : ~raced[q]) =>
    \A p \in Procs, d \in Devs : Limit[d] # 0 => used[p][d] <= Limit[d]

(* The largest size that is asked for. *)
Largest == CHOOSE n \in Sizes : \A k \in Sizes : k <= n

(* The processes together may exceed the limit, since oom_check adds up the  *)
(* slots one by one while others allocate (see TotalWithinLimit), but,       *)
(* contexts and pools apart, by no more than one allocation for every        *)
(* process but one, however long they go on: of the checks that were passed, *)
(* the one that started last has counted all that the others had before      *)
(* theirs.                                                                   *)
TotalBounded ==
  (\A q \in Procs : ~raced[q]) =>
    \A d \in Devs :
      Limit[d] # 0 =>
        SumOf([p \in Procs |-> used[p][d]]) <= Limit[d] + (Cardinality(Procs) - 1) * Largest

(* A thread is between pthread_mutex_lock and unlock exactly when it holds   *)
(* the mutex of its process: no early return of add_chunk* or remove_chunk   *)
(* keeps the mutex (except the failed list entry, after which nobody gets    *)
(* it) and none releases it while another thread is inside.                  *)
MutexDiscipline ==
  /\ \A t \in Threads : pc[t] \in Inside => mutex[ProcOf[t]] = t
  /\ \A p \in Procs :
       mutex[p] # None => stuck[p] \/ (pc[mutex[p]] \in Inside /\ ProcOf[mutex[p]] = p)

(* What the driver has given to the process is in the list, or on its way in *)
(* or out in one thread, or under a handle whose tracking has failed: the    *)
(* interleavings of add_chunk* and remove_chunk* leak nothing else.          *)
DriverMemoryTracked ==
  \A p \in Procs, h \in Handles :
    drv[p][h] # 0 =>
      \/ raced[p]
      \/ Find(list[p], h) # 0
      \/ h \in lost[p]
      \/ \E t \in Threads :
           ProcOf[t] = p /\ hd[t] = h /\
           pc[t] \in {"lock", "post", "entry", "undo", "settle", "free"}

(* Memory that the list of p records and that belongs to the total of NVML   *)
(* device e.                                                                 *)
Listed(p, e) ==
  LET l == list[p] IN
  SumOf([i \in DOMAIN l |-> IF Map[l[i].dev] = e THEN l[i].len ELSE 0])

(* The same in the hands of the threads of p that are at places. *)
InHand(p, e, places) ==
  SumOf([t \in Threads |->
    IF ProcOf[t] = p /\ pc[t] \in places /\ Map[req[t].dev] = e THEN req[t].size ELSE 0])

(* The share of add_chunk* in the total of the slot is what the list         *)
(* device_overallocated adds up to, plus what a thread has just taken from   *)
(* the list, minus what a thread has just put into it: alloc and free in any *)
(* interleaving lose no byte.                                                *)
UsageMatchesList ==
  \A p \in up, e \in Devs :
    ~raced[p] =>
      used[p][e] = (Listed(p, e) + InHand(p, e, {"settle", "deduct"})
                      - InHand(p, e, {"account"})) % Word
=============================================================================
