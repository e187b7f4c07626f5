------------------------------ MODULE Accounts -------------------------------
(***************************************************************************)
(* What a process charges to its slot besides the allocations of module    *)
(* Allocator, and what the queries report of it:                           *)
(*   cuDevicePrimaryCtxRetain, ...Release_v2   the size of a context       *)
(*                                             (cuda/context.c)            *)
(*   add_chunk_async, remove_chunk_async       memory from the driver's    *)
(*                                             stream-ordered pool         *)
(*                                             (allocator.c)               *)
(*   cuMemGetInfo_v2, cuDeviceTotalMem_v2, nvmlDeviceGetMemoryInfo         *)
(* One process with several threads; the usage of the others changes as    *)
(* they like.  Charges go to the NVML index that cuda_to_nvml_map gives a  *)
(* device, and that need not be the one it has.  An operation on the pool  *)
(* holds the process's mutex throughout and is one step.                   *)
(***************************************************************************)
EXTENDS Integers, FiniteSets, FiniteSetsExt, Sums

CONSTANTS Threads,
          Devs,         \* device indices, 0 .. n - 1
          Maps,         \* NVML indices of the devices CUDA_VISIBLE_DEVICES names
          Limits,       \* values of region->limit
          Physical,     \* memory of a device
          Word,         \* sizes are unsigned: 2^64 in the code
          ContextSize,  \* what NVML reports for a context
          Sizes,        \* sizes asked of the pool
          Addrs,        \* addresses the pool hands out
          Granule,      \* the pool reserves a multiple of this
          Others,       \* what other processes may use of the devices
          MaxRefs,      \* bound: references to primary contexts
          MaxFouls      \* bound: kinds of trouble in one behaviour

(* The memory of a device is far below the range of a size, and a context   *)
(* fits into it; CUDA_VISIBLE_DEVICES names a device once.                  *)
ASSUME AccountsAssumption ==
    /\ Word \in Nat \ {0} /\ Granule \in Nat \ {0}
    /\ Physical \in Nat /\ Physical < Word \div 2
    /\ ContextSize \in 0..Physical
    /\ Devs \subseteq Nat /\ 0 \in Devs
    /\ Maps \subseteq [Devs -> Devs]
    /\ \A m \in Maps : \A d, e \in Devs : m[d] = m[e] => d = e
    /\ Limits \subseteq [Devs -> Nat]
    /\ Sizes \subseteq Nat /\ Others \subseteq [Devs -> Nat]

VARIABLES
    map,             \* cuda_to_nvml_map_array
    visible,         \* the NVML index each CUDA device really has
    nvml,            \* nvml_preInit has run
    limit,
    context, data,   \* used[n].context_size and .data_size of the process's slot
    other,           \* usage in the slots of other processes
    context_size, ctx_activate,
    refs,            \* references the driver counts for each primary context
    cur,             \* the device of each thread's current context
    pc, on,          \* where a thread is, and on which device
    alimit,          \* device_allocasync->limit
    list,            \* device_allocasync: address, length
    blocks,          \* what the driver has given out: address, device, size, pool
    high,            \* CU_MEMPOOL_ATTR_RESERVED_MEM_HIGH of each pool
    started,         \* postInit has run
    foul             \* history: what has happened that the accounts do not allow for

contextVars == <<context, context_size, ctx_activate, refs, pc, on, started>>
poolVars == <<data, alimit, list, blocks, high>>
deviceVars == <<map, visible, nvml, limit>>
vars == <<deviceVars, other, cur, contextVars, poolVars, foul>>

Init ==
    /\ map = [d \in Devs |-> 0] /\ visible \in Maps /\ nvml = FALSE
    /\ limit \in Limits
    /\ context = [n \in Devs |-> 0] /\ data = [n \in Devs |-> 0]
    /\ other \in Others
    /\ context_size = 0
    /\ ctx_activate = [d \in Devs |-> 0] /\ refs = [d \in Devs |-> 0]
    /\ cur = [t \in Threads |-> 0]
    /\ pc = [t \in Threads |-> "idle"] /\ on = [t \in Threads |-> 0]
    /\ alimit = 0 /\ list = {} /\ blocks = {} /\ high = [d \in Devs |-> 0]
    /\ started = FALSE
    /\ foul = {}

(* Records what the step does that the accounts do not allow for: each kind *)
(* of trouble once in a behaviour.                                          *)
Marks(new) ==
    /\ foul \cap new = {}
    /\ foul' = foul \cup new
    /\ Cardinality(foul') <= MaxFouls

Plus(a, b) == (a + b) % Word
Minus(a, b) == (a - b) % Word

(* add_gpu_device_memory_usage and rm_gpu_device_memory_usage for the       *)
(* process itself.                                                          *)
Charge(account, d, size) == [account EXCEPT ![map[d]] = Plus(@, size)]
Discharge(account, d, size) == [account EXCEPT ![map[d]] = Minus(@, size)]

(* get_gpu_memory_usage.                                                    *)
Usage(n) == Plus(Plus(context[n], data[n]), other[n])

(* oom_check, at the CUDA index.                                            *)
oom_check(d, addon) == limit[d] # 0 /\ Plus(Usage(d), addon) > limit[d]

(***************************************************************************)
(* Contexts.                                                               *)
(***************************************************************************)
Identity == [d \in Devs |-> d]

(* nvml_preInit, once: the application's own call of nvmlInit.              *)
nvmlInit ==
    /\ ~nvml
    /\ nvml' = TRUE
    /\ map' = Identity
    /\ UNCHANGED <<visible, limit, other, cur, contextVars, poolVars, foul>>

(* map_cuda_visible_devices sets the map; then set_task_pid calls nvmlInit, *)
(* which puts the identity back if it is the first call.  set_task_pid      *)
(* retains a context while context_size is 0, which charges nothing.  With  *)
(* a host pid it learns the size of the context, if the process has a slot, *)
(* and releases it; without one it does neither.                            *)
postInit(found, inTable) ==
    /\ ~started
    /\ started' = TRUE
    /\ map' = IF nvml THEN visible ELSE Identity
    /\ nvml' = TRUE
    /\ context_size' = IF found /\ inTable THEN ContextSize ELSE 0
    /\ refs' = IF found THEN refs ELSE [refs EXCEPT ![0] = @ + 1]
    /\ UNCHANGED <<visible, limit, other, cur, context, ctx_activate, pc, on, poolVars, foul>>

(* A call that is in the middle of its accounting on device d.              *)
Midway(d) == \E t \in Threads : pc[t] # "idle" /\ on[t] = d

(* The driver's call, the test of ctx_activate and the charge.              *)
cuDevicePrimaryCtxRetain(t, d) ==
    /\ started /\ pc[t] = "idle" /\ SumOf(refs) < MaxRefs
    /\ pc' = [pc EXCEPT ![t] = "retain"]
    /\ on' = [on EXCEPT ![t] = d]
    /\ \E ok \in BOOLEAN :
         /\ refs' = IF ok THEN [refs EXCEPT ![d] = @ + 1] ELSE refs
         /\ Marks({f \in {"failed", "raced"} : \/ f = "failed" /\ ~ok
                                               \/ f = "raced" /\ Midway(d)})
    /\ context' = IF ctx_activate[d] = 0 THEN Charge(context, d, context_size) ELSE context
    /\ UNCHANGED <<deviceVars, other, cur, context_size, ctx_activate, started, poolVars>>

retain_activates_not(t) ==
    /\ pc[t] = "retain"
    /\ pc' = [pc EXCEPT ![t] = "idle"]
    /\ on' = [on EXCEPT ![t] = 0]
    /\ UNCHANGED <<deviceVars, other, cur, context, context_size, ctx_activate, refs, started, poolVars, foul>>

retain_activates(t) ==
    /\ pc[t] = "retain"
    /\ ctx_activate' = IF context_size > 0 THEN [ctx_activate EXCEPT ![on[t]] = 1] ELSE ctx_activate
    /\ pc' = [pc EXCEPT ![t] = "idle"]
    /\ on' = [on EXCEPT ![t] = 0]
    /\ UNCHANGED <<deviceVars, other, cur, context, context_size, refs, started, poolVars, foul>>

cuDevicePrimaryCtxRelease_unguarded(t, d) ==
    /\ started /\ pc[t] = "idle" /\ refs[d] > 0
    /\ pc' = [pc EXCEPT ![t] = "release"]
    /\ on' = [on EXCEPT ![t] = d]
    /\ context' = Discharge(context, d, ContextSize)
    /\ UNCHANGED <<deviceVars, other, cur, context_size, ctx_activate, refs, started, poolVars, foul>>

cuDevicePrimaryCtxRelease_v2(t, d) ==
    /\ started /\ pc[t] = "idle" /\ refs[d] > 0
    /\ pc' = [pc EXCEPT ![t] = "release"]
    /\ on' = [on EXCEPT ![t] = d]
    /\ context' = IF ctx_activate[d] = 1 THEN Discharge(context, d, context_size) ELSE context
    /\ Marks({f \in {"nested", "raced"} : \/ f = "nested" /\ refs[d] > 1
                                          \/ f = "raced" /\ Midway(d)})
    /\ UNCHANGED <<deviceVars, other, cur, context_size, ctx_activate, refs, started, poolVars>>

(* Clears ctx_activate and calls the driver.                                *)
release_deactivates(t) ==
    /\ pc[t] = "release"
    /\ ctx_activate' = [ctx_activate EXCEPT ![on[t]] = 0]
    /\ refs' = [refs EXCEPT ![on[t]] = Max({@ - 1, 0})]
    /\ pc' = [pc EXCEPT ![t] = "idle"]
    /\ on' = [on EXCEPT ![t] = 0]
    /\ UNCHANGED <<deviceVars, other, cur, context, context_size, started, poolVars, foul>>

(* The application changes the current context of a thread.                 *)
cuCtxSetCurrent(t, d) ==
    /\ pc[t] = "idle" /\ cur[t] # d
    /\ cur' = [cur EXCEPT ![t] = d]
    /\ UNCHANGED <<deviceVars, other, contextVars, poolVars, foul>>

(***************************************************************************)
(* The stream-ordered pool.                                                *)
(***************************************************************************)
SizeOf(bs) == SumOf([b \in bs |-> b.size])
LiveOn(d) == SizeOf({b \in blocks : b.dev = d})

RoundUp(n) == ((n + Granule - 1) \div Granule) * Granule

(* A block that the driver serves from elsewhere, not from the pool of the  *)
(* device: memory of a graph while the stream is captured.                  *)
NoPool == -1
Pools(d) == {d, NoPool}

(* What the pool of device d has reserved with its blocks bs.  It gives     *)
(* memory back when blocks are freed; the high-water mark stays.            *)
Reserved(d, bs) == RoundUp(SizeOf({b \in bs : b.pool = d}))

(* The driver has room for a block: it gives out no more than there is.     *)
Room(d, size) == LiveOn(d) + size <= Physical

(* How much of a block is charged: what the high-water mark exceeds the     *)
(* charges by, and the size of the block at most.                           *)
allocsize_all(poollimit, size) ==
    IF poollimit > alimit THEN poollimit - alimit ELSE 0

allocsize_beyond(poollimit, size) ==
    IF poollimit > alimit + size THEN Min({poollimit - alimit, size}) ELSE 0

allocsize(poollimit, size) ==
    IF poollimit > alimit THEN Min({poollimit - alimit, size}) ELSE 0

(* The driver has given out a block, and then fails to tell about its pool: *)
(* the error is returned, the block stays.                                  *)
add_chunk_async_fails(t, size, a, pool) ==
    LET d == cur[t] IN
    /\ started /\ pc[t] = "idle" /\ \A b \in blocks : b.addr # a
    /\ ~oom_check(d, size) /\ Room(d, size)
    /\ blocks' = blocks \cup {[addr |-> a, dev |-> d, size |-> size, pool |-> pool]}
    /\ high' = [high EXCEPT ![d] = Max({@, Reserved(d, blocks')})]
    /\ Marks({"poolfail"})
    /\ UNCHANGED <<deviceVars, other, cur, contextVars, data, alimit, list>>

(* With a high-water mark of 0 nothing is charged, but the entry keeps the  *)
(* size of the block as its length.                                         *)
add_chunk_async(t, size, a, pool) ==
    LET d == cur[t]
        block == [addr |-> a, dev |-> d, size |-> size, pool |-> pool]
        poollimit == Max({high[d], Reserved(d, blocks \cup {block})})
        charge == IF poollimit = 0 THEN 0 ELSE allocsize(poollimit, size)
        length == IF poollimit = 0 THEN size ELSE charge
    IN
    /\ started /\ pc[t] = "idle" /\ \A b \in blocks : b.addr # a
    /\ ~oom_check(d, size) /\ Room(d, size)
    /\ blocks' = blocks \cup {block}
    /\ high' = [high EXCEPT ![d] = poollimit]
    /\ data' = Charge(data, d, charge)
    /\ alimit' = Plus(alimit, charge)
    /\ list' = list \cup {[addr |-> a, len |-> length]}
    /\ Marks({f \in {"multi", "uncharged", "elsewhere"} :
                 \/ f = "multi" /\ \E b \in blocks : b.dev # d
                 \/ f = "uncharged" /\ poollimit = 0
                 \/ f = "elsewhere" /\ poollimit # 0 /\ pool = NoPool})
    /\ UNCHANGED <<deviceVars, other, cur, contextVars>>

(* The driver's answer is not looked at.  The charge is taken back on the   *)
(* device that is current now.                                              *)
remove_chunk_async(t, a, ok) ==
    \E e \in {x \in list : x.addr = a} :
        /\ pc[t] = "idle"
        /\ list' = list \ {e}
        /\ blocks' = IF ok THEN {b \in blocks : b.addr # a} ELSE blocks
        /\ alimit' = Minus(alimit, e.len)
        /\ data' = Discharge(data, cur[t], e.len)
        /\ Marks({f \in {"switched", "freefail"} :
                     \/ f = "switched" /\ \E b \in blocks : b.addr = a /\ b.dev # cur[t]
                     \/ f = "freefail" /\ ~ok})
        /\ UNCHANGED <<deviceVars, other, cur, contextVars, high>>

(* cuMemPoolSetAttribute passes on what the application sets, and with it   *)
(* the high-water mark may be reset to what is reserved now.                *)
cuMemPoolSetAttribute(d) ==
    /\ high[d] # Reserved(d, blocks)
    /\ high' = [high EXCEPT ![d] = Reserved(d, blocks)]
    /\ UNCHANGED <<deviceVars, other, cur, contextVars, data, alimit, list, blocks, foul>>

(* The slots of the other processes.                                        *)
others_use(usage) ==
    /\ other # usage
    /\ other' = usage
    /\ UNCHANGED <<deviceVars, cur, contextVars, poolVars, foul>>

Next ==
    \/ nvmlInit
    \/ \E found, inTable \in BOOLEAN : postInit(found, inTable)
    \/ \E t \in Threads :
         \/ \E d \in Devs : \/ cuDevicePrimaryCtxRetain(t, d)
                            \/ cuDevicePrimaryCtxRelease_v2(t, d)
                            \/ cuCtxSetCurrent(t, d)
         \/ retain_activates(t)
         \/ release_deactivates(t)
         \/ \E a \in Addrs :
              \/ \E size \in Sizes, pool \in Pools(cur[t]) :
                   \/ add_chunk_async_fails(t, size, a, pool)
                   \/ add_chunk_async(t, size, a, pool)
              \/ \E ok \in BOOLEAN : remove_chunk_async(t, a, ok)
    \/ \E d \in Devs : cuMemPoolSetAttribute(d)
    \/ \E usage \in Others : others_use(usage)

Spec == Init /\ [][Next]_vars

(***************************************************************************)
(* Queries.                                                                *)
(***************************************************************************)
Report(free, total, used) == [free |-> free, total |-> total, used |-> used]

(* At the NVML index, for the device of the current context.  The driver    *)
(* itself reports Physical as the total.                                    *)
cuMemGetInfo_v2(d) ==
    LET n == map[d]
        actual_limit == Min({limit[n], Physical})
    IN  IF limit[n] = 0 THEN Report(Minus(Physical, Usage(n)), Physical, Usage(n))
        ELSE IF limit[n] < Usage(n) THEN "CUDA_ERROR_INVALID_VALUE"
        ELSE Report(Max({actual_limit - Usage(n), 0}), actual_limit, Usage(n))

nvml_to_cuda_map(n) == IF \E d \in Devs : map[d] = n THEN Min({d \in Devs : map[d] = n}) ELSE -1

nvmlDeviceGetMemoryInfo_free(n, free) ==
    LET d == nvml_to_cuda_map(n) IN Report(free, limit[d], Usage(d))

(* At the CUDA index of the device.  free is what the driver reports.       *)
nvmlDeviceGetMemoryInfo(n, free) ==
    LET d == nvml_to_cuda_map(n)
    IN  IF d < 0 THEN Report(free, Physical, Minus(Physical, free))
        ELSE IF limit[d] = 0 THEN Report(free, Physical, Usage(d))
        ELSE Report(Minus(limit[d], Usage(d)), limit[d], Usage(d))

cuDeviceTotalMem_v2(d) == limit[d]

(***************************************************************************)
(* Properties.                                                             *)
(***************************************************************************)
(* The map no longer says which devices the process uses: NVML was first    *)
(* initialised by postInit itself, after map_cuda_visible_devices.          *)
Remapped == started /\ map # visible

(* A primary context the process holds is charged, once, and one that it    *)
(* has given up is not, as long as no retain has failed, no two calls for   *)
(* the device have overlapped and no context was held twice when a          *)
(* reference to it was released (context.c does its own counting with one   *)
(* flag per device).  The charge is to the device that it is.               *)
ContextChargedOnce ==
    ~Remapped /\ context_size > 0 /\ foul \cap {"failed", "raced", "nested"} = {} =>
        \A d \in Devs : ~Midway(d) =>
            context[visible[d]] = IF refs[d] > 0 THEN context_size ELSE 0

(* No account of the process falls below zero, which would show as a huge   *)
(* usage, unless a block was freed under another device's context, two      *)
(* calls for a context overlapped, or a block came when the high-water mark *)
(* of the pool was 0: it is not charged, and its free takes its size off.   *)
NoUnderflow ==
    foul \cap {"raced", "switched", "uncharged"} = {} =>
        \A n \in Devs : context[n] < Word \div 2 /\ data[n] < Word \div 2

(* While the process gets its blocks from the pool of one device, and no    *)
(* call of the driver fails, every live block is charged in full, to the    *)
(* device it is on, although the charge is derived from a high-water mark   *)
(* that covers freed blocks and may be reset.                               *)
PoolCovered ==
    ~Remapped /\ foul \cap {"multi", "switched", "poolfail", "freefail", "uncharged", "elsewhere"} = {} =>
        \A d \in Devs : data[visible[d]] = LiveOn(d)

(* Even with the pools of several devices, blocks from elsewhere and        *)
(* failing calls the charge is at most what is live.                        *)
PoolNotOvercharged ==
    started /\ foul \cap {"switched", "uncharged"} = {} => \A d \in Devs : data[map[d]] <= LiveOn(d)

(* For a device with the same CUDA and NVML index and a limit the device    *)
(* can hold, the CUDA query, the NVML query and the admission check tell    *)
(* the same story while the usage is within the limit: equal reports, and   *)
(* exactly what they call free can still be allocated.                      *)
QueriesAgree ==
    \A d \in Devs :
        started /\ map[d] = d /\ limit[d] # 0 /\ limit[d] <= Physical /\ Usage(d) <= limit[d] =>
            LET r == cuMemGetInfo_v2(d)
            IN  /\ \A free \in {0, Physical} : nvmlDeviceGetMemoryInfo(d, free) = r
                /\ r.total = cuDeviceTotalMem_v2(d)
                /\ r.free + r.used = r.total
                /\ ~oom_check(d, r.free) /\ oom_check(d, r.free + 1)
=============================================================================
