# A TLA+ verification project for HAMi-core

HAMi-core is a shared library that is preloaded into the CUDA processes of a
container. It stands between the application and the CUDA and NVML libraries,
counts the device memory that the processes of the container allocate, refuses
what exceeds a limit, and delays kernel launches to hold a share of the cores.
The processes coordinate through one file that they all map, the *shared
region*. There is no server: every process may be killed at any instruction, and
what it has written stays.

Source files are named relative to `src/` of the repository; `MML` stands for
`multiprocess/multiprocess_memory_limit.c`.

## Inventory

| Component | State | Operations | What makes it correct |
|---|---|---|---|
| Shared-region lock (MML) | `sem`, `owner_pid` | `lock_shrreg`, `unlock_shrreg`, `exit_handler` | exclusion; recovery after a killed owner; nobody waits for ever |
| Process slot table (MML) | `procs[]`, `proc_num`, each process's cached `my_slot` | `init_proc_slot_withlock`, `clear_proc_slot_nolock`, `exit_handler`, `add_/rm_gpu_device_memory_usage` | a live process has exactly one slot, its pointer names it, its total is exact, its seqlock becomes even |
| Memory allocator (`allocator/`, `cuda/memory.c`) | per process: `mutex`, `device_overallocated`; shared: the totals in the slots | `oom_check`, `add_chunk(_only)`, `remove_chunk(_only)` and their callers | usage within the limit; total = list; nothing leaked; mutex released |
| Stream-ordered pool (`allocator/`) | `device_allocasync`, its `limit` | `add_chunk_async`, `remove_chunk_async` | what is live is charged, to its device, and no more |
| Usage queries (`nvml/hook.c`, `cuda/memory.c`, `cuda/device.c`) | none | `cuMemGetInfo_v2`, `cuDeviceTotalMem_v2`, `nvmlDeviceGetMemoryInfo` | they agree with each other and with `oom_check` |
| Core limiter (`multiprocess_utilization_watcher.c`) | tokens, share, cached limit and switch | `rate_limiter`, `change_token`, `delta`, watcher loop | tokens bounded, no update lost; a launch that waits goes on |
| Priority scheduling (MML, a monitor outside) | `recent_kernel`, `utilization_switch` | blocking and releasing launches | a block stands |
| Host pid detection (`libvgpu.c`, `utils.c`, MML) | `sem_postinit`, `hostpid`, `pidfound` | `lock_postinit`, `set_task_pid`, `set_host_pid` | one process at a time; a pid belongs to its process; nobody waits for ever |
| Suspend and resume (MML, `shrreg_tool.c`) | `status` in the slots | signals, `wait_status_all`, `ENSURE_RUNNING` | all stop, stay stopped, and the tool returns |
| Region creation (MML) | the file, `initialized_flag`, limits | `try_create_shrreg`, `create_new` | initialised before use, limits fixed |
| Limit parsing (MML) | none | `get_limit_from_env`, `load_env_from_file` | the value that was written, or none |
| Contexts (`cuda/context.c`) | `ctx_activate`, `context_size` | retain, release | charged once per context |
| Interception (`libvgpu.c`, `cuda/hook.c`, `nvml/hook.c`) | the tables, the ring `dlmap`, the `pthread_once` flags | `dlsym`, `cuGetProcAddress`, the initialisers | no unknown way past the wrappers, none that calls NULL; initialisers that do not wait for each other and come in order |
| Pass-through (`cuda/`, `nvml/nvml_entry.c`) | none | some 450 wrappers | each calls the table row of its own name |

Components interact through the region: the lock serialises changes of the slot
table and the writing of utilization samples; the table carries the memory
totals that the allocator checks; `oom_check` removes dead slots itself, without
the lock; the watcher thread takes the lock in every process with a core limit;
`exit_handler` releases the lock and marks the slot of a process that exits,
while that process's other threads still run.

What is hard here: kills between any two writes, reused pids, state cached
across moves (`my_slot`), checks that precede their update by several steps,
updates with and without a lock, and waits that nobody may ever end. The list of
such places, each at its line, is `hazards` in `PROJECT.json`.

## Modules

| Module | Models | Composes |
|---|---|---|
| `RobustMutex` | what the lock promises: a mutex that may be orphaned by the death of its holder and recovered, or lost | |
| `ShrregLock` | the lock, one action per atomic access to `sem` and `owner_pid` | refines `RobustMutex` |
| `Registry` | what the slot table promises: one total per live process, which nobody else changes | |
| `ProcSlots` | the slot table; the lock is a mutex that its holder's death frees (what `ShrregLock` recovers to) | refines `Registry` |
| `Allocator` | allocation and freeing by several threads of several processes | totals of the slots, as fixed slots |
| `Accounts` | what is charged besides: contexts and the stream-ordered pool; the queries that report it | the slot of one process |
| `RateLimiter` | launches, watcher and monitor of one process on one device | |
| `Limits` | limits from environment variables and from the override file | |
| `Startup` | creation of the region, registration, host pid detection, suspend and resume | `Limits`; registration in one step |
| `EntryPoints` | the intercepted names: tables, wrappers | |
| `Symbols` | `dlsym`, `cuGetProcAddress`, the initialisers and the table loads | `EntryPoints` |
| `Sums` | sums of sizes, for the properties that compare a total with what it is the total of | |
| `SumProofs` | facts about sums and remainders that the proofs about `Allocator` and `Accounts` share | |
| `ShrregLockProofs`, `ProcSlotsProofs`, `AllocatorProofs`, `AccountsProofs`, `RateLimiterProofs`, `StartupProofs`, `SymbolsProofs` | proofs | |
| `MCLock`, `MCSlots`, `MCAllocator`, `MCAccounts`, `MCLimiter`, `MCStartup`, `MCSymbols` | instances for TLC, symmetry, constraints | |

### ShrregLock

`pc[p]` follows the one thread of process `p` that is in the lock code: the main
thread during `init_proc_slot_withlock`, later the watcher thread. `xpc[p]`
follows the thread that runs `exit_handler`. The steps are the atomic accesses:
`sem_timedwait` succeeding, the store of `owner_pid`, the timeout with the load
of `owner_pid`, the answer of `proc_alive`, the CAS, each `sem_post`. `kill` may
come between any two of them, and `restart` gives the pid to a new process. The
counter of trials stops one above its bound (only `trials > 30` is asked of it).
The history variable `stolen` records that a CAS (of `exit_handler`, or of the
recovery after a reused pid) released the lock while the thread it belonged to
was still running inside.

### ProcSlots

A slot is its pid, memory total and whether its seqlock is odd. Registering has
the steps lock, find-and-write, `proc_num + 1`, clear, unlock. A removal has two
steps, `proc_num--` and the copy of the last slot. A usage update has three:
seqlock odd, total, seqlock even; `target` is the slot it has taken from
`my_slot` at its start and stays with. `exit_handler` has two: find the pid,
then store 0. A copy of a slot is one step. The history variable `foul` names
six events after which a live process may lose its slot or its exact total:
`race` (an unlocked removal next to another change), `moved` (another live
process's slot is moved), `clobber` (`exit_handler` marks a slot that was moved
meanwhile), `torn` (death in the middle of a removal), `late` (usage accounted
after the slot was marked), `midway` (a process moves its own slot, which
corrects `my_slot`, while another of its threads is in the middle of an update,
which goes on in the old place). All six are reachable. The properties say that
these are the only ways; two runs show what two of them do. `Registry` is the
table without its slots: processes join with a zero total, account, leave with
or without their total, and totals of processes that have left are cleared. Its
state is mapped to the processes from their publication to their mark (`Joined`)
and to what the slots that count record (`Totals`). In the middle of a removal
the last slot counts in the place of the one it replaces: the code that sums the
slots up without the lock can miss it just then, which neither module rules out.

### Allocator

Each thread goes through first check, driver call, mutex, second check, list
entry, total. `oom_check` reads one slot per step. `managed` stands for
`cuMemAllocManaged` and `cuMemAllocPitch_v2`, which differ in the computation of
the size only. Sizes are unsigned and wrap at `Word`. The total of a slot has
two parts: `used`, what `add_chunk` and its like have added, and `other`, what
contexts and the stream-ordered pool have added, the contexts without any check
and without the mutex (`cuda/context.c:19`). `oom_check` sums both; `other` is
any number up to `MaxOther` and changes at any time. A bound on `used` is
therefore all that `oom_check` can give: a process whose context comes late has
more in its slot than the limit. `remove_chunk_only` walks and unlinks without
the mutex: its walk is one step, and when another list operation falls into that
window, the list keeps any part of its entries and the history variable `raced`
is set; it is also set when a release removes the entry of a newer allocation
that got the same handle. `lost` holds the handles whose tracking has failed
(second check or list entry in `add_chunk_only`), `stuck` the processes whose
mutex was left locked by a failed list entry. A killed process's usage stays
until a check that fails removes it and starts again. Host-located `cuMemCreate`
is not counted by the code and has no action.

### Accounts

One process with two threads; the usage of the others changes as it likes.
`cuDevicePrimaryCtxRetain` and `...Release_v2` have two steps each, since
`ctx_activate` is tested and set without a lock. A pool operation holds the
process's mutex throughout and is one step: the charge of a block is
`allocsize`, computed from the driver's high-water mark (`high`) and the running
total `alimit`. The application may reset that mark (`cuMemPoolSetAttribute`). A
block may also come from elsewhere (while a stream is captured, from the memory
of the graph): then the mark does not grow, and where it is 0 the block is not
charged, although its entry keeps its size. A device has one pool:
`cuDeviceSetMemPool` and `cuMemAllocFromPoolAsync` are passed on to the driver
and have no action. The driver gives out no more than a device has (`Room`). Two
devices have their NVML indices in either order (`visible`); `map` is
`cuda_to_nvml_map_array`, which `postInit` sets and the first NVML call resets
to the identity. The accounting does not allow for everything; `foul` names what
happened: a retain that fails, overlapping or nested calls for a context, pools
of several devices, a block freed under another device's context, a pool query
or a free that fails, a block that is not charged at all (`uncharged`, mark 0),
a block from elsewhere that is charged against the mark of the pool
(`elsewhere`). The properties say which guarantee survives which of them. The
queries are functions of the state.

### RateLimiter

A launch (`pc`) tests `recent_kernel`, sets it, reads the tokens, swaps. The
watcher (`w`) samples, then reads and swaps the tokens. `KernelSize` is the
product of the grid dimensions as a signed word. NVML and the driver may refuse
what `init_utilization_watcher`, `setspec` (whose answer nobody looks at) and
the watcher ask at the start: then there is no limit, no total, or no watcher.
`fork` leaves the tokens and the cached values and none of the threads. History:
`ledger` (tokens put back less tokens taken), `racers` and `blocked` (the
monitor's last block and whom it found between test and store), `odd` (a size
was negative, or this is a forked child).

### Limits and Startup

`Limits` holds the parser as functions on pairs of number and suffix; numbers go
beyond the width, so that the wrap of the product and the saturation of
`strtoul` happen. `Startup` has the steps of `try_create_shrreg` under the lock
of the file (limits, semaphores, `initialized_flag`), registration, `postInit`
(semaphore with timeout, first list of the processes on the device, context,
second list) and the tool. `dev` is the set of host pids on the device, in which
processes outside the container come and go. `pend` holds signals that were sent
and not yet handled. Registration and `oom_check` remove the slots of dead
processes and thereby move those of others: `astray` holds the processes whose
`my_slot` no longer leads to their slot, and a signal handler of such a process
writes the status of any slot, or of none. A marked slot has pid 0, so the tool
signals its own process group (`kill(0, ...)`), which the others may belong to
or not. After the timeout a process goes on, or ends because
`nvmlDeviceGetCount` is called through a table nobody has filled. `disturbed`,
`inherited`, `retried` and `late` name the processes for which a guarantee does
not hold, and why. Detection and suspension share nothing but the slots, so a
behaviour explores one of them (`scope`); a third scope (`serial`) starts three
processes and the tool one after the other, for the moves of slots (`Cast` says
who takes part in which).

### EntryPoints and Symbols

`EntryPoints` lists the rows of the two tables and the wrappers of each file. A
wrapper reaches its row by the position of an enumerator; the modules put the
name for the position. That the two enumerations list the names of the rows in
their order was compared name by name in the source (211 CUDA and 243 NVML
names, one more of each commented out in both places) and is an assumption here,
not a result. The build is that of `build.sh`: `HOOK_NVML_ENABLE`,
`HOOK_MEMINFO_ENABLE`, and CUDA below 13.

`Symbols` computes what a lookup answers from the state: which initialisers have
run, which names the driver lacks, whether it is linked. The steps are lookups
that yield lookup functions (`hand`, with `"driver"` for one of the driver's
own), `RTLD_NEXT` lookups with the ring `dlmap`, and the initialisers: what
`preInit`, `postInit`, `nvml_preInit`, `nvml_postInit`, the watcher and the API
calls do is a sequence of passing a `pthread_once` flag or calling through the
NVML table (`calls`), and `once` says of each flag whether its initialiser has
not begun, is run by a thread or is done. The loader's lock, under which
`dlopen` runs libcuda's constructors, is passed in the same way. `initialized`,
the initialiser of the region, waits for locks that other processes have and for
no flag; what becomes of those waits is the subject of `ShrregLock` and
`Startup`. `fork` leaves a child one thread and resets two flags. The properties
quantify over all names, versions and functions in hand. `scope` divides the
exploration: lookups, initialisers of several threads, `RTLD_NEXT`.

External code is modelled from its use: the kernel (kill, exit, pid reuse,
semaphores), the driver (it hands out an address that is not in use, or fails).

## Runs

| Run | Instance | Shows |
|---|---|---|
| `lock_safety` | 3 processes, all with watchers, all may exit, 1 pid reused, 1 trial | exclusion, binary semaphore and truthful `owner_pid` unless stolen |
| `lock_robust` | 2 processes with watchers, 1 that exits, no reuse | mutual exclusion, refinement of `RobustMutex`, recovery and progress |
| `lock_pidreuse` | 2 processes, 1 pid reused | **violated**: waiters of a lock whose owner's pid was reused wait for ever |
| `slots` | 3 processes, of which one allocates and meets its limit, 3 slots, 1 kick per walk, 1 reuse | one slot each, right pointer, exact total, no odd seqlock left behind, refinement of `Registry`, until a foul event |
| `slots_moved` | 4 processes, removals under the lock only | **violated**: `my_slot` of a live process left behind |
| `slots_nolock` | 3 processes with a memory limit | **violated**: a live process loses its slot |
| `allocator` | 2 processes, 3 threads (alloc 2, create 3, managed 2), limit 4, 2 addresses, one process with contexts, which may be killed, one thread's list entry may fail | limit per process and bound on all of them, contexts and pools apart, total = list, no leak, mutex discipline |
| `allocator_total` | the same, no kills, no contexts | **violated**: two processes together exceed the limit |
| `accounts` | 2 threads, 2 devices in either order, one with a limit, 2 addresses, 2 references, one kind of trouble | contexts charged once, blocks in full and never too much, no underflow, queries and check agree |
| `limiter` | threads with kernels of several sizes, one of which wraps, samples at the limit, above it and out of range, refused queries, 1 fork | debt of one kernel at most, tokens within the total, no lost update, blocks stand, waiting launches go on |
| `startup` | 2 processes and the tool, or 3 one after the other, one trial, 1 kill, 1 reused pid, one process outside | region ready before use, limits fixed, one detector, right host pid, stop holds, waits end; the parser is exact |
| `symbols` | 3 drivers, linked or not, 2 threads, a ring shorter than the lookups | no bypass but one, no NULL call, right version, exact recursion guard, initialisers without deadlock, NVML loaded before use |

Bounds. `MaxTrials` 1 has the three cases below, at and above the bound. Three
processes are a holder, a waiter that recovers and a second one that races with
it; a fourth adds no new pair of steps. One reused pid is what the ABA cases
need. `MaxSlots` 3 with three processes lets the table get full after a reuse
leaves a dead slot, and `MaxKicks` 1 lets the limit of a walk be reached. The
`slots` and `allocator` runs do not follow a behaviour beyond the point where
the table is no longer intact, or the list has raced: their properties say
nothing about what comes after. Limit 4 with requests of 2 and 3 has requests
that fit alone and not together, across threads and across processes; the bound
of `TotalBounded` is reached (7) and is below what the limit of each process
would allow (8); `Word` 16 is out of reach of the sums, as 2^64 is of the sizes
of real devices. Address symmetry in `allocator` and process symmetry in
`lock_safety` are sound: the specifications treat them alike, as `accounts` does
its threads. In `accounts` sizes 1 and 2 with a granule above 1 make the
reserved memory exceed the blocks, and one kind of trouble per behaviour
isolates what each of them breaks; contexts and blocks have accounts of their
own, so the run follows them together only with one reference and no trouble
with contexts (`Apart`). In `allocator` a context adds 1 to the total of one
process, enough to make a request fail that would have fitted; contexts and
failed tracking are followed apart (`Apart` again). In `limiter` the word is
small enough for a grid product to wrap, and `MaxTotal` allows one doubling of
the total. In `startup` two processes are a holder of `sem_postinit` that dies
and one that waits, or two that start at once with different limits; a third
one, in behaviours without a race for the region, is what the move of a slot
needs: one that is dead, one that removes it, one that is moved. `Word` is
small, so the parser is compared with its meaning for every number up to the
width and beyond. In `symbols` the ring wraps, a lookup through `RTLD_NEXT` may
come at any point of a chain, and two threads run initialisers; circles of more
threads are left to the proof. Deadlock is not checked in the runs about
processes: a system in which all processes have ended has no next step.

Fairness (`ShrregLock!Fairness`). Weak fairness of the steps of a thread that is
inside the lock code, the unlock code or the exit handler: each is straight-line
code or a wait with a timeout, and the operating system schedules every runnable
thread. Nothing is assumed about calling the lock, exiting, kills or restarts.
`sem_timedwait` is not fair among waiters, which is why `WaiterEnds` excuses a
process while another one's watcher keeps taking the lock.

`RateLimiter!Fairness`: the watcher and a thread inside `rate_limiter` or the
driver's launch keep running; nothing about new launches or the monitor.
`SomeoneLaunches` assumes besides that from some time on nothing is blocked and
no sample exceeds the limit, the watcher runs and `setspec` has got its answers,
and promises that one of the waiting launches goes through, not each of them.
`Startup!Fairness`: a process in `postInit` goes on (every wait there has a
timeout), signals are delivered, the tool looks again every second; nothing is
assumed about a process that creates the region or registers, which waits for
locks without a limit (`lock_pidreuse`). `Symbols` has no fairness: that the
initialisers end is not claimed, since the region's locks are among what they
wait for, only that they do not wait for each other.

Every property of a passing run has a mutant in `PROJECT.json`: a faulty variant
of an action, kept in the module beside the real one, that the property refutes.
The type invariants are proved and no properties of a run.

## Proofs

`ShrregLockProofs`, for any set of processes and any bounds:

* `TypeCorrect`: the type invariant.
* `Exclusion`: `ExclusionUnlessStolen`. The property is inductive only together
  with facts about the words that the lock consists of; the invariant `IInv`
  adds types and the bookkeeping of dead processes (`Threads`) and, for
  behaviours without a theft, `Clean`: the semaphore's unit is in one place
  (`OneUnit`); `owner_pid` follows it (`OwnerFollows`); a live process that
  `owner_pid` names without its being in the critical section has inherited the
  pid and waits for the lock for the first time (`Inherited`); and no
  `exit_handler` is about to post (`NoExitPost`).
* `OwnerTruthful`: `OwnerIsHolder`, a consequence of the same invariant.
* `MutualExclusionHolds`, `Refinement`: under `Separate` (no process both has a
  watcher and exits by itself, and no pid is reused) a theft is impossible, so
  exclusion is unconditional and every step is a step of `RobustMutex` or leaves
  its state unchanged. `Separate` is needed: without it `exit_handler` takes the
  lock from the process's own watcher.

`ProcSlotsProofs`, for any processes, any table size, any number of kicks and
reused pids: `OneSlotEach` (`RegisteredOnceUnlessRaced`),
`PointerLeadsToOwnSlot` (`OwnSlotUnlessFoul`) and `OddSlotHasWriter`
(`OddHasWriter`). None is inductive, because a removal has two steps and between
them one slot is counted twice or not at all. The invariant `SlotsInv` says, as
long as the table is intact, who may be registering and walking (`Exclusive`),
that the slot a removal overwrites belongs to no process with a seat and the one
a registration publishes is the one above the last (`Places`), and that among
the slots that count, the middle of a removal included, every pid occurs once at
most and that of a live registered process once (`Seats`); and as long as
nothing foul has happened, that the cached pointer, and the one that an update
under way has taken, leads to that slot and the slot follows the updates
(`Pointers`).

`TableIsRegistry` (`ImplementsRegistry`) rests on the same invariant. Where
every pid has one slot at most among those that count, its total is that slot's,
or zero (`TotalIs`), so a step keeps a total if it keeps the slot or a copy of
it (`TotalKept`) and at most removes one if no slot begins to count
(`TotalRemoved`). Most steps leave the registry as it is (`Quiet`);
`init_publish` and `init_reuse` join, `usage_total` accounts, `exit_mark` and
the death of a process leave, and both steps of a removal clear, since the slot
they overwrite belongs to no process with a seat. This is what `Allocator` takes
for granted when it gives every process a total of its own: the processes of its
instances have joined before they start, and a reused pid is a new process whose
predecessor's total has been cleared.

`SumProofs`. `SumOf(w)` is the number of pairs of an index and a unit of its
value, so what a sum does when a summand is added, removed or changed follows
from the cardinality of finite sets, without an induction: `SumChange`,
`SumAppend`, `SumRemove`, `SumAtMost` for two sums related by an injection, and
`SumOfTwo`. `ModAdd` (a remainder taken early does not matter) rests on the
uniqueness of quotient and remainder.

`AllocatorProofs`, for any processes, threads, devices, limits and sizes:

* `MutexDisciplineHolds`. The invariant adds the types of `pc`, `mutex` and
  `stuck`; every action is one of: moves without touching the mutex, locks,
  unlocks, fails with the mutex locked, kills.
* `NothingLeaks` (`DriverMemoryTracked`) and `TotalIsSumOfList`
  (`UsageMatchesList`, modulo the word). The invariant `ListInv` holds for each
  process until an unlocked removal has raced in it: a handle has one holder at
  most (`Holders`); the list has an entry for the allocation and one for every
  thread that is about to remove one (`Covered`, a count, because a handle that
  the driver hands out again may be in the list twice); the entry a thread
  without the mutex has found is still the first of its handle (`Remembered`);
  and the total differs from the list by what threads have in hand (`Usage`).
* `LimitHolds`, that `NoWrap` implies `ProcWithinLimit`: a bound on what a process
  has allocated, beside its contexts and its pool. The invariant
  `LimitInv` follows `oom_check` under the mutex: the sum so far contains the
  own slot once it was read (`Summed`), a thread past the check has room for
  its request until it adds it (`Room`), other threads of the process meanwhile
  only take away, and what is taken away was listed, so that no total wraps
  below zero (`Bounded`, with `Newest`: the entry that is listed and not yet
  added is the last one). `NoWrap` asks that CUDA and NVML number the devices
  alike and that the limits of all slots, with what contexts and pools add, together
  stay below the word. The
  first part is needed: `oom_check` compares the total of one index with the
  limit of the other (the `accounts` run has the devices in both orders); the
  second is true of any real device and 2^64. The premise that no list has
  raced is needed as well: a total that was taken back twice wraps, and every
  process sums it up.
* `OvershootBounded`, that `NoWrap` implies `TotalBounded`. The sums that
  overlapping checks compute belong to no single state, so no relation between
  the sums and the totals is inductive. What is: of the checks under the mutex
  that were passed, take the one that *started* last. In every slot it has read
  all but one allocation at most, because what it has not read was admitted by a
  check that was under way when it read the slot, and a process has one such check
  at a time; a check of the same process that starts later and passes becomes the
  last one. Contexts and pools only make a check refuse more. `Certified` says
  this with witnesses for the past instead of history
  variables: the values that check has read, the time it started, the times and
  values of the checks under way (`Young`), and what they count (`Counted`).

`AccountsProofs`, for any threads, devices and order of them, limits, sizes,
granules, usage of others, and any combination of troubles: `PoolChargeBounded`,
`PoolChargeExact`, `AccountsStayPositive`, `ContextsChargedOnce` and
`QueriesTellTheSame`. The invariant `AccountsInv` has a part for the pool: every
entry has its block and is at most as long (`Matched`); the account of a device
is what the entries of its blocks add up to (`DataIs`); and without trouble all
blocks are on one device, charged in full, and `alimit` is their sum (`InFull`),
which is why the high-water mark always exceeds `alimit` by the new block at
least. An entry that was not charged takes off more than was added, which is why
the three theorems about the pool excuse a mark of 0. `QueriesTellTheSame`
speaks of a device with one index, a limit that fits and a usage within it. The
part for the contexts describes an account in the middle of a call (`OneCall`: a
retain has charged and not yet set the flag, a release has taken back and not
yet cleared it) and relates the flag to the driver's count (`FlagIs`). `Opening`
says that the map is injective and final before anything is charged.
`AccountsAssumption` takes the memory of a device to be below half the word, a
context to fit into a device, and `CUDA_VISIBLE_DEVICES` to name a device once.

`StartupProofs`, for any processes, environments, trials, kills and reused pids:
`InitialisedBeforeUse`, `LimitsStayFixed` (an action property),
`OneDetectorAtATime`, `HostPidIsOwn`, `FoundMeansHostPid`,
`StoppedStaysStopped`, and, for every width and factor, `ParserExact`. The
invariant `StartupInv` places the lock of the file and orders what is written
under it (`Creation`), places the unit of `sem_postinit` (`Detection`: in the
semaphore, with one process, or lost), ties registration to the slot (`Slots`),
says that during a detection the device's list grows by the process itself
unless it is disturbed (`HostPids`), and that between `suspend_all` and
`resume_all` no earlier process has a `SIGUSR1` to expect (`Signals`).
`StoppedStaysStopped` is about the processes whose `my_slot` leads to their
slot; for the others the code gives no such guarantee.

`RateLimiterProofs`, for any threads, kernel sizes, samples, limits and device
attributes: `TypeCorrect`, `DebtBounded`, `TokensBounded`, `LedgerExact` and
`BlockStands`. The invariant `Inv` joins the five properties with what they
need: a launch about to swap has seen a count that is not negative
(`SeenTokens`, and the swap succeeds only if that is still the count, so a debt
starts from zero or more); nobody launches and no watcher runs before `postInit`
or right after a fork (`Quiet`), when nothing has been put back either unless by
a parent (`Untouched`); and under a block that found nobody between test and
store nobody is there later (`NobodyOverwrites`). That the share is never
negative follows from `DeltaNat`, over products and quotients of naturals.

`SymbolsProofs`, for any threads, symbols and ring size: `RecursionIsCaught`
(`RecursionCaught`, an action property). The invariant `RingInv` says that the
i-th recorded lookup is in its place until the ring has gone round to it. That
`check_dlmap`, which walks the places, finds exactly the last `DLMAP_SIZE`
lookups is arithmetic with remainders: numbers less than a round apart have
different places (`PlacesDiffer`), and the walked places are those of the window
(`PlacesAreWindow`). For any drivers (a driver is the set of names it lacks),
versions and `Since`: `NoLookupBypasses`, `NoCallThroughNull` and
`VersionAskedIsAnswered`. The run takes a few drivers and versions; the proofs
follow a lookup through the tables for any. The invariant `HandIs` says that the
application holds nothing but `dlsym`, wrappers of the lookup functions, and the
driver's own if an `RTLD_NEXT` lookup recorded in `asked` has found it: a table
without an entry for such a function means that the driver has no version of it
either (`LookupsAreHooked`). The rest is about the tables: a row holds the
driver's function of its name, an earlier version or NULL (`RowHolds`), and a
name is hooked only if its row is not NULL (`HookIs`). How the names of the
tables are spelled is not derived but assumed (`PriorAssumption`,
`TablesAssumption`, `LookupsAssumption`, `VersionsAssumption`), since the
provers know no characters: these are statements about the fixed tables of
`EntryPoints` without a parameter, and TLC evaluates all of them.
`SinceAssumption` says what `cuda.h` says: of the functions with an entry in
`g_func_map`, the second version is no younger than CUDA 12, and no other
wrapped function outside `Unmapped` and the graphs has two.

`InitialisersCannotDeadlock` and `NvmlIsLoadedBeforeUse`, for any number of
threads: `postInit` is on the first level, `preInit` and the two NVML
initialisers on the second, the region and the loader's lock on the third, and
an initialiser passes flags of higher levels only (the constructors of libcuda
none, as the lookup of `cuGetExportTable` does not wait for `preInit`). So a
thread that waits for a flag of its set leads to one of the set that waits for a
flag of a higher level, and after three levels there is none. What a thread has
still to do is always a rest of such a sequence, in which every call through the
NVML table comes after the flag of `nvml_preInit`, unless the flag is already
done or `set_task_pid` was left out.

Only model-checked: liveness (`DeadOwnerRecovered`, `WaiterEnds`,
`SomeoneLaunches`, `PostInitEnds`, `SuspendEnds`), which is out of the prover's
reach. Every safety property of a passing run is a theorem.

## Not modelled

* The arguments and results that wrappers pass on, logging and formatting: data
  without control. `nvml-subset.h` declares types.
* The utilization sample: `get_used_gpu_utilization` sums what NVML reports and
  the sum is any value in `RateLimiter`, as is what a refused query leaves. The
  limiter is modelled for one device;
  the devices' tokens are independent.
* `create_new` while processes have the region mapped, where every access faults.
* `proc_alive` answers truthfully in the models.
* Memory-order effects weaker than sequential consistency: the words are C11
  atomics with acquire and release, or accesses with full barriers.
* Pools other than the one of a device (`cuDeviceSetMemPool`,
  `cuMemAllocFromPoolAsync`), which the library passes on without accounting.
* The agreement of the two enumerations with their tables, which is compared in the
  source and assumed in `EntryPoints`.
* Functions without a caller: `fix_lock_shrreg`, `try_lock_unified_lock`.

## Plan

1. (done) lock, slot table, allocator; exclusion, refinement and mutex proofs.
2. (done) limiter with its proofs; creation, detection and suspension; pool,
   contexts and queries; limit parsing; symbol interception.
3. (done) proofs of the safety properties of the slot table, the allocator, the
   accounts, the start and the interception of `dlsym`; the bound on what
   processes together may use; the table as a registry of totals.
4. A model of the sum over the slots that runs while a removal moves them: what
   the second check of `oom_check` can miss, and for how long.
