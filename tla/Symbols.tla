------------------------------- MODULE Symbols -------------------------------
(***************************************************************************)
(* How an application reaches an entry point: the intercepted dlsym        *)
(* (libvgpu.c), the initialisers that load the tables, each run once       *)
(* (libvgpu.c, cuda/hook.c, nvml/hook.c), and the intercepted              *)
(* cuGetProcAddress functions, which hand out wrappers.                    *)
(*                                                                         *)
(* A pointer is <<owner, name>>: the wrapper "vgpu" or the function of the *)
(* driver, NULL if there is none.  hand is the set of lookup functions the *)
(* application holds, "driver" for one of the driver's own.  What a lookup *)
(* answers is a function of the state, so the properties speak of every    *)
(* name at once.                                                           *)
(*                                                                         *)
(* Bounds: scope chooses what a behaviour explores at length, lookups, the *)
(* initialisers of several threads, or RTLD_NEXT; MaxNext, Callers and     *)
(* MadeIn give each scope its share of the other two.                      *)
(***************************************************************************)
EXTENDS EntryPoints, Integers, FiniteSets

CONSTANTS Threads,      \* threads of the application
          DLMAP_SIZE,   \* entries of the ring dlmap
          MaxNext,      \* bound, by scope: RTLD_NEXT lookups recorded in the ring
          Callers,      \* bound, by scope: threads that call into libvgpu
          NextSymbols,  \* symbols looked up with RTLD_NEXT
          Drivers,      \* for each driver, the set of names it lacks
          Versions,     \* CUDA versions passed to cuGetProcAddress
          Since         \* first CUDA version of a function (external, cuda.h)

ASSUME SymbolsAssumption ==
    /\ DLMAP_SIZE \in Nat \ {0}
    /\ {"no", "done"} \cap Threads = {}

VARIABLES lacks,        \* the names the installed driver lacks
          linked,       \* libcuda is linked, so that RTLD_NEXT finds it
          once,         \* of each pthread_once flag: "no", the thread in it, "done"
          calls,        \* what each thread has still to do, in order
          skipped,      \* history: postInit went on without set_task_pid
          hand,         \* lookup functions in the application's hands
          dlmap, dlmap_count,
          asked,        \* history: the recorded RTLD_NEXT lookups, in order
          answer,       \* history: the last RTLD_NEXT lookup and its answer
          scope

vars == <<lacks, linked, once, calls, skipped, hand, dlmap, dlmap_count, asked, answer, scope>>
onceVars == <<once, calls, skipped>>
lookupVars == <<lacks, linked, scope>>
ringVars == <<dlmap, dlmap_count, asked, answer>>

Null == <<"null", "">>
Vgpu(n) == <<"vgpu", n>>
Driver(n) == <<"driver", n>>

(***************************************************************************)
(* Names and their versions.                                               *)
(***************************************************************************)
Suffix == <<"", "_v2", "_v3", "_v4">>

Starts(n, p) == Len(n) >= Len(p) /\ SubSeq(n, 1, Len(p)) = p

VersionOf(n) ==
    IF \E i \in 2..4 : Len(n) > 3 /\ SubSeq(n, Len(n) - 2, Len(n)) = Suffix[i]
    THEN CHOOSE i \in 2..4 : SubSeq(n, Len(n) - 2, Len(n)) = Suffix[i]
    ELSE 1

Base(n) == IF VersionOf(n) = 1 THEN n ELSE SubSeq(n, 1, Len(n) - 3)

CudaNames == ToSet(cuda_library_entry)
Known == CudaNames \cup {Base(n) : n \in CudaNames}

(* The names prior_function turns n into, one after the other.             *)
prior_function == [n \in CudaNames |->
    [i \in 1..(VersionOf(n) - 1) |-> Base(n) \o Suffix[VersionOf(n) - i]]]

(***************************************************************************)
(* The flags of the initialisers, and the loader's lock.                   *)
(***************************************************************************)
Flags == {"pre_cuinit_flag", "post_cuinit_flag", "init_status",
          "init_virtual_map_pre_flag", "init_virtual_map_post_flag", "dl_load_lock"}

pre == once["pre_cuinit_flag"]
nvml == once["init_virtual_map_pre_flag"]

Init ==
    /\ lacks \in Drivers
    /\ linked \in BOOLEAN
    /\ scope \in {"next", "lookup", "once"}
    /\ scope = "once" => lacks = {} /\ ~linked   \* bound: the initialisers look at neither
    /\ once = [f \in Flags |-> "no"]
    /\ calls = [t \in Threads |-> <<>>]
    /\ skipped = FALSE
    /\ hand = {"dlsym"}
    /\ dlmap = [i \in 0..(DLMAP_SIZE - 1) |-> <<>>]
    /\ dlmap_count = 0
    /\ asked = <<>>
    /\ answer = <<>>

(***************************************************************************)
(* The tables, as load_cuda_libraries and load_nvml_libraries fill them.   *)
(***************************************************************************)
(* real_dlsym of the driver's library.                                      *)
real_dlsym(n) == IF n \in lacks THEN Null ELSE Driver(n)

(* The first answer of a sequence of lookups that is not NULL.              *)
FirstFound(ptrs) ==
    LET found == {i \in DOMAIN ptrs : ptrs[i] # Null} IN
    IF found = {} THEN Null ELSE ptrs[CHOOSE i \in found : \A j \in found : i <= j]

(* fn_ptr of the row of n once load_cuda_libraries has run: the function of *)
(* that name, else through RTLD_NEXT an earlier version of it.              *)
load_cuda_libraries(n) ==
    FirstFound(<<real_dlsym(n)>> \o
               IF linked THEN [k \in DOMAIN prior_function[n] |-> real_dlsym(prior_function[n][k])]
               ELSE <<>>)

load_nvml_libraries(n) == real_dlsym(n)

(* CUDA_OVERRIDE_CALL and NVML_OVERRIDE_CALL: what the wrapper n calls.     *)
CUDA_OVERRIDE_CALL(n) ==
    IF pre = "done" THEN load_cuda_libraries(Forward(n)) ELSE Null

NVML_OVERRIDE_CALL(n) ==
    IF nvml = "done" THEN load_nvml_libraries(Forward(n)) ELSE Null

(***************************************************************************)
(* Lookups.                                                                *)
(***************************************************************************)
__dlsym_hook_section_unchecked(n) == IF n \in CudaHooks THEN Vgpu(n) ELSE Null

(* A name whose table row is NULL is not hooked.                            *)
__dlsym_hook_section(n) ==
    IF n \in CudaHooks /\ pre = "done" /\ load_cuda_libraries(n) # Null
    THEN Vgpu(n)
    ELSE Null

find_symbols_in_table_versioned(n) ==
    IF Starts(n, "cuGraph")
    THEN Null
    ELSE FirstFound(<<__dlsym_hook_section(n \o "_v3"), __dlsym_hook_section(n \o "_v2")>>)

find_symbols_in_table(n) ==
    IF Starts(n, "cuGraph")
    THEN Null
    ELSE FirstFound(<<__dlsym_hook_section(n \o "_v3"), __dlsym_hook_section(n \o "_v2"),
                      __dlsym_hook_section(n)>>)

(* g_func_map: its three functions change version at CUDA 12.               *)
MultiVersion == {"cuGraphAddKernelNode", "cuGraphKernelNodeGetParams", "cuGraphKernelNodeSetParams"}

InFuncMap(n, v) == n \in MultiVersion /\ 10000 <= v /\ v <= 99999

get_real_func_name_early(n, v) ==
    IF InFuncMap(n, v)
    THEN IF v < 11000 THEN n ELSE n \o "_v2"
    ELSE ""

get_real_func_name(n, v) ==
    IF InFuncMap(n, v)
    THEN IF v <= 11999 THEN n ELSE n \o "_v2"
    ELSE ""

find_symbols_in_table_by_cudaversion(n, v) ==
    IF get_real_func_name(n, v) = ""
    THEN find_symbols_in_table(n)
    ELSE __dlsym_hook_section(get_real_func_name(n, v))

(* The driver's own cuGetProcAddress: the newest version of the function    *)
(* the given CUDA version knows of.                                         *)
driver_proc(n, v) ==
    LET has(m) == m \in Known /\ m \notin lacks /\ (m \in DOMAIN Since => Since[m] <= v) IN
    FirstFound([i \in 1..4 |-> IF has(n \o Suffix[5 - i]) THEN Driver(n \o Suffix[5 - i]) ELSE Null])

(* cuGetProcAddress, cuGetProcAddress_v2 and the two functions they put in  *)
(* their own place: f is the name of the function called.                   *)
cuGetProcAddress(f, n, v) ==
    LET own == find_symbols_in_table_by_cudaversion(n, v) IN
    CASE n = f /\ driver_proc(n, v) # Null -> Vgpu("_" \o f)
      [] n = f /\ driver_proc(n, v) = Null -> Null
      [] n # f /\ own # Null -> own
      [] n # f /\ own = Null -> driver_proc(n, v)

(* The lookups in which f itself calls the driver, through the table entry  *)
(* of its own name: with a NULL entry the process crashes there.            *)
CallsDriver(f, n, v) ==
    \/ n = f
    \/ f = "cuGetProcAddress_v2"
    \/ find_symbols_in_table_by_cudaversion(n, v) = Null

EntryOf(f) == IF f \in {"cuGetProcAddress", "_cuGetProcAddress"}
              THEN "cuGetProcAddress" ELSE "cuGetProcAddress_v2"

(* dlsym with a library handle, once preInit has run for the names that     *)
(* need it.                                                                 *)
NeedsPreInit_all(n) == Starts(n, "cu")

NeedsPreInit(n) == Starts(n, "cu") /\ n # "cuGetExportTable"

dlsym(n) ==
    CASE Starts(n, "cu") /\ n \in CudaWrappers -> Vgpu(n)
      [] Starts(n, "nvml") /\ n \in NvmlHooks -> Vgpu(n)
      [] OTHER -> real_dlsym(n)

(* The answer to a lookup with any function the application may hold.       *)
Answer(f, n, v) == IF f = "dlsym" THEN dlsym(n) ELSE cuGetProcAddress(f, n, v)

Lookups == {"cuGetProcAddress", "cuGetProcAddress_v2"}
LookupNames == Lookups \cup {"_" \o f : f \in Lookups}

(***************************************************************************)
(* What the proofs use of the spelling of the names, which is fixed, and   *)
(* of Since.                                                               *)
(***************************************************************************)
(* Every earlier version of a function has its base name.                   *)
ASSUME PriorAssumption ==
    \A n \in CudaNames : \A i \in 1..(VersionOf(n) - 1) :
        Base(Base(n) \o Suffix[i]) = Base(n) /\ VersionOf(Base(n) \o Suffix[i]) = i

(* The tables name what the wrappers are, and keep CUDA and NVML apart.     *)
ASSUME TablesAssumption ==
    /\ CudaWrappers \subseteq CudaNames \ {"nvmlInit", "nvmlDeviceGetCount"}
    /\ \A n \in CudaHooks : n \in CudaWrappers /\ Starts(n, "cu")
    /\ \A n \in NvmlWrappers : Forward(n) \in NvmlHooks \cap {n, n \o "_v2"}

(* The functions that look functions up.                                    *)
ASSUME LookupsAssumption ==
    /\ Lookups \subseteq CudaHooks
    /\ LookupNames = Lookups \cup {"_cuGetProcAddress", "_cuGetProcAddress_v2"}
    /\ LookupNames \cap Known = Lookups
    /\ \A f \in Lookups : "_" \o f \in LookupNames \ Lookups
    /\ \A n \in Lookups : n \notin MultiVersion /\ ~Starts(n, "cuGraph") /\ n \o "" = n
    /\ "cuGetProcAddress" \o "_v2" = "cuGetProcAddress_v2"
    /\ \A n \in Lookups : {n \o "_v3", n \o "_v4"} \cap Known = {}
    /\ "cuGetProcAddress_v2" \o "_v2" \notin Known

(* The names libvgpu wraps in several versions without an entry in          *)
(* g_func_map: for these find_symbols_in_table prefers _v3 and _v2 whatever *)
(* version was asked for.                                                   *)
Unmapped == {"cuCtxCreate", "cuMemAdvise", "cuMemPrefetchAsync", "cuDeviceGetUuid", "cuGetProcAddress"}

Mapped == {Base(m) : m \in CudaHooks} \ Unmapped

(* Of any other function outside the graphs libvgpu wraps one version, the  *)
(* newest; g_func_map lists functions wrapped in their second version.      *)
ASSUME VersionsAssumption ==
    /\ "" \notin Known /\ Mapped \cap LookupNames = {}
    /\ \A n \in Mapped :
         /\ n \o "" = n
         /\ \A m \in {n, n \o "_v2"} \cap Known :
              Base(m) = n /\ (Starts(m, "cuGraph") <=> Starts(n, "cuGraph"))
         /\ ~Starts(n, "cuGraph") =>
              /\ {n \o "_v3", n \o "_v4"} \cap Known = {}
              /\ n \o "_v2" \in Known => n \notin CudaHooks
    /\ \A n \in MultiVersion :
         /\ Starts(n, "cuGraph") /\ n \notin CudaHooks
         /\ n \o "" = n /\ n \o "_v2" \in CudaHooks
         /\ {n \o "_v3", n \o "_v4"} \cap Known = {}

(* CUDA has more than one version of no other function that libvgpu wraps,  *)
(* and those of g_func_map are as old as it says.                           *)
ASSUME SinceAssumption ==
    /\ Versions \subseteq Nat
    /\ \A m \in DOMAIN Since :
         /\ Since[m] \in Nat
         /\ Base(m) \in Unmapped \/ Starts(m, "cuGraph")
    /\ \A n \in MultiVersion : n \o "_v2" \in DOMAIN Since => Since[n \o "_v2"] <= 12000

(***************************************************************************)
(* What the initialisers and the calls into libvgpu do in turn: pass a     *)
(* pthread_once flag, whose initialiser the first thread to come runs and  *)
(* the others wait for, or call NVML through nvml_library_entry.  The      *)
(* loader's lock, which dlopen and dlsym hold, is passed in the same way.  *)
(***************************************************************************)
Once(f) == <<"once", f>>
End(f) == <<"end", f>>
Nvml == <<"call", "nvml">>

nvmlInit == <<Once("init_virtual_map_pre_flag"), Nvml, Once("init_virtual_map_post_flag")>>

(* Opening libcuda runs its constructors, which look cuGetExportTable up    *)
(* through the intercepted dlsym (external).                                *)
constructors == IF NeedsPreInit("cuGetExportTable") THEN <<Once("pre_cuinit_flag")>> ELSE <<>>

preInit == <<Once("dl_load_lock"), Once("init_status")>>

nvml_preInit == <<Once("init_status"), Once("dl_load_lock")>>

nvml_postInit == <<Nvml>>

set_task_pid_noinit == <<Nvml, Once("init_status")>>

set_task_pid == nvmlInit \o <<Nvml, Once("init_status")>>

(* nvmlDeviceGetCount, setspec, and the limits of the region.               *)
init_utilization_watcher == <<Nvml>> \o nvmlInit \o <<Nvml, Once("init_status")>>

(* lock_postinit may run into its timeout: postInit then does without       *)
(* set_task_pid.                                                            *)
postInit(locked) == (IF locked THEN set_task_pid ELSE <<>>) \o init_utilization_watcher

(* initialized (init_status) waits for the region's locks, which belong to  *)
(* other processes, and for no flag.                                        *)
Body(f, locked) ==
    CASE f = "pre_cuinit_flag" -> preInit
      [] f = "post_cuinit_flag" -> postInit(locked)
      [] f = "init_virtual_map_pre_flag" -> nvml_preInit
      [] f = "init_virtual_map_post_flag" -> nvml_postInit
      [] f = "dl_load_lock" -> constructors
      [] f = "init_status" -> <<>>

(* The calls: dlsym of a CUDA function (dlsym_cu), cuInit, the three        *)
(* nvmlInit, any other wrapper (ENSURE_RUNNING), dlopen.                    *)
dlsym_cu == <<Once("pre_cuinit_flag"), Once("dl_load_lock")>>

cuInit == <<Once("pre_cuinit_flag"), Once("init_status"), Once("post_cuinit_flag")>>

ApiCalls == {dlsym_cu, cuInit, nvmlInit, <<Once("init_status")>>, <<Once("dl_load_lock")>>}

(* Bound: lookups are explored after these two calls or one of them.        *)
MadeIn(s) ==
    IF s = "lookup" THEN {c \in {dlsym_cu, nvmlInit} : hand \subseteq {"dlsym", "driver"}} ELSE ApiCalls

utilization_watcher == nvmlInit \o <<Nvml, Once("init_status")>>

(***************************************************************************)
(* Steps.                                                                  *)
(***************************************************************************)
Do(t, s) == calls' = [calls EXCEPT ![t] = s]

api_call(t, c) ==
    /\ t \in Callers[scope]
    /\ calls[t] = <<>>
    /\ Do(t, c)
    /\ UNCHANGED <<lookupVars, once, skipped, hand, ringVars>>

(* The thread that init_utilization_watcher creates.                        *)
watcher_start(t) ==
    /\ t \in Callers[scope]
    /\ once["post_cuinit_flag"] # "no"
    /\ calls[t] = <<>>
    /\ Do(t, utilization_watcher)
    /\ UNCHANGED <<lookupVars, once, skipped, hand, ringVars>>

At(t, i) == calls[t] # <<>> /\ Head(calls[t]) = i

once_begin(t, f, locked) ==
    /\ At(t, Once(f))
    /\ once[f] = "no"
    /\ once' = [once EXCEPT ![f] = t]
    /\ Do(t, Body(f, locked) \o <<End(f)>> \o Tail(calls[t]))
    /\ skipped' = (skipped \/ (f = "post_cuinit_flag" /\ ~locked))
    /\ UNCHANGED <<lookupVars, hand, ringVars>>

once_passed(t, f) ==
    /\ At(t, Once(f))
    /\ once[f] = "done"
    /\ Do(t, Tail(calls[t]))
    /\ UNCHANGED <<lookupVars, once, skipped, hand, ringVars>>

once_end(t, f) ==
    /\ At(t, End(f))
    /\ once' = [once EXCEPT ![f] = IF f = "dl_load_lock" THEN "no" ELSE "done"]
    /\ Do(t, Tail(calls[t]))
    /\ UNCHANGED <<lookupVars, skipped, hand, ringVars>>

(* A call through nvml_library_entry.  With an entry that is NULL it ends   *)
(* the process; NvmlLoaded speaks of the moment before.                     *)
nvml_call(t) ==
    /\ At(t, Nvml)
    /\ Do(t, Tail(calls[t]))
    /\ UNCHANGED <<lookupVars, once, skipped, hand, ringVars>>

(* The child of a fork has one thread; child_reinit_flag and                *)
(* childReinitPostInit reset two flags, and pthread_once takes an           *)
(* initialiser that was under way in the parent for one that never began.   *)
fork(t) ==
    /\ scope = "once"
    /\ calls[t] = <<>>
    /\ once' = [f \in Flags |->
                   IF once[f] = "done" /\ f \notin {"init_status", "post_cuinit_flag"} THEN "done" ELSE "no"]
    /\ calls' = [u \in Threads |-> <<>>]
    /\ skipped' = FALSE
    /\ UNCHANGED <<lookupVars, hand, ringVars>>

(* A lookup that yields another lookup function.                            *)
lookup(f, n, v) ==
    /\ scope = "lookup"
    /\ f \in hand
    /\ NeedsPreInit(n) => pre = "done"
    /\ (f # "dlsym" /\ CallsDriver(f, n, v)) => CUDA_OVERRIDE_CALL(EntryOf(f)) # Null
    /\ LET p == Answer(f, n, v) IN
         /\ p # Null
         /\ hand' = hand \cup {IF p[1] = "driver" THEN "driver" ELSE p[2]}
    /\ UNCHANGED <<lookupVars, onceVars, ringVars>>

(***************************************************************************)
(* RTLD_NEXT.                                                              *)
(***************************************************************************)
check_dlmap_short(t, p) ==
    LET cursor == IF dlmap_count < DLMAP_SIZE THEN dlmap_count ELSE DLMAP_SIZE IN
    \E i \in 1..(cursor - 1) : dlmap[i] = <<t, p>>

check_dlmap(t, p) ==
    LET cursor == IF dlmap_count < DLMAP_SIZE THEN dlmap_count ELSE DLMAP_SIZE IN
    \E i \in 0..(cursor - 1) : dlmap[i] = <<t, p>>

(* real_dlsym(RTLD_NEXT, n): the driver's functions are found only if       *)
(* libcuda is linked.                                                       *)
next_dlsym(n) == IF n \in Known /\ ~linked THEN Null ELSE real_dlsym(n)

dlsym_next_repeated(t, n) ==
    /\ scope = "next"
    /\ check_dlmap(t, next_dlsym(n))
    /\ answer' = <<t, next_dlsym(n), Null>>
    /\ UNCHANGED <<lookupVars, onceVars, hand, dlmap, dlmap_count, asked>>

dlsym_next(t, n) ==
    /\ dlmap_count < MaxNext[scope]
    /\ ~check_dlmap(t, next_dlsym(n))
    /\ dlmap' = [dlmap EXCEPT ![dlmap_count % DLMAP_SIZE] = <<t, next_dlsym(n)>>]
    /\ dlmap_count' = dlmap_count + 1
    /\ asked' = Append(asked, <<t, next_dlsym(n)>>)
    /\ answer' = <<t, next_dlsym(n), next_dlsym(n)>>
    /\ hand' = hand \cup {"driver" : m \in {k \in Lookups : next_dlsym(n) = Driver(k)}}
    /\ UNCHANGED <<lookupVars, onceVars>>

Next ==
    \/ \E t \in Threads :
         \/ \E c \in MadeIn(scope) : api_call(t, c)
         \/ watcher_start(t) \/ nvml_call(t) \/ fork(t)
         \/ \E f \in Flags : \/ \E locked \in BOOLEAN : once_begin(t, f, locked)
                            \/ once_passed(t, f) \/ once_end(t, f)
         \/ \E n \in NextSymbols : dlsym_next(t, n) \/ dlsym_next_repeated(t, n)
    \/ \E f \in LookupNames \cup {"dlsym"}, n \in Lookups, v \in Versions : lookup(f, n, v)

Spec == Init /\ [][Next]_vars

(***************************************************************************)
(* Properties.                                                             *)
(***************************************************************************)
(* However lookups are chained (dlsym, cuGetProcAddress through a pointer   *)
(* found by either, and so on), one way alone leads to the driver's own     *)
(* lookup functions: dlsym(RTLD_NEXT), where libcuda is linked.  And no     *)
(* function libvgpu wraps is answered with the driver's pointer by any      *)
(* other lookup while the driver has it, the graph functions that           *)
(* find_symbols_in_table leaves to the driver excepted.                     *)
NoBypass ==
    /\ "driver" \in hand => linked /\ \E i \in DOMAIN asked, n \in Lookups : asked[i][2] = Driver(n)
    /\ pre = "done" =>
         \A f \in hand \ {"driver"} : \A n \in CudaHooks : \A v \in Versions :
             (n \notin lacks /\ ~(f # "dlsym" /\ Starts(n, "cuGraph")))
                => Answer(f, n, v)[1] # "driver"

(* A wrapper found through cuGetProcAddress never calls through a NULL      *)
(* table entry; one found through dlsym does so only if the driver lacks    *)
(* the function and no earlier version of it was linked, and after nvmlInit *)
(* an NVML wrapper only if the driver lacks what it calls.                  *)
NoNullCall ==
    /\ pre = "done" =>
         \A f \in hand \ {"driver"} : \A n \in Known : \A v \in Versions :
           LET p == Answer(f, n, v) IN
           (p[1] = "vgpu" /\ p[2] \in CudaWrappers /\ CUDA_OVERRIDE_CALL(p[2]) = Null)
               => f = "dlsym" /\ n \in lacks
    /\ nvml = "done" =>
         \A n \in NvmlWrappers : NVML_OVERRIDE_CALL(n) = Null => {n, n \o "_v2"} \cap lacks # {}

(* For every other name a lookup by CUDA version answers with the version   *)
(* of the function the driver would have answered with, so that caller and  *)
(* function agree on the parameters; a driver that lacks that version is    *)
(* reached through an earlier one (load_cuda_libraries).                    *)
VersionAsked ==
    pre = "done" =>
      \A f \in hand \ {"dlsym", "driver"} : \A n \in Mapped : \A v \in Versions :
        driver_proc(n, v) # Null =>
            Answer(f, n, v)[2] = driver_proc(n, v)[2] \/ Answer(f, n, v)[2] \in lacks

(* The lookups dlmap must remember: the last DLMAP_SIZE recorded ones.      *)
Window(s) == {s[i] : i \in {j \in DOMAIN s : j > Len(s) - DLMAP_SIZE}}

(* An RTLD_NEXT lookup is answered with NULL exactly when the same thread   *)
(* got the same pointer among the last DLMAP_SIZE recorded lookups: every   *)
(* first lookup is answered, and a recursion no longer than the ring is     *)
(* caught.                                                                  *)
RecursionCaught ==
    [][answer' # answer =>
         LET call == <<answer'[1], answer'[2]>> IN
         IF call \in Window(asked) THEN answer'[3] = Null ELSE answer'[3] = answer'[2]]_vars

(* The initialisers cannot wait for one another: in no set of threads does  *)
(* every one wait for a flag, or for the loader's lock, that one of the set *)
(* has.  Neither the constructors of libcuda, which preInit or any dlopen   *)
(* runs, nor the NVML calls of postInit, nor what a forked child inherits   *)
(* closes a circle.                                                         *)
NoDeadlock ==
    \A S \in (SUBSET Threads) \ {{}} :
        \E t \in S : \A f \in Flags : ~(At(t, Once(f)) /\ once[f] \in S)

(* libvgpu calls NVML through its table only once nvml_preInit has loaded   *)
(* it, whoever loads it and whatever a forked child inherits, but for the   *)
(* process whose postInit did without set_task_pid: it comes to             *)
(* init_utilization_watcher, whose nvmlDeviceGetCount precedes the nvmlInit *)
(* of setspec.                                                              *)
NvmlLoaded == \A t \in Threads : At(t, Nvml) => nvml = "done" \/ skipped
=============================================================================
