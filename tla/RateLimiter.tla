----------------------------- MODULE RateLimiter -----------------------------
(***************************************************************************)
(* The core-utilization limiter of one process on one device               *)
(* (multiprocess_utilization_watcher.c): kernel launches take tokens from  *)
(* g_cur_cuda_cores with a compare-and-swap, the watcher thread samples    *)
(* the utilization every 120 ms and puts tokens back, and the monitor      *)
(* outside the container blocks launches through recent_kernel.            *)
(*                                                                         *)
(* A launch takes its steps (test recent_kernel, set it, read the tokens,  *)
(* CAS) between the steps of the others.  A kernel's size is the product   *)
(* of its grid dimensions, computed modulo Word and read as a signed int.  *)
(***************************************************************************)
EXTENDS Integers, FiniteSets

CONSTANTS Threads,     \* threads that launch kernels
          Grids,       \* products of the grid dimensions of the launches
          Word,        \* 2^32 in the code
          Utils,       \* utilizations the driver may report
          SmLimits,    \* values of the region's sm_limit
          SmNum, MaxThread, FACTOR,  \* setspec's device attributes
          Scale,       \* 2560 in the code
          MaxTotal     \* bound: g_total_cuda_cores is doubled no further

(* A kernel's size as rate_limiter gets it.                                 *)
KernelSize(g) == IF g % Word < Word \div 2 THEN g % Word ELSE (g % Word) - Word

Sizes == {KernelSize(g) : g \in Grids}
BaseTotal == MaxThread * SmNum * FACTOR

ASSUME ConstantsAssumption ==
    /\ Word \in Nat \ {0} /\ Scale \in Nat \ {0} /\ MaxTotal \in Nat
    /\ SmNum \in Nat /\ MaxThread \in Nat /\ FACTOR \in Nat /\ BaseTotal \in Nat
    /\ Grids \subseteq Nat
    /\ Utils \subseteq Nat
    /\ SmLimits \subseteq Nat

VARIABLES sm_limit,    \* the region's limit
          util_switch, \* what get_utilization_switch returns
          recent_kernel,    \* the field through which the monitor blocks launches
          inited, pidfound,
          cached_sm_limit, cached_util_switch,
          cur, total,  \* g_cur_cuda_cores, g_total_cuda_cores
          pc, size, seen,
          w, wseen, share, userutil,   \* the watcher: its place, the value read, its locals
          ledger,      \* history: tokens put back minus tokens taken
          racers,      \* history: threads between test and set at the last block
          blocked,     \* history: the monitor's last word was to block
          odd,         \* history: a launch had a negative size, or this is a forked child
          forks        \* bound: forks left

monitorVars == <<recent_kernel, blocked, racers>>
initVars == <<sm_limit, util_switch, inited, pidfound, cached_sm_limit, forks>>
launchVars == <<pc, size, seen, odd>>
watchVars == <<w, wseen, share, userutil, cached_util_switch>>
vars == <<initVars, monitorVars, launchVars, watchVars, cur, total, ledger>>

(* policy: GPU_CORE_UTILIZATION_POLICY, 1 for FORCE, 2 for DISABLE; flag:   *)
(* the region's utilization_switch.                                         *)
get_utilization_switch(policy, flag) ==
    CASE policy = 1 -> 1
      [] policy = 2 -> 0
      [] OTHER -> flag

Init ==
    /\ sm_limit \in SmLimits
    /\ \E policy \in {0, 1, 2}, flag \in {0, 1} : util_switch = get_utilization_switch(policy, flag)
    /\ recent_kernel = 2
    /\ inited = FALSE /\ pidfound = 0
    /\ cached_sm_limit = 0 /\ cached_util_switch = 0
    /\ cur = 0 /\ total = 0
    /\ pc = [t \in Threads |-> "idle"]
    /\ size = [t \in Threads |-> 0]
    /\ seen = [t \in Threads |-> 0]
    /\ w = "none" /\ wseen = 0 /\ share = 0 /\ userutil = 0
    /\ ledger = 0 /\ racers = {} /\ blocked = FALSE /\ odd = FALSE /\ forks = 1

(***************************************************************************)
(* postInit, run once by the first call that needs it, and fork.           *)
(***************************************************************************)
(* A query that NVML or the driver refuses leaves the total as it was.      *)
setspec == total' \in {BaseTotal, total}

(* found: whether set_task_pid found the host pid.  setspec's answer is not *)
(* looked at, and a watcher whose own nvmlDeviceGetCount is refused ends.   *)
init_utilization_watcher(found) ==
    /\ ~inited
    /\ inited' = TRUE
    /\ pidfound' = found
    /\ setspec
    /\ cached_sm_limit' = sm_limit
    /\ \/ w' = "none"
       \/ sm_limit > 0 /\ sm_limit <= 100 /\ w' = "sleep"
    /\ share' = 0
    /\ UNCHANGED <<sm_limit, util_switch, forks, monitorVars, launchVars, wseen, userutil,
                   cached_util_switch, cur, ledger>>

(* nvmlDeviceGetCount is refused: neither a limit nor a watcher.            *)
init_utilization_watcher_refused(found) ==
    /\ ~inited
    /\ inited' = TRUE
    /\ pidfound' = found
    /\ UNCHANGED <<sm_limit, util_switch, cached_sm_limit, forks, monitorVars, launchVars,
                   watchVars, cur, total, ledger>>

(* The child keeps the tokens and the cached values, without the threads.   *)
fork(t) ==
    /\ forks > 0
    /\ inited
    /\ pc[t] = "idle"
    /\ forks' = forks - 1
    /\ odd' = TRUE
    /\ inited' = FALSE
    /\ pidfound' = 0
    /\ w' = "none"
    /\ pc' = [u \in Threads |-> "idle"]
    /\ size' = [u \in Threads |-> 0]
    /\ seen' = [u \in Threads |-> 0]
    /\ UNCHANGED <<sm_limit, util_switch, cached_sm_limit, monitorVars, wseen,
                   share, userutil, cached_util_switch, cur, total, ledger>>

(***************************************************************************)
(* Launches: cuLaunchKernel and cuLaunchKernelEx.                          *)
(***************************************************************************)
Goto(t, from, to) == pc[t] = from /\ pc' = [pc EXCEPT ![t] = to]

Limited == /\ pidfound = 1
           /\ cached_sm_limit > 0 /\ cached_sm_limit < 100
           /\ cached_util_switch # 0

launch(t, g) ==
    /\ inited
    /\ odd => KernelSize(g) >= 0     \* bound: no wrapped launch after the first
    /\ Goto(t, "idle", IF Limited THEN "wait" ELSE "launched")
    /\ size' = IF Limited THEN [size EXCEPT ![t] = KernelSize(g)] ELSE size
    /\ UNCHANGED <<initVars, monitorVars, seen, odd, watchVars, cur, total, ledger>>

get_recent_kernel_ignored(t) ==
    /\ Goto(t, "wait", "set")
    /\ UNCHANGED <<initVars, monitorVars, size, seen, odd, watchVars, cur, total, ledger>>

get_recent_kernel(t) ==
    /\ recent_kernel >= 0
    /\ Goto(t, "wait", "set")
    /\ UNCHANGED <<initVars, monitorVars, size, seen, odd, watchVars, cur, total, ledger>>

set_recent_kernel(t) ==
    /\ Goto(t, "set", "check")
    /\ recent_kernel' = 2
    /\ UNCHANGED <<initVars, blocked, racers, size, seen, odd, watchVars,
                   cur, total, ledger>>

check_ignoring_debt(t) ==
    /\ Goto(t, "check", "cas")
    /\ seen' = [seen EXCEPT ![t] = cur]
    /\ UNCHANGED <<initVars, monitorVars, size, odd, watchVars, cur, total, ledger>>

(* A negative count is waited out: nanosleep and goto CHECK.                *)
check(t) ==
    /\ cur >= 0
    /\ Goto(t, "check", "cas")
    /\ seen' = [seen EXCEPT ![t] = cur]
    /\ UNCHANGED <<initVars, monitorVars, size, odd, watchVars, cur, total, ledger>>

take(t) ==
    /\ cur = seen[t]
    /\ Goto(t, "cas", "launched")
    /\ cur' = seen[t] - size[t]
    /\ ledger' = ledger - size[t]
    /\ odd' = (odd \/ size[t] < 0)
    /\ size' = [size EXCEPT ![t] = 0]
    /\ seen' = [seen EXCEPT ![t] = 0]
    /\ UNCHANGED <<initVars, monitorVars, watchVars, total>>

take_fails(t) ==
    /\ cur # seen[t]
    /\ Goto(t, "cas", "check")
    /\ seen' = [seen EXCEPT ![t] = 0]
    /\ UNCHANGED <<initVars, monitorVars, size, odd, watchVars, cur, total, ledger>>

(* The driver's launch; cuLaunchCooperativeKernel starts here.              *)
driver_launch(t) ==
    /\ Goto(t, "launched", "idle")
    /\ UNCHANGED <<initVars, monitorVars, size, seen, odd, watchVars, cur, total, ledger>>

(***************************************************************************)
(* The watcher.                                                            *)
(***************************************************************************)
Abs(x) == IF x < 0 THEN -x ELSE x
Least(x, y) == IF x < y THEN x ELSE y
Most(x, y) == IF x < y THEN y ELSE x

Diff(limit, u) == Most(Abs(limit - u), 5)

Increment(limit, u) ==
    LET plain == (SmNum * SmNum * MaxThread * Diff(limit, u)) \div Scale IN
    IF Diff(limit, u) > limit \div 2
    THEN (plain * Diff(limit, u) * 2) \div (limit + 1)
    ELSE plain

delta_strict(limit, u, s, tot) ==
    IF u < limit THEN Least(s + Increment(limit, u), tot) ELSE Most(s - Increment(limit, u), 0)

delta(limit, u, s, tot) ==
    IF u <= limit THEN Least(s + Increment(limit, u), tot) ELSE Most(s - Increment(limit, u), 0)

(* Without a host pid the watcher only looks for one.                       *)
update_host_pid(found) ==
    /\ w = "sleep"
    /\ pidfound = 0
    /\ pidfound' = found
    /\ UNCHANGED <<sm_limit, util_switch, inited, cached_sm_limit, forks, monitorVars, launchVars,
                   watchVars, cur, total, ledger>>

(* One turn up to the call of change_token, which a sample above 100 skips; *)
(* u is what get_used_gpu_utilization has left, be it refused an answer.    *)
watcher_tick(u) ==
    /\ w = "sleep"
    /\ pidfound = 1
    /\ cached_util_switch' = util_switch
    /\ userutil' = u
    /\ IF cached_sm_limit >= 100
       THEN UNCHANGED <<w, share, total>>
       ELSE LET grow == share = total /\ cur < 0 /\ 2 * total <= MaxTotal
                tot == IF grow THEN 2 * total ELSE total
                s == IF grow THEN tot ELSE share
            IN /\ total' = tot
               /\ IF u <= 100
                  THEN share' = delta(cached_sm_limit, u, s, tot) /\ w' = "token"
                  ELSE share' = s /\ w' = w
    /\ UNCHANGED <<initVars, monitorVars, launchVars, wseen, cur, ledger>>

change_token_read ==
    /\ w = "token"
    /\ wseen' = cur
    /\ w' = "cas"
    /\ UNCHANGED <<initVars, monitorVars, launchVars, share, userutil, cached_util_switch,
                   cur, total, ledger>>

(* change_token's compare-and-swap.                                         *)
PutBack(after) ==
    /\ w = "cas"
    /\ cur' = after
    /\ ledger' = ledger + (after - wseen)
    /\ w' = "sleep"
    /\ wseen' = 0
    /\ UNCHANGED <<initVars, monitorVars, launchVars, share, userutil, cached_util_switch, total>>

change_token_uncapped == cur = wseen /\ PutBack(wseen + share)

change_token_store == PutBack(Least(wseen + share, total))

change_token == cur = wseen /\ PutBack(Least(wseen + share, total))

change_token_fails ==
    /\ w = "cas"
    /\ cur # wseen
    /\ w' = "token"
    /\ wseen' = 0
    /\ UNCHANGED <<initVars, monitorVars, launchVars, share, userutil, cached_util_switch,
                   cur, total, ledger>>

(***************************************************************************)
(* The monitor outside the container, and the device.                      *)
(***************************************************************************)
monitor_block ==
    /\ recent_kernel' = -1
    /\ blocked' = TRUE
    /\ racers' = {t \in Threads : pc[t] = "set"}
    /\ UNCHANGED <<initVars, launchVars, watchVars, cur, total, ledger>>

monitor_release ==
    /\ recent_kernel' = 2
    /\ blocked' = FALSE
    /\ racers' = {}
    /\ UNCHANGED <<initVars, launchVars, watchVars, cur, total, ledger>>

Launch(t) ==
    \/ get_recent_kernel(t) \/ set_recent_kernel(t)
    \/ check(t) \/ take(t) \/ take_fails(t)
    \/ driver_launch(t)

Watcher == (\E u \in Utils : watcher_tick(u)) \/ change_token_read \/ change_token \/ change_token_fails

Next ==
    \/ \E t \in Threads : Launch(t) \/ fork(t) \/ \E g \in Grids : launch(t, g)
    \/ Watcher
    \/ \E found \in {0, 1} : init_utilization_watcher(found) \/ init_utilization_watcher_refused(found)
    \/ \E found \in {0, 1} : update_host_pid(found)
    \/ monitor_block
    \/ monitor_release

(* Threads that are launching and the watcher keep running.                 *)
Fairness == WF_vars(Watcher) /\ \A t \in Threads : WF_vars(Launch(t))

Spec == Init /\ [][Next]_vars /\ Fairness

(***************************************************************************)
(* Properties.                                                             *)
(***************************************************************************)
(* The values stay in their types; the share that change_token puts back is *)
(* never negative, though delta subtracts from it.                          *)
TypeOK ==
    /\ sm_limit \in SmLimits /\ cached_sm_limit \in SmLimits \cup {0}
    /\ util_switch \in {0, 1} /\ cached_util_switch \in {0, 1}
    /\ recent_kernel \in {-1, 2}
    /\ inited \in BOOLEAN /\ pidfound \in {0, 1}
    /\ cur \in Int /\ total \in Nat /\ ledger \in Int
    /\ pc \in [Threads -> {"idle", "wait", "set", "check", "cas", "launched"}]
    /\ size \in [Threads -> Sizes \cup {0}]
    /\ seen \in [Threads -> Int]
    /\ w \in {"none", "sleep", "token", "cas"}
    /\ wseen \in Int /\ share \in Nat /\ userutil \in Utils \cup {0}
    /\ racers \subseteq Threads
    /\ blocked \in BOOLEAN /\ odd \in BOOLEAN /\ forks \in {0, 1}

(* However many threads launch at once, the tokens are overdrawn by at most *)
(* one kernel: no launch starts from a negative count, because the CAS      *)
(* fails for all but one of those that read the same count.                 *)
DebtAtMostOneKernel == cur >= 0 \/ \E s \in Sizes : cur + s >= 0

(* The tokens saved up never exceed the current total, unless a launch's    *)
(* size wrapped to a negative number or a forked child reset the total      *)
(* under inherited tokens.                                                  *)
TokensWithinTotal == ~odd => cur <= total

(* No launch is forgotten and no tokens are lost: between the watcher's     *)
(* read and its write launches take tokens, and its CAS then starts over.   *)
NoLaunchForgotten == cur = ledger

(* A block by the monitor stands: only a thread that was between its test   *)
(* of recent_kernel and its store of 2 when the block came overwrites it.   *)
BlockHolds == blocked /\ racers = {} => recent_kernel < 0

(* From some time on nothing is blocked and no sample is above the limit;   *)
(* the watcher runs and setspec has learnt how large the device is (a total *)
(* of 0 lets no token be put back).                                         *)
Unblocked ==
    /\ recent_kernel >= 0 /\ pidfound = 1
    /\ w # "none" /\ total > 0
    /\ userutil <= cached_sm_limit

(* Then launches that wait for tokens go on, however deep the debt: the     *)
(* share grows again from zero and one of the waiting launches is let       *)
(* through, again and again (a fork starts over without the threads).       *)
SomeoneLaunches ==
    <>[]Unblocked =>
        ((\E t \in Threads : pc[t] = "check") ~> (~inited \/ \E t \in Threads : pc[t] = "launched"))
=============================================================================
