-------------------------- MODULE RateLimiterProofs --------------------------
(***************************************************************************)
(* Proofs about the core-utilization limiter, for any number of threads,   *)
(* any kernel sizes, samples, limits and device attributes.                *)
(***************************************************************************)
EXTENDS RateLimiter, TLAPS

(* Before postInit, and in a child right after fork, nobody is launching    *)
(* and no watcher runs.                                                     *)
Quiet == ~inited => w = "none" /\ \A t \in Threads : pc[t] = "idle"

(* Until then nothing has been taken or put back, except in a child.        *)
Untouched == ~inited /\ ~odd => cur = 0

(* A launch that is about to swap has seen tokens.                          *)
SeenTokens == \A t \in Threads : pc[t] = "cas" => seen[t] >= 0

(* Under a block that overtook nobody no thread is about to overwrite it.   *)
NobodyOverwrites == blocked /\ racers = {} => \A t \in Threads : pc[t] # "set"

Inv == /\ TypeOK /\ Quiet /\ Untouched /\ SeenTokens /\ NobodyOverwrites
       /\ DebtAtMostOneKernel /\ TokensWithinTotal /\ NoLaunchForgotten /\ BlockHolds

(* A kernel's size is an integer, whatever the product of the dimensions.   *)
LEMMA SizesAreInts == Sizes \subseteq Int
<1> SUFFICES ASSUME NEW g \in Grids PROVE KernelSize(g) \in Int
  BY DEF Sizes
<1>1. g \in Nat /\ Word \in Nat \ {0}
  BY ConstantsAssumption
<1>2. g % Word \in Int
  BY <1>1
<1> QED BY <1>1, <1>2 DEF KernelSize

(* Products and quotients of naturals, as increment is built from them.     *)
LEMMA ProductNat == ASSUME NEW a \in Nat, NEW b \in Nat PROVE a * b \in Nat
OBVIOUS

(* C division of unsigned values gives an unsigned value. *)
LEMMA QuotientNat == ASSUME NEW a \in Nat, NEW b \in Nat \ {0} PROVE a \div b \in Nat
OBVIOUS

(* The step of the share is never negative.                                 *)
LEMMA IncrementNat ==
    ASSUME NEW limit \in Nat, NEW u \in Nat
    PROVE  Increment(limit, u) \in Nat
<1>1. SmNum \in Nat /\ MaxThread \in Nat /\ Scale \in Nat \ {0}
  BY ConstantsAssumption
<1> DEFINE d == Diff(limit, u)
           p == SmNum * SmNum * MaxThread * d
           plain == p \div Scale
<1>2. d \in Nat
  BY DEF Diff, Most, Abs
<1> HIDE DEF d
<1>3. SmNum * SmNum \in Nat
  BY <1>1, ProductNat
<1>4. SmNum * SmNum * MaxThread \in Nat
  BY <1>1, <1>3, ProductNat
<1>5. p \in Nat
  BY <1>2, <1>4, ProductNat
<1> HIDE DEF p
<1>6. plain \in Nat
  BY <1>1, <1>5, QuotientNat
<1> HIDE DEF plain
<1>7. plain * d \in Nat
  BY <1>2, <1>6, ProductNat
<1>8. plain * d * 2 \in Nat
  BY <1>7, ProductNat
<1>9. (plain * d * 2) \div (limit + 1) \in Nat
  BY <1>8, QuotientNat
<1>10. Increment(limit, u) = IF d > limit \div 2 THEN (plain * d * 2) \div (limit + 1) ELSE plain
  BY DEF Increment, d, p, plain
<1> QED BY <1>6, <1>9, <1>10

(* The share stays a natural number, and so never takes tokens away.        *)
LEMMA DeltaNat ==
    ASSUME NEW limit \in Nat, NEW u \in Nat, NEW s \in Nat, NEW tot \in Nat
    PROVE  delta(limit, u, s, tot) \in Nat
<1>1. Increment(limit, u) \in Nat
  BY IncrementNat
<1> DEFINE i == Increment(limit, u)
<1> HIDE DEF i
<1>2. delta(limit, u, s, tot) = IF u <= limit THEN Least(s + i, tot) ELSE Most(s - i, 0)
  BY DEF delta, i
<1>3. i \in Nat
  BY <1>1 DEF i
<1> QED BY <1>2, <1>3 DEF Least, Most

(* The initial states.                                                      *)
LEMMA InitEstablishes == Init => Inv
<1> SUFFICES ASSUME Init PROVE Inv
  OBVIOUS
<1>1. TypeOK
  <2>1. util_switch \in {0, 1}
    BY DEF Init, get_utilization_switch
  <2>2. /\ pc \in [Threads -> {"idle", "wait", "set", "check", "cas", "launched"}]
        /\ size \in [Threads -> Sizes \cup {0}]
        /\ seen \in [Threads -> Int]
    BY DEF Init
  <2>3. inited \in BOOLEAN /\ blocked \in BOOLEAN /\ odd \in BOOLEAN /\ racers \subseteq Threads
    BY DEF Init
  <2>4. /\ sm_limit \in SmLimits /\ cached_sm_limit \in SmLimits \cup {0}
        /\ cached_util_switch \in {0, 1} /\ recent_kernel \in {-1, 2} /\ pidfound \in {0, 1}
        /\ cur \in Int /\ total \in Nat /\ ledger \in Int
        /\ wseen \in Int /\ share \in Nat /\ userutil \in Utils \cup {0} /\ forks \in {0, 1}
    BY DEF Init
  <2>5. w \in {"none", "sleep", "token", "cas"}
    BY DEF Init
  <2> QED BY <2>1, <2>2, <2>3, <2>4, <2>5 DEF TypeOK
<1> QED BY <1>1 DEF Init, Inv, Quiet, Untouched, SeenTokens, NobodyOverwrites,
                   DebtAtMostOneKernel, TokensWithinTotal, NoLaunchForgotten, BlockHolds

USE DEF initVars, monitorVars, launchVars, watchVars

(* postInit: the first tokens are those of an idle process.                 *)
LEMMA InitStep ==
    ASSUME Inv, NEW found \in {0, 1},
           \/ init_utilization_watcher(found) \/ init_utilization_watcher_refused(found)
           \/ update_host_pid(found)
    PROVE  Inv'
<1>1. CASE init_utilization_watcher(found)
  <2>1. BaseTotal \in Nat
    BY ConstantsAssumption
  <2>2. TypeOK'
    BY <1>1, <2>1 DEF Inv, TypeOK, init_utilization_watcher, setspec
  <2>3. TokensWithinTotal'
    BY <1>1, <2>1 DEF Inv, TypeOK, init_utilization_watcher, setspec, Untouched, TokensWithinTotal
  <2> QED BY <1>1, <2>2, <2>3 DEF Inv, init_utilization_watcher, Quiet, Untouched, SeenTokens,
             NobodyOverwrites, DebtAtMostOneKernel, NoLaunchForgotten, BlockHolds
<1>2. CASE update_host_pid(found)
  <2>1. TypeOK'
    BY <1>2 DEF Inv, TypeOK, update_host_pid
  <2> QED BY <1>2, <2>1 DEF Inv, update_host_pid, Quiet, Untouched, SeenTokens,
             NobodyOverwrites, DebtAtMostOneKernel, TokensWithinTotal, NoLaunchForgotten, BlockHolds
<1>3. CASE init_utilization_watcher_refused(found)
  <2>1. TypeOK'
    BY <1>3 DEF Inv, TypeOK, init_utilization_watcher_refused
  <2> QED BY <1>3, <2>1 DEF Inv, init_utilization_watcher_refused, Quiet, Untouched, SeenTokens,
             NobodyOverwrites, DebtAtMostOneKernel, TokensWithinTotal, NoLaunchForgotten, BlockHolds
<1> QED BY <1>1, <1>2, <1>3

(* fork: the child has the tokens and none of the threads.                  *)
LEMMA ForkStep == ASSUME Inv, NEW t \in Threads, fork(t) PROVE Inv'
<1>1. TypeOK'
  <2>1. /\ pc' \in [Threads -> {"idle", "wait", "set", "check", "cas", "launched"}]
        /\ size' \in [Threads -> Sizes \cup {0}]
        /\ seen' \in [Threads -> Int]
    BY DEF fork
  <2>2. forks' \in {0, 1}
    BY DEF Inv, TypeOK, fork
  <2>3. inited' \in BOOLEAN /\ blocked' \in BOOLEAN /\ odd' \in BOOLEAN /\ w' = "none" /\ pidfound' = 0
    BY DEF Inv, TypeOK, fork
  <2> QED BY <2>1, <2>2, <2>3 DEF Inv, TypeOK, fork
<1> QED BY <1>1 DEF Inv, fork, Quiet, Untouched, SeenTokens, NobodyOverwrites,
           DebtAtMostOneKernel, TokensWithinTotal, NoLaunchForgotten, BlockHolds

(* The steps of a launch that leave the tokens alone.                       *)
LEMMA LaunchMoves ==
    ASSUME Inv, NEW t \in Threads,
           \/ \E g \in Grids : launch(t, g)
           \/ get_recent_kernel(t) \/ set_recent_kernel(t) \/ check(t) \/ take_fails(t) \/ driver_launch(t)
    PROVE  Inv'
<1>1. CASE \E g \in Grids : launch(t, g)
  <2> PICK g \in Grids : launch(t, g)
    BY <1>1
  <2>1. KernelSize(g) \in Sizes
    BY DEF Sizes
  <2>2. TypeOK'
    BY <2>1 DEF Inv, TypeOK, launch, Goto
  <2>3. SeenTokens' /\ NobodyOverwrites' /\ Quiet' /\ Untouched'
    BY DEF Inv, TypeOK, launch, Goto, SeenTokens, NobodyOverwrites, Quiet, Untouched
  <2> QED BY <2>2, <2>3 DEF Inv, launch, DebtAtMostOneKernel, TokensWithinTotal, NoLaunchForgotten, BlockHolds
<1>2. CASE get_recent_kernel(t)
  <2>1. TypeOK'
    BY <1>2 DEF Inv, TypeOK, get_recent_kernel, Goto
  <2>2. SeenTokens' /\ NobodyOverwrites' /\ Quiet' /\ Untouched'
    BY <1>2 DEF Inv, TypeOK, get_recent_kernel, Goto, SeenTokens, NobodyOverwrites, BlockHolds, Quiet, Untouched
  <2> QED BY <1>2, <2>1, <2>2 DEF Inv, get_recent_kernel, DebtAtMostOneKernel, TokensWithinTotal,
             NoLaunchForgotten, BlockHolds
<1>3. CASE set_recent_kernel(t)
  <2>1. TypeOK'
    BY <1>3 DEF Inv, TypeOK, set_recent_kernel, Goto
  <2>2. ~(blocked /\ racers = {})
    BY <1>3 DEF Inv, set_recent_kernel, Goto, NobodyOverwrites
  <2>3. SeenTokens' /\ NobodyOverwrites' /\ Quiet' /\ Untouched' /\ BlockHolds'
    BY <1>3, <2>2 DEF Inv, TypeOK, set_recent_kernel, Goto, SeenTokens, NobodyOverwrites, BlockHolds,
             Quiet, Untouched
  <2> QED BY <1>3, <2>1, <2>3 DEF Inv, set_recent_kernel, DebtAtMostOneKernel, TokensWithinTotal,
             NoLaunchForgotten
<1>4. CASE check(t)
  <2>1. TypeOK'
    BY <1>4 DEF Inv, TypeOK, check, Goto
  <2>2. SeenTokens' /\ NobodyOverwrites' /\ Quiet' /\ Untouched'
    BY <1>4 DEF Inv, TypeOK, check, Goto, SeenTokens, NobodyOverwrites, Quiet, Untouched
  <2> QED BY <1>4, <2>1, <2>2 DEF Inv, check, DebtAtMostOneKernel, TokensWithinTotal,
             NoLaunchForgotten, BlockHolds
<1>5. CASE take_fails(t)
  <2>1. TypeOK'
    BY <1>5 DEF Inv, TypeOK, take_fails, Goto
  <2>2. SeenTokens' /\ NobodyOverwrites' /\ Quiet' /\ Untouched'
    BY <1>5 DEF Inv, TypeOK, take_fails, Goto, SeenTokens, NobodyOverwrites, Quiet, Untouched
  <2> QED BY <1>5, <2>1, <2>2 DEF Inv, take_fails, DebtAtMostOneKernel, TokensWithinTotal,
             NoLaunchForgotten, BlockHolds
<1>6. CASE driver_launch(t)
  <2>1. TypeOK'
    BY <1>6 DEF Inv, TypeOK, driver_launch, Goto
  <2>2. SeenTokens' /\ NobodyOverwrites' /\ Quiet' /\ Untouched'
    BY <1>6 DEF Inv, TypeOK, driver_launch, Goto, SeenTokens, NobodyOverwrites, Quiet, Untouched
  <2> QED BY <1>6, <2>1, <2>2 DEF Inv, driver_launch, DebtAtMostOneKernel, TokensWithinTotal,
             NoLaunchForgotten, BlockHolds
<1> QED BY <1>1, <1>2, <1>3, <1>4, <1>5, <1>6

(* The successful swap of a launch: it starts from a count that is not      *)
(* negative, and that is the current one.                                   *)
LEMMA TakeStep == ASSUME Inv, NEW t \in Threads, take(t) PROVE Inv'
<1>1. /\ seen[t] \in Int /\ seen[t] >= 0 /\ cur = seen[t]
      /\ size[t] \in Sizes \cup {0} /\ size[t] \in Int
  <2>1. size[t] \in Sizes \cup {0} /\ seen[t] \in Int
    BY DEF Inv, TypeOK
  <2>2. size[t] \in Int
    <3>1. CASE size[t] \in Sizes
      BY <3>1, SizesAreInts
    <3>2. CASE size[t] = 0
      BY <3>2
    <3> QED BY <2>1, <3>1, <3>2, Zenon
  <2>3. pc[t] = "cas" /\ cur = seen[t]
    BY DEF take, Goto
  <2>4. seen[t] >= 0
    BY <2>3 DEF Inv, SeenTokens
  <2> QED BY <2>1, <2>2, <2>3, <2>4
<1>2. cur' = cur - size[t] /\ ledger' = ledger - size[t] /\ total' = total
  BY <1>1 DEF take
<1>3. TypeOK'
  <2>1. cur' \in Int /\ ledger' \in Int /\ odd' \in BOOLEAN
    BY <1>1, <1>2 DEF Inv, TypeOK, take
  <2> QED BY <2>1 DEF Inv, TypeOK, take, Goto
<1>4. DebtAtMostOneKernel'
  <2>1. CASE size[t] \in Sizes
    BY <1>1, <1>2, <2>1 DEF DebtAtMostOneKernel
  <2>2. CASE size[t] = 0
    BY <1>1, <1>2, <2>2 DEF DebtAtMostOneKernel
  <2> QED BY <1>1, <2>1, <2>2
<1>5. TokensWithinTotal'
  <2>1. odd' = (odd \/ size[t] < 0)
    BY DEF take
  <2>2. ~odd' => ~odd /\ ~(size[t] < 0)
    BY <2>1, Zenon
  <2>3. cur \in Int /\ total \in Nat /\ (~odd => cur <= total)
    BY DEF Inv, TypeOK, TokensWithinTotal
  <2>4. ~(size[t] < 0) /\ cur <= total => cur' <= total'
    BY <1>1, <1>2, <2>3
  <2> QED BY <2>2, <2>3, <2>4, Zenon DEF TokensWithinTotal
<1>6. NoLaunchForgotten'
  BY <1>1, <1>2 DEF Inv, NoLaunchForgotten
<1>7. inited
  BY DEF Inv, Quiet, take, Goto
<1>8. SeenTokens' /\ NobodyOverwrites' /\ Quiet' /\ Untouched'
  BY <1>7 DEF Inv, TypeOK, take, Goto, SeenTokens, NobodyOverwrites, Quiet, Untouched
<1> QED BY <1>3, <1>4, <1>5, <1>6, <1>8 DEF Inv, take, BlockHolds

(* The watcher: a sample changes the share and the total only, and a        *)
(* successful swap adds a share that is not negative, up to the total.      *)
LEMMA WatcherStep == ASSUME Inv, Watcher PROVE Inv'
<1>0. /\ cached_sm_limit \in Nat /\ share \in Nat /\ total \in Nat
      /\ cur \in Int /\ wseen \in Int /\ ledger \in Int
  BY ConstantsAssumption DEF Inv, TypeOK
<1>1. ASSUME NEW u \in Utils, watcher_tick(u) PROVE Inv'
  <2>1. u \in Nat
    BY ConstantsAssumption
  <2>2. share' \in Nat /\ total' \in Nat /\ total' >= total /\ w' \in {"sleep", "token"}
    <3>1. CASE cached_sm_limit >= 100
      BY <1>0, <1>1, <3>1 DEF watcher_tick
    <3>2. CASE ~(cached_sm_limit >= 100)
      <4> DEFINE grow == share = total /\ cur < 0 /\ 2 * total <= MaxTotal
                 tot == IF grow THEN 2 * total ELSE total
                 s == IF grow THEN tot ELSE share
      <4>1. tot \in Nat /\ tot >= total /\ s \in Nat
        BY <1>0
      <4>2. delta(cached_sm_limit, u, s, tot) \in Nat
        BY <1>0, <2>1, <4>1, DeltaNat
      <4>3. total' = tot
        BY <1>1, <3>2 DEF watcher_tick
      <4>4. \/ share' = delta(cached_sm_limit, u, s, tot) /\ w' = "token"
            \/ share' = s /\ w' = "sleep"
        BY <1>1, <3>2 DEF watcher_tick
      <4> HIDE DEF grow, tot, s
      <4> QED BY <4>1, <4>2, <4>3, <4>4
    <3> QED BY <3>1, <3>2
  <2>3. /\ cached_util_switch' = util_switch /\ userutil' = u
        /\ UNCHANGED <<initVars, monitorVars, launchVars, wseen, cur, ledger>>
    BY <1>1 DEF watcher_tick
  <2>4. TypeOK'
    BY <2>2, <2>3 DEF Inv, TypeOK
  <2>5. TokensWithinTotal'
    BY <1>0, <2>2, <2>3 DEF Inv, TokensWithinTotal
  <2>6. inited
    BY <1>1 DEF Inv, Quiet, watcher_tick
  <2> QED BY <2>3, <2>4, <2>5, <2>6 DEF Inv, Quiet, Untouched, SeenTokens, NobodyOverwrites,
             DebtAtMostOneKernel, NoLaunchForgotten, BlockHolds
<1>2. CASE change_token_read
  <2>1. TypeOK'
    BY <1>2 DEF Inv, TypeOK, change_token_read
  <2> QED BY <1>2, <2>1 DEF Inv, change_token_read, Quiet, Untouched, SeenTokens, NobodyOverwrites,
             DebtAtMostOneKernel, TokensWithinTotal, NoLaunchForgotten, BlockHolds
<1>3. CASE change_token
  <2> DEFINE after == Least(wseen + share, total)
  <2>1. /\ cur = wseen /\ w = "cas" /\ cur' = after /\ ledger' = ledger + (after - wseen)
        /\ w' = "sleep" /\ wseen' = 0
        /\ UNCHANGED <<initVars, monitorVars, launchVars, share, userutil, cached_util_switch, total>>
    BY <1>3 DEF change_token, PutBack
  <2>2. after \in Int /\ after <= total /\ (after >= cur \/ after = total)
    BY <1>0, <2>1 DEF Least
  <2> HIDE DEF after
  <2>3. TypeOK'
    <3>1. cur' \in Int /\ ledger' \in Int
      BY <1>0, <2>1, <2>2
    <3> QED BY <2>1, <3>1 DEF Inv, TypeOK
  <2>4. TokensWithinTotal'
    BY <2>1, <2>2 DEF TokensWithinTotal
  <2>5. NoLaunchForgotten'
    <3>1. cur = ledger /\ cur = wseen
      BY <2>1 DEF Inv, NoLaunchForgotten
    <3>2. ledger + (after - wseen) = after
      BY <1>0, <2>2, <3>1
    <3> QED BY <2>1, <3>2 DEF NoLaunchForgotten
  <2>6. DebtAtMostOneKernel'
    <3>1. CASE after >= 0
      BY <2>1, <3>1 DEF DebtAtMostOneKernel
    <3>2. CASE ~(after >= 0)
      <4>1. cur < 0 /\ after >= cur
        BY <1>0, <2>2, <3>2
      <4>2. PICK s \in Sizes : cur + s >= 0
        BY <1>0, <4>1 DEF Inv, DebtAtMostOneKernel
      <4>3. after + s >= 0
        BY <1>0, <2>2, <4>1, <4>2, SizesAreInts
      <4> QED BY <2>1, <4>3 DEF DebtAtMostOneKernel
    <3> QED BY <3>1, <3>2
  <2>7. inited
    BY <2>1 DEF Inv, Quiet
  <2> QED BY <2>1, <2>3, <2>4, <2>5, <2>6, <2>7 DEF Inv, Quiet, Untouched, SeenTokens,
             NobodyOverwrites, BlockHolds
<1>4. CASE change_token_fails
  <2>1. TypeOK'
    BY <1>4 DEF Inv, TypeOK, change_token_fails
  <2> QED BY <1>4, <2>1 DEF Inv, change_token_fails, Quiet, Untouched, SeenTokens, NobodyOverwrites,
             DebtAtMostOneKernel, TokensWithinTotal, NoLaunchForgotten, BlockHolds
<1> QED BY <1>1, <1>2, <1>3, <1>4 DEF Watcher

(* The monitor: a block remembers whom it may have overtaken.               *)
LEMMA MonitorStep == ASSUME Inv, monitor_block \/ monitor_release PROVE Inv'
<1>1. CASE monitor_block
  <2>1. TypeOK'
    BY <1>1 DEF Inv, TypeOK, monitor_block
  <2>2. NobodyOverwrites' /\ BlockHolds'
    BY <1>1 DEF monitor_block, NobodyOverwrites, BlockHolds
  <2> QED BY <1>1, <2>1, <2>2 DEF Inv, monitor_block, Quiet, Untouched, SeenTokens,
             DebtAtMostOneKernel, TokensWithinTotal, NoLaunchForgotten
<1>2. CASE monitor_release
  <2>1. TypeOK'
    BY <1>2 DEF Inv, TypeOK, monitor_release
  <2> QED BY <1>2, <2>1 DEF Inv, monitor_release, Quiet, Untouched, SeenTokens, NobodyOverwrites,
             DebtAtMostOneKernel, TokensWithinTotal, NoLaunchForgotten, BlockHolds
<1> QED BY <1>1, <1>2

(* Nothing changes in a stuttering step. *)
LEMMA Stutters == Inv /\ UNCHANGED vars => Inv'
BY DEF vars, Inv, TypeOK, Quiet, Untouched, SeenTokens, NobodyOverwrites, DebtAtMostOneKernel,
       TokensWithinTotal, NoLaunchForgotten, BlockHolds

(* The invariant holds in every state of every run of the limiter.          *)
THEOREM LimiterInvariant == Spec => []Inv
<1>1. Init => Inv
  BY InitEstablishes
<1>2. Inv /\ [Next]_vars => Inv'
  <2> SUFFICES ASSUME Inv, [Next]_vars PROVE Inv'
    OBVIOUS
  <2>1. CASE Next
    <3>1. ASSUME NEW t \in Threads, Launch(t) \/ fork(t) \/ \E g \in Grids : launch(t, g) PROVE Inv'
      BY <3>1, LaunchMoves, TakeStep, ForkStep DEF Launch
    <3>2. ASSUME NEW found \in {0, 1},
                 \/ init_utilization_watcher(found) \/ init_utilization_watcher_refused(found)
                 \/ update_host_pid(found)
          PROVE  Inv'
      BY <3>2, InitStep
    <3> QED BY <2>1, <3>1, <3>2, WatcherStep, MonitorStep DEF Next
  <2>2. CASE UNCHANGED vars
    BY <2>2, Stutters
  <2> QED BY <2>1, <2>2
<1> QED BY <1>1, <1>2, PTL DEF Spec

(* Every variable of the limiter keeps its type: the share delta computes   *)
(* is never negative, whatever the attributes of the device.                *)
THEOREM TypeCorrect == Spec => []TypeOK
<1>1. Inv => TypeOK
  BY DEF Inv
<1> QED BY <1>1, LimiterInvariant, PTL

(* rate_limiter overdraws the tokens by at most one kernel, for any number  *)
(* of threads that launch at once and any sizes of their kernels.           *)
THEOREM DebtBounded == Spec => []DebtAtMostOneKernel
<1>1. Inv => DebtAtMostOneKernel
  BY DEF Inv
<1> QED BY <1>1, LimiterInvariant, PTL

(* change_token never saves up more tokens than the total, outside forked   *)
(* children and until a size wraps.                                         *)
THEOREM TokensBounded == Spec => []TokensWithinTotal
<1>1. Inv => TokensWithinTotal
  BY DEF Inv
<1> QED BY <1>1, LimiterInvariant, PTL

(* The two compare-and-swap loops lose no update of g_cur_cuda_cores.       *)
THEOREM LedgerExact == Spec => []NoLaunchForgotten
<1>1. Inv => NoLaunchForgotten
  BY DEF Inv
<1> QED BY <1>1, LimiterInvariant, PTL

(* The monitor's block is only undone by a thread it found between the test *)
(* and the store of recent_kernel.                                          *)
THEOREM BlockStands == Spec => []BlockHolds
<1>1. Inv => BlockHolds
  BY DEF Inv
<1> QED BY <1>1, LimiterInvariant, PTL
=============================================================================
