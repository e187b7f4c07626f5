------------------------------- MODULE Startup -------------------------------
(***************************************************************************)
(* The life of the processes of a container up to their normal running,    *)
(* and the tool that suspends them:                                        *)
(*   try_create_shrreg     maps the region and initialises it once, under  *)
(*                         the lock of the file                            *)
(*   init_proc_slot_withlock   registers, and clear_proc_slot_nolock       *)
(*                         removes slots (one step here, the steps are in  *)
(*                         module ProcSlots)                               *)
(*   postInit              finds the pid that the host has for the process *)
(*                         by comparing the processes on the device before *)
(*                         and after it takes a context, one process at a  *)
(*                         time (sem_postinit)                             *)
(*   shrreg_tool           creates the region anew, or sends SIGUSR2 or    *)
(*                         SIGUSR1 to all and waits for their status       *)
(* A process may be killed at any step; its pid may be used again.         *)
(*                                                                         *)
(* Detection and suspension share nothing but the slots: a scope explores  *)
(* processes that detect, or processes that a tool suspends before, and    *)
(* then the tool may also create the region.  In the scope "serial" they   *)
(* start one after the other, none is killed before it has registered and  *)
(* no pid is used again, so that there can be more of them.                *)
(***************************************************************************)
EXTENDS Limits, Sequences, FiniteSets

CONSTANTS Apps,         \* pids of the processes that use the device
          Tool,         \* pid of the tool
          Cast,         \* Cast[scope]: the processes that start in a scope
          Env,          \* Env[p]: the settings in the environment of p
          Override,     \* the lines of the tool's override file
          None,         \* nobody holds the file lock
          Outsider,     \* host pid of a process outside the container
          MaxTrials,    \* SEM_WAIT_RETRY_TIMES_POSTINIT
          MaxKills,     \* bound: processes killed
          MaxRestarts   \* bound: pids used again

Procs == Apps \cup {Tool}

ASSUME StartupAssumption ==
    /\ Tool \notin Apps /\ None \notin Procs
    /\ MaxTrials \in Nat /\ MaxKills \in Nat /\ MaxRestarts \in Nat

VARIABLES
    flag, limit, sem_postinit, written,   \* the region; written: what is initialised
    flk,                                  \* who holds the lock of the file
    slot, status, hostpid,                \* the slots
    astray,                               \* processes whose my_slot is not at their slot
    pc, trials, before, pidfound,         \* each process, its locals, its pidfound
    inc,                                  \* which process of the container with this pid it is
    dev,                                  \* host pids with a context on the device
    pend,                                 \* pend[p]: the signal that has been sent to p
    env,                                  \* the settings each process has now
    kills, restarts, scope,
    disturbed,    \* history: processes in whose detection another came to the device
    inherited,    \* history: processes that found the host pid of a predecessor
    retried,      \* history: processes whose context failed at first and not at last
    late          \* history: processes that came or went since the tool's last signals,
                  \* and those whose status another has written

regionVars == <<flag, limit, sem_postinit, written, flk>>
slotVars == <<slot, status, hostpid, astray>>
localVars == <<trials, before, pidfound>>
faultVars == <<inc, env, kills, restarts, scope>>
vars == <<regionVars, slotVars, pc, localVars, faultVars, dev, pend, disturbed, inherited, retried, late>>

NoLimits == <<0, 0>>

LimitsOf(settings) == <<do_init_device_memory_limits(settings["mem0"], settings["mem"]),
                        do_init_device_sm_limits(settings["sm0"], settings["sm"])>>

Host(p) == <<p, inc[p]>>

(* Where a process is; besides: "idle" before postInit, "postinit" waiting  *)
(* for it, "run" after it, "dead", and "ready" for the tool.                *)
Unregistered == {"new", "open", "locked", "sems", "mark", "unlock", "register"}
Detecting == {"first", "second", "post"}
Waiting == {"stopping", "resuming"}
Signalled == Waiting \cup {"stopped"}

Registered(p) == pc[p] \notin Unregistered \cup {"dead"}

Init ==
    /\ flag = FALSE /\ limit = NoLimits /\ sem_postinit = 0 /\ written = {}
    /\ flk = None
    /\ slot = [p \in Procs |-> "none"]
    /\ status = [p \in Procs |-> 0]
    /\ hostpid = [p \in Procs |-> <<>>]
    /\ astray = {}
    /\ pc = [p \in Procs |-> "new"]
    /\ trials = [p \in Procs |-> 0]
    /\ before = [p \in Procs |-> {}]
    /\ pidfound = [p \in Procs |-> 0]
    /\ inc = [p \in Procs |-> 1]
    /\ env = Env
    /\ dev = {}
    /\ pend = [p \in Procs |-> 0]
    /\ kills = 0 /\ restarts = 0
    /\ scope \in DOMAIN Cast
    /\ disturbed = {} /\ inherited = {} /\ retried = {} /\ late = {}

Goto(p, from, to) == pc[p] = from /\ pc' = [pc EXCEPT ![p] = to]

(* The end of the process p; what the kernel takes back.                    *)
Ends(p) ==
    /\ pc' = [pc EXCEPT ![p] = "dead"]
    /\ flk' = IF flk = p THEN None ELSE flk
    /\ dev' = dev \ {Host(p)}
    /\ trials' = [trials EXCEPT ![p] = 0]
    /\ before' = [before EXCEPT ![p] = {}]
    /\ pidfound' = [pidfound EXCEPT ![p] = 0]
    /\ astray' = astray \ {p}
    /\ late' = IF pc[Tool] \in Signalled THEN late \cup ({p} \cap Apps) ELSE late
    /\ UNCHANGED <<flag, limit, sem_postinit, written, hostpid, inc, env, restarts, scope, disturbed, inherited>>
    /\ retried' = retried \ {p}

(***************************************************************************)
(* try_create_shrreg.                                                      *)
(***************************************************************************)
(* Bound: which processes start, and when.                                  *)
Starts(p) ==
    /\ p \in Cast[scope]
    /\ scope = "serial" => \A q \in Procs : pc[q] \notin Unregistered \ {"new"}

(* Opens, extends and maps the file.                                        *)
open(p) ==
    /\ Starts(p)
    /\ Goto(p, "new", "open")
    /\ UNCHANGED <<regionVars, slotVars, localVars, faultVars, dev, pend, disturbed, inherited, retried, late>>

(* The tool's create_new loads the override file and truncates the file of  *)
(* the region first.  Bound: while no process is using the region; the code *)
(* does not ask.                                                            *)
create_new ==
    /\ scope = "suspend"
    /\ \A p \in Apps : pc[p] \in {"new", "open", "dead"}
    /\ Goto(Tool, "new", "open")
    /\ env' = [env EXCEPT ![Tool] = load_env_from_file(@, Override)]
    /\ flag' = FALSE /\ limit' = NoLimits /\ sem_postinit' = 0 /\ written' = {}
    /\ slot' = [p \in Procs |-> "none"]
    /\ status' = [p \in Procs |-> 0]
    /\ hostpid' = [p \in Procs |-> <<>>]
    /\ astray' = {}
    /\ UNCHANGED <<flk, localVars, inc, kills, restarts, scope, dev, pend, disturbed,
                   inherited, retried, late>>

lockf_shared(p) ==
    /\ Goto(p, "open", IF flag THEN "unlock" ELSE "locked")
    /\ flk' = p
    /\ UNCHANGED <<flag, limit, sem_postinit, written, slotVars, localVars, faultVars, dev, pend, disturbed, inherited, retried, late>>

(* Takes the lock of the file and reads initialized_flag; differing limits  *)
(* and versions of an initialised region are only logged.                   *)
lockf(p) ==
    /\ flk = None
    /\ Goto(p, "open", IF flag THEN "unlock" ELSE "locked")
    /\ flk' = p
    /\ UNCHANGED <<flag, limit, sem_postinit, written, slotVars, localVars, faultVars, dev, pend, disturbed, inherited, retried, late>>

init_limits_flagged(p) ==
    /\ Goto(p, "locked", "sems")
    /\ limit' = LimitsOf(env[p])
    /\ written' = written \cup {"limits"}
    /\ flag' = TRUE
    /\ UNCHANGED <<sem_postinit, flk, slotVars, localVars, faultVars, dev, pend, disturbed, inherited, retried, late>>

init_limits(p) ==
    /\ Goto(p, "locked", "sems")
    /\ limit' = LimitsOf(env[p])
    /\ written' = written \cup {"limits"}
    /\ UNCHANGED <<flag, sem_postinit, flk, slotVars, localVars, faultVars, dev, pend, disturbed, inherited, retried, late>>

(* sem_init of both semaphores, proc_num = 0.                               *)
init_sems(p) ==
    /\ Goto(p, "sems", "mark")
    /\ sem_postinit' = 1
    /\ slot' = [q \in Procs |-> "none"]
    /\ written' = written \cup {"sems"}
    /\ UNCHANGED <<flag, limit, flk, status, hostpid, astray, localVars, faultVars, dev, pend, disturbed, inherited, retried, late>>

set_initialized_flag(p) ==
    /\ Goto(p, "mark", "unlock")
    /\ flag' = TRUE
    /\ UNCHANGED <<limit, sem_postinit, written, flk, slotVars, localVars, faultVars, dev, pend, disturbed, inherited, retried, late>>

unlockf(p) ==
    /\ Goto(p, "unlock", "register")
    /\ flk' = IF flk = p THEN None ELSE flk
    /\ UNCHANGED <<flag, limit, sem_postinit, written, slotVars, localVars, faultVars, dev, pend, disturbed, inherited, retried, late>>

(* What clear_proc_slot_nolock removes when p calls it.                     *)
Gone(p) == {q \in Procs \ {p} : slot[q] = "marked" \/ (slot[q] = "live" /\ pc[q] = "dead")}

(* It fills the gaps with the slots that were last in the table, n of other *)
(* processes at most; only the caller's my_slot follows its slot.           *)
Moves(p, n) ==
    \E moved \in SUBSET {q \in Apps \ {p} : Registered(q)} :
        /\ moved = {} \/ Cardinality(moved) <= n
        /\ astray' = astray \cup moved

(* Finds the slot of its pid, of which the host pid stays, or adds one at   *)
(* the end; then marked slots and those of dead processes are removed.      *)
init_proc_slot_withlock(p) ==
    LET found == slot[p] = "live" IN
    /\ Goto(p, "register", IF p = Tool THEN "ready" ELSE "idle")
    /\ slot' = [q \in Procs |-> IF q = p THEN "live" ELSE IF q \in Gone(p) THEN "none" ELSE slot[q]]
    /\ Moves(p, Cardinality(Gone(p)) - IF found THEN 0 ELSE 1)
    /\ status' = [status EXCEPT ![p] = 1]
    /\ hostpid' = IF found THEN hostpid ELSE [hostpid EXCEPT ![p] = <<>>]
    /\ inherited' = IF found /\ hostpid[p] # <<>> THEN inherited \cup {p} ELSE inherited \ {p}
    /\ late' = IF pc[Tool] \in Signalled THEN late \cup ({p} \cap Apps) ELSE late
    /\ UNCHANGED <<regionVars, localVars, faultVars, dev, pend, disturbed, retried>>

(* The same removal for an allocation that exceeds the limit (oom_check);   *)
(* ENSURE_RUNNING has let the call through.                                 *)
clear_proc_slot_nolock(p) ==
    /\ scope = "serial" /\ pc[p] = "idle" /\ (p \in astray \/ status[p] = 1)
    /\ Gone(p) # {}
    /\ slot' = [q \in Procs |-> IF q \in Gone(p) THEN "none" ELSE slot[q]]
    /\ Moves(p, Cardinality(Gone(p)))
    /\ UNCHANGED <<regionVars, status, hostpid, pc, localVars, faultVars, dev, pend, disturbed,
                   inherited, retried, late>>

(***************************************************************************)
(* postInit.                                                               *)
(***************************************************************************)
(* The first call that needs it; postInit runs once.                        *)
ensure_post_init(p) ==
    /\ scope = "detect"
    /\ Goto(p, "idle", "postinit")
    /\ UNCHANGED <<regionVars, slotVars, localVars, faultVars, dev, pend, disturbed, inherited, retried, late>>

lock_postinit(p) ==
    /\ sem_postinit > 0
    /\ Goto(p, "postinit", "first")
    /\ sem_postinit' = sem_postinit - 1
    /\ trials' = [trials EXCEPT ![p] = 0]
    /\ UNCHANGED <<flag, limit, written, flk, slotVars, before, pidfound,
                   faultVars, dev, pend, disturbed, inherited, retried, late>>

(* A timeout of sem_timedwait; after the last trial the process goes on     *)
(* (to) with its trials set to n.                                           *)
TimesOut(p, n, to) ==
    /\ sem_postinit = 0
    /\ Goto(p, "postinit", to)
    /\ trials' = [trials EXCEPT ![p] = n]
    /\ UNCHANGED <<regionVars, slotVars, before, pidfound,
                   faultVars, dev, pend, disturbed, inherited, retried, late>>

lock_postinit_timeout_uncounted(p) == TimesOut(p, trials[p], "postinit")

lock_postinit_timeout_success(p) ==
    IF trials[p] >= MaxTrials THEN TimesOut(p, 0, "first") ELSE TimesOut(p, trials[p] + 1, "postinit")

(* Skips the detection: pidfound stays 0.                                   *)
lock_postinit_timeout(p) ==
    IF trials[p] >= MaxTrials THEN TimesOut(p, 0, "run") ELSE TimesOut(p, trials[p] + 1, "postinit")

(* Unless the application has initialised NVML itself, the rest of postInit *)
(* then calls nvmlDeviceGetCount through an entry that is still NULL.       *)
init_utilization_watcher_null(p) ==
    /\ pc[p] = "postinit" /\ sem_postinit = 0 /\ trials[p] >= MaxTrials
    /\ Ends(p)
    /\ pend' = [pend EXCEPT ![p] = 0]
    /\ UNCHANGED <<slot, status, kills>>

(* set_task_pid up to its first list of processes, which NVML may refuse.   *)
set_task_pid_first(p) ==
    /\ pc[p] = "first"
    /\ \/ /\ before' = [before EXCEPT ![p] = dev]
          /\ pc' = [pc EXCEPT ![p] = "second"]
       \/ /\ UNCHANGED before
          /\ pc' = [pc EXCEPT ![p] = "post"]
    /\ disturbed' = disturbed \ {p}
    /\ UNCHANGED <<regionVars, slotVars, trials, pidfound, faultVars, dev, pend, inherited, retried, late>>

getextrapid_any(prev, current) == current

(* The pids getextrapid may return, for any order of the list; <<>> is 0.   *)
(* Two lists of equal length count as equal.                                *)
getextrapid(prev, current) ==
    IF Cardinality(current) = Cardinality(prev) \/ current \subseteq prev
    THEN {<<>>}
    ELSE current \ prev

set_task_pid_second_unchecked(p) ==
    /\ Goto(p, "second", "post")
    /\ \E extra \in getextrapid(before[p], dev \cup {Host(p)}) :
         /\ hostpid' = IF slot[p] = "live" THEN [hostpid EXCEPT ![p] = extra] ELSE hostpid
         /\ pidfound' = [pidfound EXCEPT ![p] = 1]
    /\ before' = [before EXCEPT ![p] = {}]
    /\ UNCHANGED <<regionVars, slot, status, astray, trials, faultVars, dev, pend, disturbed,
                   inherited, retried, late>>

(* Takes a context, lists the processes again, which NVML may refuse; the   *)
(* context is given back unless no pid was found.                           *)
set_task_pid_second(p) ==
    /\ Goto(p, "second", "post")
    /\ \E extra \in getextrapid(before[p], dev \cup {Host(p)}) \cup {<<>>} :
         /\ hostpid' = IF extra # <<>> /\ slot[p] = "live" THEN [hostpid EXCEPT ![p] = extra] ELSE hostpid
         /\ inherited' = IF extra # <<>> THEN inherited \ {p} ELSE inherited
         /\ pidfound' = [pidfound EXCEPT ![p] = IF extra # <<>> THEN 1 ELSE 0]
         /\ dev' = IF extra # <<>> THEN dev \ {Host(p)} ELSE dev \cup {Host(p)}
    /\ before' = [before EXCEPT ![p] = {}]
    /\ UNCHANGED <<regionVars, slot, status, astray, trials, faultVars, pend, disturbed, retried, late>>

(* CHECK_CU_RESULT evaluates the failed call again and returns what it      *)
(* returns then, which may be success.                                      *)
set_task_pid_no_context(p) ==
    /\ Goto(p, "second", "post")
    /\ before' = [before EXCEPT ![p] = {}]
    /\ \/ UNCHANGED <<pidfound, dev, retried>>
       \/ /\ pidfound' = [pidfound EXCEPT ![p] = 1]
          /\ dev' = dev \cup {Host(p)}
          /\ retried' = retried \cup {p}
    /\ UNCHANGED <<regionVars, slotVars, trials, faultVars, pend, disturbed, inherited, late>>

unlock_postinit(p) ==
    /\ Goto(p, "post", "run")
    /\ sem_postinit' = sem_postinit + 1
    /\ UNCHANGED <<flag, limit, written, flk, slotVars, localVars, faultVars, dev, pend, disturbed, inherited, retried, late>>

(* The watcher of a process without a host pid looks in its slot.           *)
update_host_pid(p) ==
    /\ pc[p] = "run" /\ pidfound[p] = 0
    /\ slot[p] = "live" /\ hostpid[p] # <<>>
    /\ pidfound' = [pidfound EXCEPT ![p] = 1]
    /\ UNCHANGED <<regionVars, slotVars, pc, trials, before, faultVars, dev, pend, disturbed, inherited, retried, late>>

(* Contexts come and go on the device, of running processes and of others.  *)
Appears(h) ==
    /\ h \notin dev
    /\ dev' = dev \cup {h}
    /\ disturbed' = disturbed \cup {p \in Apps : pc[p] = "second"}
    /\ UNCHANGED <<regionVars, slotVars, pc, localVars, faultVars, pend, inherited, retried, late>>

Disappears(h) ==
    /\ h \in dev
    /\ dev' = dev \ {h}
    /\ UNCHANGED <<regionVars, slotVars, pc, localVars, faultVars, pend, disturbed, inherited, retried, late>>

use_device(p) == pc[p] = "run" /\ (Appears(Host(p)) \/ Disappears(Host(p)))

others_use_device == scope = "detect" /\ (Appears(Outsider) \/ Disappears(Outsider))

(***************************************************************************)
(* Suspend and resume: signal 2 is SIGUSR2, 1 is SIGUSR1.                  *)
(***************************************************************************)
(* suspend_all and resume_all, which signal every slot's pid.  The pid of a *)
(* marked slot is 0, and kill(0) signals all in the group of the tool,      *)
(* which may have started it or not.  The tool's own status, which its      *)
(* signal to itself sets, is not waited for.                                *)
SignalAll(signal, from, to) ==
    /\ Goto(Tool, from, to)
    /\ \E group \in {{}, {p \in Apps : pc[p] # "new"}} :
         /\ group # {} => \E p \in Apps : slot[p] = "marked"
         /\ pend' = [p \in Procs |-> IF (slot[p] = "live" \/ p \in group) /\ pc[p] # "dead" /\ p # Tool
                                     THEN signal ELSE pend[p]]
    /\ late' = {p \in Apps : slot[p] = "marked" \/ (slot[p] = "live" /\ ~Registered(p))}
    /\ UNCHANGED <<regionVars, slotVars, localVars, faultVars, dev, disturbed, inherited, retried>>

suspend_all == SignalAll(2, "ready", "stopping")

resume_all == SignalAll(1, "stopped", "resuming") \/ SignalAll(1, "ready", "resuming")

(* sig_swap_stub, sig_restore_stub: set_current_gpu_status at my_slot, and  *)
(* if that is not the process's own slot, at nobody's or at another's.  A   *)
(* process that has not installed them, which has the pid of an old slot or *)
(* is in the tool's group, dies.                                            *)
handle_signal(p) ==
    /\ pend[p] # 0
    /\ pend' = [pend EXCEPT ![p] = 0]
    /\ \/ /\ Registered(p)
          /\ \E q \in IF p \in astray THEN Procs ELSE {p} :
               /\ status' = IF slot[q] = "live" THEN [status EXCEPT ![q] = pend[p]] ELSE status
               /\ late' = IF q # p /\ pc[Tool] \in Signalled THEN late \cup ({q} \cap Apps) ELSE late
          /\ UNCHANGED <<regionVars, slot, hostpid, astray, pc, localVars, faultVars, dev, disturbed,
                         inherited, retried>>
       \/ ~Registered(p) /\ Ends(p) /\ UNCHANGED <<slot, status, kills>>

wait_status_all_own(signal) == \A p \in Procs : slot[p] # "none" => status[p] = signal

wait_status_all_some(signal) == \E p \in Procs : slot[p] # "none" => status[p] = signal

wait_status_all(signal) == \A p \in Procs \ {Tool} : slot[p] # "none" => status[p] = signal

(* send_stop_signal and send_resume_signal return.                          *)
Released(signal, from, to) ==
    /\ wait_status_all(signal)
    /\ Goto(Tool, from, to)
    /\ UNCHANGED <<regionVars, slotVars, localVars, faultVars, dev, pend, disturbed, inherited, retried, late>>

send_stop_signal == Released(2, "stopping", "stopped")

send_resume_signal == Released(1, "resuming", "ready")

(***************************************************************************)
(* Ends and new processes.                                                 *)
(***************************************************************************)
(* exit_handler marks the slot.                                             *)
exit_handler(p) ==
    /\ pc[p] \in {"idle", "run", "ready", "stopped"}
    /\ Ends(p)
    /\ slot' = IF slot[p] = "live" THEN [slot EXCEPT ![p] = "marked"] ELSE slot
    /\ status' = IF slot[p] = "live" THEN [status EXCEPT ![p] = 0] ELSE status
    /\ pend' = [pend EXCEPT ![p] = 0]
    /\ UNCHANGED kills

kill(p) ==
    /\ kills < MaxKills /\ (scope = "serial" => Registered(p))
    /\ pc[p] # "dead"
    /\ Ends(p)
    /\ kills' = kills + 1
    /\ pend' = [pend EXCEPT ![p] = 0]
    /\ UNCHANGED <<slot, status>>

restart(p) ==
    /\ restarts < MaxRestarts /\ scope # "serial"
    /\ Goto(p, "dead", "new")
    /\ restarts' = restarts + 1
    /\ inc' = [inc EXCEPT ![p] = @ + 1]
    /\ UNCHANGED <<regionVars, slotVars, localVars, env, kills, scope, dev, pend, disturbed, inherited, retried, late>>

Create(p) ==
    \/ open(p) \/ lockf(p) \/ init_limits(p) \/ init_sems(p) \/ set_initialized_flag(p)
    \/ unlockf(p) \/ init_proc_slot_withlock(p)

PostInit(p) ==
    \/ lock_postinit(p) \/ lock_postinit_timeout(p) \/ init_utilization_watcher_null(p)
    \/ set_task_pid_first(p)
    \/ set_task_pid_second(p) \/ set_task_pid_no_context(p) \/ unlock_postinit(p)

Next ==
    \/ \E p \in Procs : Create(p) \/ handle_signal(p) \/ kill(p) \/ exit_handler(p)
    \/ \E p \in Apps : ensure_post_init(p) \/ PostInit(p) \/ update_host_pid(p) \/ use_device(p)
                      \/ clear_proc_slot_nolock(p) \/ restart(p)
    \/ others_use_device
    \/ create_new
    \/ suspend_all \/ send_stop_signal \/ resume_all \/ send_resume_signal

(* A process goes on with postInit, signals are delivered, and the tool     *)
(* looks again every second.                                                *)
Fairness ==
    /\ \A p \in Apps : WF_vars(PostInit(p)) /\ WF_vars(handle_signal(p))
    /\ WF_vars(send_stop_signal) /\ WF_vars(send_resume_signal)

Spec == Init /\ [][Next]_vars /\ Fairness

(***************************************************************************)
(* Properties.                                                             *)
(***************************************************************************)
(* Whoever is killed while it creates the region: a process that has got    *)
(* past try_create_shrreg finds limits and semaphores initialised.          *)
ReadyBeforeUse ==
    \A p \in Procs : (pc[p] = "register" \/ Registered(p)) => written = {"limits", "sems"}

(* The limits of an initialised region stay as they are, although two       *)
(* processes may start at once and each brings its own environment.         *)
LimitsFixed == [][(flag /\ flag') => limit' = limit]_vars

(* At most one process is detecting its host pid, with kills at any step    *)
(* and after timeouts.                                                      *)
OneDetector == Cardinality({p \in Apps : pc[p] \in Detecting}) <= 1

(* The host pid in the slot of a running process is its own, unless during  *)
(* its detection another process came to the device, or the detection of a  *)
(* process with a used pid failed and the predecessor's host pid stayed.    *)
HostPidRight ==
    \A p \in Apps : (Registered(p) /\ slot[p] = "live" /\ hostpid[p] # <<>>)
        => hostpid[p] = Host(p) \/ p \in disturbed \cup inherited

(* pidfound, which turns the core limit on, is set only for a process whose *)
(* slot has a host pid, by which its samples are found, unless its context  *)
(* was refused first and granted when CHECK_CU_RESULT asked again.          *)
FoundHasHostPid ==
    \A p \in Apps : (pidfound[p] = 1 /\ p \notin retried) => slot[p] = "live" /\ hostpid[p] # <<>>

(* From the return of send_stop_signal until the next signals every process *)
(* that had registered before the first ones is stopped, and ENSURE_RUNNING *)
(* holds it, unless another process has moved its slot (its my_slot is then *)
(* elsewhere) or has written its status through such a my_slot.             *)
StoppedStays ==
    pc[Tool] = "stopped" =>
        \A p \in Apps \ (late \cup astray) : Registered(p) /\ slot[p] = "live" => status[p] = 2

(* Waiting for the detection ends for everybody, also after the death of    *)
(* the process that holds sem_postinit.                                     *)
PostInitEnds == \A p \in Apps : pc[p] = "postinit" ~> pc[p] \in {"run", "dead"}

(* The tool's waiting ends, unless a process registers, exits or dies while *)
(* it waits or has a slot left behind when the signals are sent, or the     *)
(* slot of a process was moved by another: its handler then answers in the  *)
(* wrong place.                                                             *)
SuspendEnds == (pc[Tool] \in Waiting) ~> (late \cup astray # {} \/ pc[Tool] \notin Waiting)
=============================================================================
