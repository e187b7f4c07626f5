----------------------------- MODULE ShrregLock -----------------------------
(***************************************************************************)
(* The lock of the shared region: the semaphore region->sem, the word      *)
(* region->owner_pid that names its holder, and the code that uses them:   *)
(* lock_shrreg, unlock_shrreg, and the first half of exit_handler          *)
(* (multiprocess_memory_limit.c).                                          *)
(*                                                                         *)
(* Each process has one thread inside the lock code at a time: the main    *)
(* thread once, from init_proc_slot_withlock, and from then on the         *)
(* utilization watcher thread, from get_used_gpu_utilization, in the       *)
(* processes that have a core limit.  The variable pc follows that thread. *)
(* The variable xpc follows the thread that runs exit_handler: exit() runs *)
(* the handlers while the other threads of the process keep running.       *)
(*                                                                         *)
(* A process may be killed between any two steps (SIGKILL, or any signal   *)
(* with the default action: no handler runs), and its pid may be given to  *)
(* a new process, as happens when a container restarts.                    *)
(***************************************************************************)
EXTENDS Naturals

CONSTANTS
  Procs,         \* the pids of the container
  NoPid,         \* the value 0 of owner_pid
  WatcherProcs,  \* processes that start the watcher thread (a core limit is set)
  ExitProcs,     \* processes that end by exit(); the others run until killed
  MaxTrials,     \* the bound "trials > 30" of lock_shrreg
  MaxRestarts    \* bound: how many times a pid is reused

ASSUME LockAssumption ==
  /\ NoPid \notin Procs
  /\ WatcherProcs \subseteq Procs
  /\ ExitProcs \subseteq Procs
  /\ MaxTrials \in Nat
  /\ MaxRestarts \in Nat

VARIABLES
  sem,       \* value of region->sem
  owner,     \* region->owner_pid
  up,        \* up[p]: the process exists
  inited,    \* inited[p]: init_proc_slot_withlock has returned
  pc,        \* pc[p]: where the locking thread of p is
  seen,      \* seen[p]: current_owner, as loaded after a timeout
  trials,    \* trials[p]: counted up to MaxTrials + 1
  xpc,       \* xpc[p]: where the exiting thread of p is
  restarts,  \* pids reused so far
  stolen     \* history: a CAS took the lock from a thread that still runs in it

vars == <<sem, owner, up, inited, pc, seen, trials, xpc, restarts, stolen>>

-----------------------------------------------------------------------------
(* State *)

PC ==
  {"out",      \* not in the lock code
   "wait",     \* in sem_timedwait
   "took",     \* sem_timedwait returned 0, owner_pid not yet stored
   "cs",       \* in the critical section
   "reset",    \* unlock_shrreg has cleared owner_pid, sem_post is next
   "check",    \* timed out, owner_pid loaded, proc_alive is next
   "kick",     \* the owner was found dead, the CAS is next
   "repost",   \* the CAS succeeded, sem_post is next
   "giveup"}   \* exit(-1) was called from lock_shrreg

XPC == {"no", "cas", "post", "done"}

(* The thread has taken one unit from the semaphore and has to give it back. *)
HoldingPC == {"took", "cs", "reset", "repost"}

Holds(p) == up[p] /\ pc[p] \in HoldingPC

(* The values stay in their types; lock_shrreg counts its trials up to one  *)
(* above the limit.                                                         *)
TypeOK ==
  /\ sem \in Nat
  /\ owner \in Procs \cup {NoPid}
  /\ up \in [Procs -> BOOLEAN]
  /\ inited \in [Procs -> BOOLEAN]
  /\ pc \in [Procs -> PC]
  /\ seen \in [Procs -> Procs \cup {NoPid}]
  /\ trials \in [Procs -> 0..(MaxTrials + 1)]
  /\ xpc \in [Procs -> XPC]
  /\ restarts \in 0..MaxRestarts
  /\ stolen \in BOOLEAN

(* sem_init(&region->sem, 1, 1); the file is zero-filled, so owner_pid is 0. *)
Init ==
  /\ sem = 1
  /\ owner = NoPid
  /\ up = [p \in Procs |-> TRUE]
  /\ inited = [p \in Procs |-> FALSE]
  /\ pc = [p \in Procs |-> "out"]
  /\ seen = [p \in Procs |-> NoPid]
  /\ trials = [p \in Procs |-> 0]
  /\ xpc = [p \in Procs |-> "no"]
  /\ restarts = 0
  /\ stolen = FALSE

(* The locking thread of p is at a and moves to b. *)
Goto(p, a, b) ==
  /\ up[p]
  /\ pc[p] = a
  /\ pc' = [pc EXCEPT ![p] = b]

-----------------------------------------------------------------------------
(* Faulty variants of the actions below, each with one plausible mistake:    *)
(* the properties of this module must tell them from the real ones.         *)

(* trials is declared inside the loop *)
sem_timedwait_timeout_uncounted(p) ==
  /\ sem = 0
  /\ Goto(p, "wait", "check")
  /\ seen' = [seen EXCEPT ![p] = owner]
  /\ UNCHANGED <<sem, owner, up, inited, trials, xpc, restarts, stolen>>

(* the recovery stores 0 where it should compare and exchange *)
kick_owner_blindly(p) ==
  /\ Goto(p, "kick", "repost")
  /\ owner' = NoPid
  /\ stolen' = (stolen \/ (owner = seen[p] /\ Holds(seen[p])))
  /\ seen' = [seen EXCEPT ![p] = NoPid]
  /\ UNCHANGED <<sem, up, inited, trials, xpc, restarts>>

(* the recovery goes back to the wait without the CAS *)
owner_dead_ignored(p) ==
  /\ seen[p] # NoPid
  /\ ~up[seen[p]]
  /\ Goto(p, "check", "wait")
  /\ seen' = [seen EXCEPT ![p] = NoPid]
  /\ UNCHANGED <<sem, owner, up, inited, trials, xpc, restarts, stolen>>

(* unlock_shrreg leaves owner_pid as it is *)
unlock_shrreg_keeps_owner(p) ==
  /\ Goto(p, "cs", "reset")
  /\ UNCHANGED <<sem, owner, up, inited, seen, trials, xpc, restarts, stolen>>

-----------------------------------------------------------------------------
(* lock_shrreg *)

(* The main thread from init_proc_slot_withlock, once, then the watcher. *)
lock_shrreg(p) ==
  /\ inited[p] => p \in WatcherProcs
  /\ Goto(p, "out", "wait")
  /\ UNCHANGED <<sem, owner, up, inited, seen, trials, xpc, restarts, stolen>>

sem_timedwait_ok(p) ==
  /\ sem > 0
  /\ Goto(p, "wait", "took")
  /\ sem' = sem - 1
  /\ UNCHANGED <<owner, up, inited, seen, trials, xpc, restarts, stolen>>

(* region->owner_pid = region_info.pid; trials = 0 *)
store_owner(p) ==
  /\ Goto(p, "took", "cs")
  /\ owner' = p
  /\ trials' = [trials EXCEPT ![p] = 0]
  /\ UNCHANGED <<sem, up, inited, seen, xpc, restarts, stolen>>

(* Ten seconds passed without a post: trials++ and the load of owner_pid.   *)
(* Only "trials > 30" is ever asked of the counter, so it stops at the bound *)
(* plus one.                                                                *)
sem_timedwait_timeout(p) ==
  /\ sem = 0
  /\ Goto(p, "wait", "check")
  /\ trials' = [trials EXCEPT ![p] = IF @ <= MaxTrials THEN @ + 1 ELSE @]
  /\ seen' = [seen EXCEPT ![p] = owner]
  /\ UNCHANGED <<sem, owner, up, inited, xpc, restarts, stolen>>

(* owner_pid was not 0: proc_alive decides between the CAS and a new wait.   *)
(* The number of trials is not looked at on this path.                      *)
owner_dead(p) ==
  /\ seen[p] # NoPid
  /\ ~up[seen[p]]
  /\ Goto(p, "check", "kick")
  /\ UNCHANGED <<sem, owner, up, inited, seen, trials, xpc, restarts, stolen>>

owner_alive(p) ==
  /\ seen[p] # NoPid
  /\ up[seen[p]]
  /\ Goto(p, "check", "wait")
  /\ seen' = [seen EXCEPT ![p] = NoPid]
  /\ UNCHANGED <<sem, owner, up, inited, trials, xpc, restarts, stolen>>

(* owner_pid was 0: retry, or exit(-1) after too many trials (a second call  *)
(* of exit() waits for the first one).                                      *)
owner_zero(p) ==
  /\ seen[p] = NoPid
  /\ trials[p] <= MaxTrials
  /\ Goto(p, "check", "wait")
  /\ UNCHANGED <<sem, owner, up, inited, seen, trials, xpc, restarts, stolen>>

give_up(p) ==
  /\ seen[p] = NoPid
  /\ trials[p] > MaxTrials
  /\ xpc[p] = "no"
  /\ Goto(p, "check", "giveup")
  /\ xpc' = [xpc EXCEPT ![p] = "cas"]
  /\ UNCHANGED <<sem, owner, up, inited, seen, trials, restarts, stolen>>

(* CAS(owner_pid, current_owner -> 0) *)
kick_owner(p) ==
  /\ owner = seen[p]
  /\ Goto(p, "kick", "repost")
  /\ owner' = NoPid
  /\ stolen' = (stolen \/ Holds(seen[p]))
  /\ seen' = [seen EXCEPT ![p] = NoPid]
  /\ UNCHANGED <<sem, up, inited, trials, xpc, restarts>>

kick_lost_race(p) ==
  /\ owner # seen[p]
  /\ Goto(p, "kick", "wait")
  /\ seen' = [seen EXCEPT ![p] = NoPid]
  /\ UNCHANGED <<sem, owner, up, inited, trials, xpc, restarts, stolen>>

kick_post(p) ==
  /\ Goto(p, "repost", "wait")
  /\ sem' = sem + 1
  /\ UNCHANGED <<owner, up, inited, seen, trials, xpc, restarts, stolen>>

-----------------------------------------------------------------------------
(* unlock_shrreg *)

unlock_shrreg(p) ==
  /\ Goto(p, "cs", "reset")
  /\ owner' = NoPid
  /\ UNCHANGED <<sem, up, inited, seen, trials, xpc, restarts, stolen>>

(* The first unlock ends init_proc_slot_withlock.  On the path of            *)
(* exit_withlock (the slot table is full) call_exit follows.                *)
unlock_post(p) ==
  /\ Goto(p, "reset", "out")
  /\ sem' = sem + 1
  /\ inited' = [inited EXCEPT ![p] = TRUE]
  /\ UNCHANGED <<owner, up, seen, trials, xpc, restarts, stolen>>

-----------------------------------------------------------------------------
(* The end of a process *)

(* The main thread returns or calls exit(); its watcher is anywhere. *)
call_exit(p) ==
  /\ up[p] /\ inited[p] /\ p \in ExitProcs
  /\ xpc[p] = "no"
  /\ xpc' = [xpc EXCEPT ![p] = "cas"]
  /\ UNCHANGED <<sem, owner, up, inited, pc, seen, trials, restarts, stolen>>

(* "If we're holding owner_pid": a load, and a CAS if it read our pid. The   *)
(* CAS can only succeed when the load did, so one step stands for both.     *)
exit_handler_release(p) ==
  /\ up[p] /\ xpc[p] = "cas"
  /\ owner = p
  /\ owner' = NoPid
  /\ stolen' = (stolen \/ Holds(p))
  /\ xpc' = [xpc EXCEPT ![p] = "post"]
  /\ UNCHANGED <<sem, up, inited, pc, seen, trials, restarts>>

exit_handler_not_owner(p) ==
  /\ up[p] /\ xpc[p] = "cas"
  /\ owner # p
  /\ xpc' = [xpc EXCEPT ![p] = "done"]
  /\ UNCHANGED <<sem, owner, up, inited, pc, seen, trials, restarts, stolen>>

exit_handler_post(p) ==
  /\ up[p] /\ xpc[p] = "post"
  /\ sem' = sem + 1
  /\ xpc' = [xpc EXCEPT ![p] = "done"]
  /\ UNCHANGED <<owner, up, inited, pc, seen, trials, restarts, stolen>>

(* The process is gone, with every thread of it; what it wrote stays. *)
Vanish(p) ==
  /\ up[p]
  /\ up' = [up EXCEPT ![p] = FALSE]
  /\ inited' = [inited EXCEPT ![p] = FALSE]
  /\ pc' = [pc EXCEPT ![p] = "out"]
  /\ seen' = [seen EXCEPT ![p] = NoPid]
  /\ trials' = [trials EXCEPT ![p] = 0]
  /\ xpc' = [xpc EXCEPT ![p] = "no"]
  /\ UNCHANGED <<sem, owner, restarts, stolen>>

exited(p) == xpc[p] = "done" /\ Vanish(p)

kill(p) == xpc[p] # "done" /\ Vanish(p)

(* A new process is started with a pid that was used before. *)
restart(p) ==
  /\ ~up[p]
  /\ restarts < MaxRestarts
  /\ restarts' = restarts + 1
  /\ up' = [up EXCEPT ![p] = TRUE]
  /\ UNCHANGED <<sem, owner, inited, pc, seen, trials, xpc, stolen>>

-----------------------------------------------------------------------------
(* Specification *)

(* What a thread does once it is in the lock code, and the exit handler. *)
lock_step(p) ==
  \/ sem_timedwait_ok(p)
  \/ store_owner(p)
  \/ sem_timedwait_timeout(p)
  \/ owner_dead(p)
  \/ owner_alive(p)
  \/ owner_zero(p)
  \/ give_up(p)
  \/ kick_owner(p)
  \/ kick_lost_race(p)
  \/ kick_post(p)

unlock_step(p) ==
  \/ unlock_shrreg(p)
  \/ unlock_post(p)

exit_step(p) ==
  \/ exit_handler_release(p)
  \/ exit_handler_not_owner(p)
  \/ exit_handler_post(p)
  \/ exited(p)

Next ==
  \E p \in Procs :
    \/ lock_shrreg(p)
    \/ lock_step(p)
    \/ unlock_step(p)
    \/ call_exit(p)
    \/ exit_step(p)
    \/ kill(p)
    \/ restart(p)

Spec == Init /\ [][Next]_vars

(* A thread that is scheduled keeps moving: the semaphore wait returns or    *)
(* times out, the critical section is straight-line code, the exit handler  *)
(* ends.  Nobody has to call the lock, to exit, to be killed or to restart. *)
Fairness ==
  \A p \in Procs :
    /\ WF_vars(lock_step(p))
    /\ WF_vars(unlock_step(p))
    /\ WF_vars(exit_step(p))

FairSpec == Spec /\ Fairness

-----------------------------------------------------------------------------
(* Properties *)

(* Two threads are never both between lock_shrreg's return and the end of    *)
(* unlock_shrreg: the slot table and the utilization samples are written     *)
(* by one process at a time.                                                *)
MutualExclusion ==
  \A p, q \in Procs : pc[p] = "cs" /\ pc[q] = "cs" => p = q

(* The lock excludes, and the semaphore stays binary, until a CAS on         *)
(* owner_pid (exit_handler's or the recovery's) releases the lock under a    *)
(* thread that is still in the critical section: kills at any instruction,   *)
(* concurrent recoveries and reused pids alone do not break it.             *)
ExclusionUnlessStolen ==
  ~stolen =>
    /\ \A p, q \in Procs : Holds(p) /\ Holds(q) => p = q
    /\ sem <= 1
    /\ sem = 1 => \A p \in Procs : ~Holds(p)

(* owner_pid is a truthful hint: while it names a process that is up and     *)
(* the lock was never stolen, either that process is in its critical section *)
(* or it has not yet been through lock_shrreg (it inherited the pid of a     *)
(* killed owner), so exit_handler never releases a lock that another has.    *)
OwnerIsHolder ==
  ~stolen => \A p \in Procs :
    owner = p /\ up[p] => pc[p] = "cs" \/ (~inited[p] /\ ~Holds(p))

(* The threads between the call of lock_shrreg and its return. *)
Waiting(p) == pc[p] \in {"wait", "check", "kick"}

(* A lock whose owner was killed in the critical section does not stay       *)
(* locked while somebody waits for it: a waiter times out, sees the dead     *)
(* owner and releases the lock, whatever other waiters do at the same time.  *)
DeadOwnerRecovered ==
  \A p \in Procs :
    (owner = p /\ ~up[p])
      ~> (owner # p \/ up[p] \/ \A q \in Procs : ~Waiting(q))

(* A process that asks for the lock gets it or ends, even when the holder    *)
(* was killed at the worst moment and the lock is lost, unless the watcher   *)
(* of another process keeps taking it (a POSIX semaphore is not fair).       *)
WaiterEnds ==
  \A p \in Procs :
    (pc[p] = "wait")
      ~> (pc[p] = "cs" \/ ~up[p] \/ \E q \in WatcherProcs \ {p} : up[q])

-----------------------------------------------------------------------------
(* What the lock promises: module RobustMutex *)

inside == {p \in Procs : Holds(p)}

state ==
  CASE sem > 0 -> "free"
    [] sem = 0 /\ inside # {} -> "held"
    [] sem = 0 /\ inside = {} /\ owner # NoPid -> "orphan"
    [] OTHER -> "lost"

Mutex == INSTANCE RobustMutex WITH Procs <- Procs, inside <- inside, state <- state

(* The semaphore, owner_pid and the recovery implement a mutex that survives *)
(* the death of its holder, or is lost for good if the holder dies in one of *)
(* the windows marked TODO in lock_shrreg and unlock_shrreg; it never lets a *)
(* second thread in.                                                        *)
ImplementsMutex == Mutex!Spec
=============================================================================
