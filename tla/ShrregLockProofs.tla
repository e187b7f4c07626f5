-------------------------- MODULE ShrregLockProofs --------------------------
(***************************************************************************)
(* Proofs about ShrregLock for any set of processes, any bound on the      *)
(* trials and any number of reused pids.                                   *)
(***************************************************************************)
EXTENDS ShrregLock, TLAPS

-----------------------------------------------------------------------------
(* The inductive invariant *)

(* A process that is gone has no thread left; a thread that has to decide    *)
(* about a dead owner has loaded a pid.                                      *)
Threads ==
  \A p \in Procs :
    /\ ~up[p] => pc[p] = "out" /\ xpc[p] = "no" /\ ~inited[p]
    /\ pc[p] = "kick" => seen[p] # NoPid

(* The unit of the semaphore is in one place. *)
OneUnit ==
  /\ \A p, q \in Procs : Holds(p) /\ Holds(q) => p = q
  /\ sem <= 1
  /\ sem = 1 => owner = NoPid /\ \A p \in Procs : ~Holds(p)

(* owner_pid follows the unit. *)
OwnerFollows ==
  \A p \in Procs :
    /\ pc[p] = "cs" => owner = p
    /\ pc[p] \in HoldingPC \ {"cs"} => owner = NoPid

(* A live process that owner_pid names without its being in the critical     *)
(* section has inherited a pid and waits for the lock for the first time; in *)
(* particular it is not in exit_handler and will not give up.               *)
Inherited ==
  \A p \in Procs :
    owner = p /\ up[p] /\ pc[p] # "cs" =>
      /\ ~inited[p]
      /\ xpc[p] = "no"
      /\ pc[p] \in {"out", "wait", "check", "kick"}
      /\ pc[p] = "check" => seen[p] # NoPid

NoExitPost == \A p \in Procs : xpc[p] # "post"

Clean == OneUnit /\ OwnerFollows /\ Inherited /\ NoExitPost

IInv ==
  /\ TypeOK
  /\ Threads
  /\ ~stolen => Clean

-----------------------------------------------------------------------------
(* The initial state of the lock is in its type. *)
LEMMA TypeInit == Init => TypeOK
<1> SUFFICES ASSUME Init PROVE TypeOK
  OBVIOUS
<1>1. sem \in Nat /\ trials \in [Procs -> 0..(MaxTrials + 1)] /\ restarts \in 0..MaxRestarts
  BY LockAssumption DEF LockAssumption, Init
<1>2. pc \in [Procs -> PC] /\ xpc \in [Procs -> XPC] /\ owner \in Procs \cup {NoPid}
      /\ seen \in [Procs -> Procs \cup {NoPid}]
  BY DEF Init, PC, XPC
<1>3. up \in [Procs -> BOOLEAN] /\ inited \in [Procs -> BOOLEAN] /\ stolen \in BOOLEAN
  BY Zenon DEF Init
<1> QED
  BY <1>1, <1>2, <1>3 DEF TypeOK

(* Every step of a thread, of the exit handler and of the system keeps it.   *)
LEMMA TypeStep == TypeOK /\ [Next]_vars => TypeOK'
<1> SUFFICES ASSUME TypeOK, [Next]_vars PROVE TypeOK'
  OBVIOUS
<1> USE LockAssumption DEF LockAssumption, TypeOK
<1>1. ASSUME NEW p \in Procs, lock_shrreg(p) PROVE TypeOK'
  BY <1>1 DEF lock_shrreg, Goto, PC
<1>2. ASSUME NEW p \in Procs, sem_timedwait_ok(p) PROVE TypeOK'
  BY <1>2 DEF sem_timedwait_ok, Goto, PC
<1>3. ASSUME NEW p \in Procs, store_owner(p) PROVE TypeOK'
  BY <1>3 DEF store_owner, Goto, PC
<1>4. ASSUME NEW p \in Procs, sem_timedwait_timeout(p) PROVE TypeOK'
  BY <1>4 DEF sem_timedwait_timeout, Goto, PC
<1>5. ASSUME NEW p \in Procs, owner_dead(p) PROVE TypeOK'
  BY <1>5 DEF owner_dead, Goto, PC
<1>6. ASSUME NEW p \in Procs, owner_alive(p) PROVE TypeOK'
  BY <1>6 DEF owner_alive, Goto, PC
<1>7. ASSUME NEW p \in Procs, owner_zero(p) PROVE TypeOK'
  BY <1>7 DEF owner_zero, Goto, PC
<1>8. ASSUME NEW p \in Procs, give_up(p) PROVE TypeOK'
  BY <1>8 DEF give_up, Goto, PC, XPC
<1>9. ASSUME NEW p \in Procs, kick_owner(p) PROVE TypeOK'
  BY <1>9 DEF kick_owner, Goto, PC, Holds
<1>10. ASSUME NEW p \in Procs, kick_lost_race(p) PROVE TypeOK'
  BY <1>10 DEF kick_lost_race, Goto, PC
<1>11. ASSUME NEW p \in Procs, kick_post(p) PROVE TypeOK'
  BY <1>11 DEF kick_post, Goto, PC
<1>12. ASSUME NEW p \in Procs, unlock_shrreg(p) PROVE TypeOK'
  BY <1>12 DEF unlock_shrreg, Goto, PC
<1>13. ASSUME NEW p \in Procs, unlock_post(p) PROVE TypeOK'
  BY <1>13 DEF unlock_post, Goto, PC
<1>14. ASSUME NEW p \in Procs, call_exit(p) PROVE TypeOK'
  BY <1>14 DEF call_exit, XPC
<1>15. ASSUME NEW p \in Procs, exit_handler_release(p) PROVE TypeOK'
  BY <1>15 DEF exit_handler_release, XPC, Holds
<1>16. ASSUME NEW p \in Procs, exit_handler_not_owner(p) PROVE TypeOK'
  BY <1>16 DEF exit_handler_not_owner, XPC
<1>17. ASSUME NEW p \in Procs, exit_handler_post(p) PROVE TypeOK'
  BY <1>17 DEF exit_handler_post, XPC
<1>18. ASSUME NEW p \in Procs, Vanish(p) PROVE TypeOK'
  BY <1>18 DEF Vanish, PC, XPC
<1>19. ASSUME NEW p \in Procs, restart(p) PROVE TypeOK'
  BY <1>19 DEF restart
<1>20. CASE UNCHANGED vars
  BY <1>20 DEF vars
<1> QED
  BY <1>1, <1>2, <1>3, <1>4, <1>5, <1>6, <1>7, <1>8, <1>9, <1>10, <1>11,
     <1>12, <1>13, <1>14, <1>15, <1>16, <1>17, <1>18, <1>19, <1>20
  DEF Next, lock_step, unlock_step, exit_step, exited, kill

(* Every reachable value of the shared region's lock words and of the        *)
(* threads' program counters is in its type.                                *)
THEOREM TypeCorrect == Spec => []TypeOK
  BY TypeInit, TypeStep, PTL DEF Spec

-----------------------------------------------------------------------------
(* The lock starts with one unit in the semaphore and nobody in it. *)
LEMMA IInvInit == Init => IInv
<1> SUFFICES ASSUME Init PROVE IInv
  OBVIOUS
<1>1. TypeOK
  BY TypeInit
<1>2. Threads
  BY DEF Init, Threads
<1>3. Clean
  BY LockAssumption DEF LockAssumption, Init, Clean, OneUnit, OwnerFollows,
     Inherited, NoExitPost, Holds, HoldingPC
<1> QED
  BY <1>1, <1>2, <1>3 DEF IInv

(* Every action keeps the unit of the semaphore in one place, and owner_pid  *)
(* next to it, or steals the lock.                                          *)
LEMMA IInvStep == IInv /\ [Next]_vars => IInv'
<1> SUFFICES ASSUME IInv, [Next]_vars PROVE IInv'
  OBVIOUS
<1>0. TypeOK'
  BY TypeStep DEF IInv
<1> DEFINE Safe == Threads' /\ (~stolen' => Clean')
<1> USE LockAssumption DEF LockAssumption, IInv, TypeOK, Threads, Clean, OneUnit,
        OwnerFollows, Inherited, NoExitPost, Holds, HoldingPC, PC
<1>1. ASSUME NEW p \in Procs, lock_shrreg(p) PROVE Safe
  BY <1>1 DEF lock_shrreg, Goto
<1>2. ASSUME NEW p \in Procs, sem_timedwait_ok(p) PROVE Safe
  BY <1>2 DEF sem_timedwait_ok, Goto
<1>3. ASSUME NEW p \in Procs, store_owner(p) PROVE Safe
  BY <1>3 DEF store_owner, Goto
<1>4. ASSUME NEW p \in Procs, sem_timedwait_timeout(p) PROVE Safe
  BY <1>4 DEF sem_timedwait_timeout, Goto
<1>5. ASSUME NEW p \in Procs, owner_dead(p) PROVE Safe
  BY <1>5 DEF owner_dead, Goto
<1>6. ASSUME NEW p \in Procs, owner_alive(p) PROVE Safe
  BY <1>6 DEF owner_alive, Goto
<1>7. ASSUME NEW p \in Procs, owner_zero(p) PROVE Safe
  BY <1>7 DEF owner_zero, Goto
<1>8. ASSUME NEW p \in Procs, give_up(p) PROVE Safe
  BY <1>8 DEF give_up, Goto
<1>9. ASSUME NEW p \in Procs, kick_owner(p) PROVE Safe
  BY <1>9 DEF kick_owner, Goto
<1>10. ASSUME NEW p \in Procs, kick_lost_race(p) PROVE Safe
  BY <1>10 DEF kick_lost_race, Goto
<1>11. ASSUME NEW p \in Procs, kick_post(p) PROVE Safe
  BY <1>11 DEF kick_post, Goto
<1>12. ASSUME NEW p \in Procs, unlock_shrreg(p) PROVE Safe
  BY <1>12 DEF unlock_shrreg, Goto
<1>13. ASSUME NEW p \in Procs, unlock_post(p) PROVE Safe
  BY <1>13 DEF unlock_post, Goto
<1>14. ASSUME NEW p \in Procs, call_exit(p) PROVE Safe
  BY <1>14 DEF call_exit
<1>15. ASSUME NEW p \in Procs, exit_handler_release(p) PROVE Safe
  BY <1>15 DEF exit_handler_release
<1>16. ASSUME NEW p \in Procs, exit_handler_not_owner(p) PROVE Safe
  BY <1>16 DEF exit_handler_not_owner
<1>17. ASSUME NEW p \in Procs, exit_handler_post(p) PROVE Safe
  BY <1>17 DEF exit_handler_post
<1>18. ASSUME NEW p \in Procs, Vanish(p) PROVE Safe
  BY <1>18 DEF Vanish
<1>19. ASSUME NEW p \in Procs, restart(p) PROVE Safe
  BY <1>19 DEF restart
<1>20. CASE UNCHANGED vars
  BY <1>20 DEF vars
<1>21. Safe
  BY <1>1, <1>2, <1>3, <1>4, <1>5, <1>6, <1>7, <1>8, <1>9, <1>10, <1>11, <1>12, <1>13, <1>14, <1>15, <1>16, <1>17, <1>18, <1>19, <1>20
  DEF Next, lock_step, unlock_step, exit_step, exited, kill
<1> QED
  BY <1>0, <1>21 DEF IInv

(* Kills at any instruction, racing recoveries and reused pids do not break  *)
(* the exclusion of lock_shrreg or the binary semaphore: only a CAS that     *)
(* releases the lock under a running thread can.                            *)
THEOREM Exclusion == Spec => []ExclusionUnlessStolen
<1>1. IInv => ExclusionUnlessStolen
  BY DEF IInv, Clean, OneUnit, ExclusionUnlessStolen
<1> QED
  BY <1>1, IInvInit, IInvStep, PTL DEF Spec

(* owner_pid names the holder or a process that never had the lock, so the   *)
(* test of exit_handler ("if we're holding owner_pid") is right until the    *)
(* lock is stolen.                                                          *)
THEOREM OwnerTruthful == Spec => []OwnerIsHolder
<1>1. IInv => OwnerIsHolder
  BY DEF IInv, TypeOK, Clean, Inherited, OwnerIsHolder, Holds, HoldingPC
<1> QED
  BY <1>1, IInvInit, IInvStep, PTL DEF Spec

-----------------------------------------------------------------------------
(* When no process with a watcher thread calls exit() and pids are not       *)
(* reused, the lock is never stolen.                                        *)

Separate == WatcherProcs \cap ExitProcs = {} /\ MaxRestarts = 0

NeverStolen ==
  /\ ~stolen
  /\ \A p \in Procs :
       /\ pc[p] = "kick" => ~up[seen[p]]
       /\ inited[p] /\ p \notin WatcherProcs => pc[p] = "out"
       /\ xpc[p] # "no" =>
            \/ pc[p] = "giveup"
            \/ pc[p] = "out" /\ inited[p] /\ p \notin WatcherProcs

(* A dead owner stays dead, and a process in exit_handler is not in the      *)
(* critical section, so both CAS operations find nobody to steal from.      *)
LEMMA NeverStolenStep ==
  ASSUME Separate, IInv, NeverStolen, [Next]_vars
  PROVE  NeverStolen'
<1> USE LockAssumption DEF LockAssumption, Separate, IInv, TypeOK, Threads,
        NeverStolen, Holds, HoldingPC, PC
<1>1. ASSUME NEW p \in Procs, lock_shrreg(p) PROVE NeverStolen'
  BY <1>1 DEF lock_shrreg, Goto
<1>2. ASSUME NEW p \in Procs, sem_timedwait_ok(p) PROVE NeverStolen'
  BY <1>2 DEF sem_timedwait_ok, Goto
<1>3. ASSUME NEW p \in Procs, store_owner(p) PROVE NeverStolen'
  BY <1>3 DEF store_owner, Goto
<1>4. ASSUME NEW p \in Procs, sem_timedwait_timeout(p) PROVE NeverStolen'
  BY <1>4 DEF sem_timedwait_timeout, Goto
<1>5. ASSUME NEW p \in Procs, owner_dead(p) PROVE NeverStolen'
  BY <1>5 DEF owner_dead, Goto
<1>6. ASSUME NEW p \in Procs, owner_alive(p) PROVE NeverStolen'
  BY <1>6 DEF owner_alive, Goto
<1>7. ASSUME NEW p \in Procs, owner_zero(p) PROVE NeverStolen'
  BY <1>7 DEF owner_zero, Goto
<1>8. ASSUME NEW p \in Procs, give_up(p) PROVE NeverStolen'
  BY <1>8 DEF give_up, Goto
<1>9. ASSUME NEW p \in Procs, kick_owner(p) PROVE NeverStolen'
  BY <1>9 DEF kick_owner, Goto
<1>10. ASSUME NEW p \in Procs, kick_lost_race(p) PROVE NeverStolen'
  BY <1>10 DEF kick_lost_race, Goto
<1>11. ASSUME NEW p \in Procs, kick_post(p) PROVE NeverStolen'
  BY <1>11 DEF kick_post, Goto
<1>12. ASSUME NEW p \in Procs, unlock_shrreg(p) PROVE NeverStolen'
  BY <1>12 DEF unlock_shrreg, Goto
<1>13. ASSUME NEW p \in Procs, unlock_post(p) PROVE NeverStolen'
  BY <1>13 DEF unlock_post, Goto
<1>14. ASSUME NEW p \in Procs, call_exit(p) PROVE NeverStolen'
  BY <1>14 DEF call_exit
<1>15. ASSUME NEW p \in Procs, exit_handler_release(p) PROVE NeverStolen'
  BY <1>15 DEF exit_handler_release
<1>16. ASSUME NEW p \in Procs, exit_handler_not_owner(p) PROVE NeverStolen'
  BY <1>16 DEF exit_handler_not_owner
<1>17. ASSUME NEW p \in Procs, exit_handler_post(p) PROVE NeverStolen'
  BY <1>17 DEF exit_handler_post
<1>18. ASSUME NEW p \in Procs, Vanish(p) PROVE NeverStolen'
  BY <1>18 DEF Vanish
<1>19. ASSUME NEW p \in Procs, restart(p) PROVE NeverStolen'
  BY <1>19 DEF restart
<1>20. CASE UNCHANGED vars
  BY <1>20 DEF vars
<1> QED
  BY <1>1, <1>2, <1>3, <1>4, <1>5, <1>6, <1>7, <1>8, <1>9, <1>10, <1>11, <1>12, <1>13, <1>14, <1>15, <1>16, <1>17, <1>18, <1>19, <1>20
  DEF Next, lock_step, unlock_step, exit_step, exited, kill

(* Initially nobody is in the lock code. *)
LEMMA NeverStolenInit == Init => NeverStolen
  BY DEF Init, NeverStolen

(* lock_shrreg and unlock_shrreg exclude each other's critical sections in   *)
(* spite of kills, as long as watchers are not exited under and pids are     *)
(* not reused.                                                              *)
THEOREM MutualExclusionHolds ==
  ASSUME Separate
  PROVE  Spec => []MutualExclusion
<1>1. IInv /\ NeverStolen => MutualExclusion
  BY DEF IInv, Threads, Clean, OneUnit, NeverStolen, MutualExclusion, Holds, HoldingPC
<1>2. IInv /\ NeverStolen /\ [Next]_vars => IInv' /\ NeverStolen'
  BY IInvStep, NeverStolenStep
<1> QED
  BY <1>1, <1>2, IInvInit, NeverStolenInit, PTL DEF Spec

-----------------------------------------------------------------------------
(* The lock implements RobustMutex *)

(* A process is inside exactly when its thread holds the unit. *)
LEMMA MutexInit == Init => Mutex!Init
  BY DEF Init, Mutex!Init, inside, state, Holds, HoldingPC

(* Every step of the code takes the lock, drops it, dies in it or does       *)
(* nothing that another process can notice.                                 *)
LEMMA MutexStep ==
  ASSUME Separate, IInv, NeverStolen, [Next]_vars
  PROVE  [Mutex!Next]_(Mutex!vars)
<1> DEFINE Quiet == inside' = inside /\ state' = state
<1> USE LockAssumption DEF LockAssumption, Separate, IInv, TypeOK, Threads, Clean,
        OneUnit, OwnerFollows, NoExitPost, NeverStolen, Holds, HoldingPC, PC, inside, state
<1>1. ASSUME NEW p \in Procs, lock_shrreg(p) PROVE Quiet
  BY <1>1 DEF lock_shrreg, Goto
<1>2. ASSUME NEW p \in Procs, sem_timedwait_ok(p) PROVE Mutex!Take(p)
  BY <1>2 DEF sem_timedwait_ok, Goto, Mutex!Take
<1>3. ASSUME NEW p \in Procs, store_owner(p) PROVE Quiet
  BY <1>3 DEF store_owner, Goto
<1>4. ASSUME NEW p \in Procs, sem_timedwait_timeout(p) PROVE Quiet
  BY <1>4 DEF sem_timedwait_timeout, Goto
<1>5. ASSUME NEW p \in Procs, owner_dead(p) PROVE Quiet
  BY <1>5 DEF owner_dead, Goto
<1>6. ASSUME NEW p \in Procs, owner_alive(p) PROVE Quiet
  BY <1>6 DEF owner_alive, Goto
<1>7. ASSUME NEW p \in Procs, owner_zero(p) PROVE Quiet
  BY <1>7 DEF owner_zero, Goto
<1>8. ASSUME NEW p \in Procs, give_up(p) PROVE Quiet
  BY <1>8 DEF give_up, Goto
<1>9. ASSUME NEW p \in Procs, kick_owner(p) PROVE Mutex!Take(p)
  BY <1>9 DEF kick_owner, Goto, Mutex!Take
<1>10. ASSUME NEW p \in Procs, kick_lost_race(p) PROVE Quiet
  BY <1>10 DEF kick_lost_race, Goto
<1>11. ASSUME NEW p \in Procs, kick_post(p) PROVE Mutex!Drop(p)
  BY <1>11 DEF kick_post, Goto, Mutex!Drop
<1>12. ASSUME NEW p \in Procs, unlock_shrreg(p) PROVE Quiet
  BY <1>12 DEF unlock_shrreg, Goto
<1>13. ASSUME NEW p \in Procs, unlock_post(p) PROVE Mutex!Drop(p)
  BY <1>13 DEF unlock_post, Goto, Mutex!Drop
<1>14. ASSUME NEW p \in Procs, call_exit(p) PROVE Quiet
  BY <1>14 DEF call_exit
<1>15. ASSUME NEW p \in Procs, exit_handler_release(p) PROVE Quiet
  BY <1>15 DEF exit_handler_release
<1>16. ASSUME NEW p \in Procs, exit_handler_not_owner(p) PROVE Quiet
  BY <1>16 DEF exit_handler_not_owner
<1>17. ASSUME NEW p \in Procs, exit_handler_post(p) PROVE Quiet
  BY <1>17 DEF exit_handler_post
<1>18. ASSUME NEW p \in Procs, Vanish(p) PROVE Mutex!Die(p) \/ Quiet
  BY <1>18 DEF Vanish, Mutex!Die
<1>19. ASSUME NEW p \in Procs, restart(p) PROVE Quiet
  BY <1>19 DEF restart
<1>20. ASSUME UNCHANGED vars PROVE Quiet
  BY <1>20 DEF vars
<1>21. Quiet \/ \E p \in Procs : Mutex!Take(p) \/ Mutex!Drop(p) \/ Mutex!Die(p)

  BY <1>1, <1>2, <1>3, <1>4, <1>5, <1>6, <1>7, <1>8, <1>9, <1>10, <1>11, <1>12, <1>13, <1>14, <1>15, <1>16, <1>17, <1>18, <1>19, <1>20
  DEF Next, lock_step, unlock_step, exit_step, exited, kill
<1> HIDE DEF inside, state
<1> QED
  BY <1>21 DEF Mutex!Next, Mutex!vars

(* The semaphore, owner_pid and the recovery of lock_shrreg implement the    *)
(* mutex that survives its holder or is lost for good.                      *)
THEOREM Refinement ==
  ASSUME Separate
  PROVE  Spec => ImplementsMutex
<1>1. IInv /\ NeverStolen /\ [Next]_vars
        => IInv' /\ NeverStolen' /\ [Mutex!Next]_(Mutex!vars)
  BY IInvStep, NeverStolenStep, MutexStep
<1> QED
  BY <1>1, IInvInit, NeverStolenInit, MutexInit, PTL DEF Spec, ImplementsMutex, Mutex!Spec
=============================================================================
