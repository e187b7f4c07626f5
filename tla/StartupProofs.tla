---------------------------- MODULE StartupProofs ----------------------------
(***************************************************************************)
(* Proofs about Startup, for any set of processes, any environments and    *)
(* any number of kills, trials and reused pids.                            *)
(***************************************************************************)
EXTENDS Startup, FiniteSetTheorems, TLAPS

(***************************************************************************)
(* The inductive invariant.                                                *)
(***************************************************************************)
PCs == Unregistered \cup {"idle", "postinit", "run", "dead", "ready"} \cup Detecting \cup Signalled

Types ==
    /\ sem_postinit \in {0, 1}
    /\ pc \in [Procs -> PCs]
    /\ slot \in [Procs -> {"none", "live", "marked"}]
    /\ status \in [Procs -> 0..2]
    /\ pend \in [Procs -> 0..2]
    /\ pidfound \in [Procs -> {0, 1}]
    /\ DOMAIN hostpid = Procs /\ DOMAIN before = Procs /\ DOMAIN inc = Procs
    /\ \A p \in Procs : (pc[p] \in {"idle", "postinit", "run"} \cup Detecting => p \in Apps)
                        /\ (pc[p] \in {"ready"} \cup Signalled => p = Tool)

(* Past lockf: the lock of the file is held by whoever creates the region.  *)
Creating == {"locked", "sems", "mark"}

Mapped(p) == pc[p] = "register" \/ Registered(p)

(* The region is being initialised under the lock of the file, and is       *)
(* marked as initialised after all of it was written.                       *)
Creation ==
    /\ \A p \in Procs : pc[p] \in Creating \cup {"unlock"} => flk = p
    /\ \A p \in Procs : pc[p] \in Creating => ~flag
    /\ \A p \in Procs : pc[p] \in {"sems", "mark"} => "limits" \in written
    /\ \A p \in Procs : pc[p] = "mark" => "sems" \in written
    /\ written \subseteq {"limits", "sems"}
    /\ flag => written = {"limits", "sems"}
    /\ \A p \in Procs : pc[p] = "unlock" \/ Mapped(p) => flag

(* The unit of sem_postinit is in the semaphore or with one process.        *)
Detection ==
    /\ \A p, q \in Procs : pc[p] \in Detecting /\ pc[q] \in Detecting => p = q
    /\ sem_postinit = 1 => \A p \in Procs : pc[p] \notin Detecting

(* A registered process has its slot, and only a registered one knows that  *)
(* its host pid was found.                                                  *)
Slots ==
    \A p \in Procs : /\ Registered(p) => slot[p] = "live"
                     /\ ~Registered(p) => pidfound[p] = 0

(* Until its own detection a process has no host pid but an inherited one,  *)
(* and while it detects the device's list grows by itself alone, unless it  *)
(* is disturbed.                                                            *)
HostPids ==
    \A p \in Apps :
        /\ (pc[p] \in {"idle", "postinit", "first", "second"} /\ hostpid[p] # <<>>) => p \in inherited
        /\ (pc[p] = "second" /\ p \notin disturbed) => dev \subseteq before[p]

(* Between suspend_all and resume_all no process that had registered before *)
(* has a SIGUSR1 to expect.                                                 *)
Signals ==
    pc[Tool] \in {"stopping", "stopped"} =>
        \A p \in Apps \ late : Registered(p) => pend[p] # 1

(***************************************************************************)
(* Types.                                                                  *)
(***************************************************************************)
LEMMA TypesInit == Init => Types
  BY StartupAssumption DEF StartupAssumption, Procs, Init, Types, PCs, Unregistered, Detecting,
     Signalled, Waiting

(* Every step keeps the types. *)
LEMMA TypesStep == Types /\ Detection /\ [Next]_vars => Types'
<1> SUFFICES ASSUME Types, Detection, [Next]_vars PROVE Types'
  OBVIOUS
<1> USE StartupAssumption DEF StartupAssumption, Procs, Types, PCs, Unregistered, Detecting,
        Signalled, Waiting, regionVars, slotVars, localVars, faultVars, Goto
<1>1. ASSUME NEW p \in Procs, open(p) PROVE Types'
  BY <1>1 DEF open
<1>2. ASSUME NEW p \in Procs, lockf(p) PROVE Types'
  BY <1>2 DEF lockf
<1>3. ASSUME NEW p \in Procs, init_limits(p) PROVE Types'
  BY <1>3 DEF init_limits
<1>4. ASSUME NEW p \in Procs, init_sems(p) PROVE Types'
  BY <1>4 DEF init_sems
<1>5. ASSUME NEW p \in Procs, set_initialized_flag(p) PROVE Types'
  BY <1>5 DEF set_initialized_flag
<1>6. ASSUME NEW p \in Procs, unlockf(p) PROVE Types'
  BY <1>6 DEF unlockf
<1>7. ASSUME NEW p \in Procs, init_proc_slot_withlock(p) PROVE Types'
  BY <1>7 DEF init_proc_slot_withlock, Gone
<1>8. ASSUME NEW p \in Procs, handle_signal(p) PROVE Types'
  BY <1>8 DEF handle_signal, Ends
<1>9. ASSUME NEW p \in Procs, kill(p) PROVE Types'
  BY <1>9 DEF kill, Ends
<1>10. ASSUME NEW p \in Procs, exit_handler(p) PROVE Types'
  BY <1>10 DEF exit_handler, Ends
<1>11. ASSUME NEW p \in Apps, ensure_post_init(p) PROVE Types'
  BY <1>11 DEF ensure_post_init
<1>12. ASSUME NEW p \in Apps, lock_postinit(p) PROVE Types'
  BY <1>12 DEF lock_postinit
<1>13. ASSUME NEW p \in Apps, lock_postinit_timeout(p) PROVE Types'
  BY <1>13 DEF lock_postinit_timeout, TimesOut
<1>14. ASSUME NEW p \in Apps, init_utilization_watcher_null(p) PROVE Types'
  BY <1>14 DEF init_utilization_watcher_null, Ends
<1>15. ASSUME NEW p \in Apps, set_task_pid_first(p) PROVE Types'
  BY <1>15 DEF set_task_pid_first
<1>16. ASSUME NEW p \in Apps, set_task_pid_second(p) PROVE Types'
  BY <1>16 DEF set_task_pid_second
<1>17. ASSUME NEW p \in Apps, set_task_pid_no_context(p) PROVE Types'
  BY <1>17 DEF set_task_pid_no_context
<1>18. ASSUME NEW p \in Apps, unlock_postinit(p) PROVE Types'
  BY <1>18 DEF unlock_postinit, Detection
<1>19. ASSUME NEW p \in Apps, update_host_pid(p) PROVE Types'
  BY <1>19 DEF update_host_pid
<1>20. ASSUME NEW p \in Apps, use_device(p) PROVE Types'
  BY <1>20 DEF use_device, Appears, Disappears
<1>21. ASSUME NEW p \in Apps, restart(p) PROVE Types'
  BY <1>21 DEF restart
<1>22. ASSUME others_use_device PROVE Types'
  BY <1>22 DEF others_use_device, Appears, Disappears
<1>23. ASSUME create_new PROVE Types'
  BY <1>23 DEF create_new
<1>24. ASSUME suspend_all PROVE Types'
  BY <1>24 DEF suspend_all, SignalAll
<1>25. ASSUME send_stop_signal PROVE Types'
  BY <1>25 DEF send_stop_signal, Released
<1>26. ASSUME resume_all PROVE Types'
  BY <1>26 DEF resume_all, SignalAll
<1>27. ASSUME send_resume_signal PROVE Types'
  BY <1>27 DEF send_resume_signal, Released
<1>28. CASE UNCHANGED vars
  BY <1>28 DEF vars
<1>29. ASSUME NEW p \in Apps, clear_proc_slot_nolock(p) PROVE Types'
  BY <1>29 DEF clear_proc_slot_nolock, Gone, Moves
<1> QED
  BY <1>1, <1>2, <1>3, <1>4, <1>5, <1>6, <1>7, <1>8, <1>9, <1>10, <1>11, <1>12, <1>13, <1>14,
     <1>15, <1>16, <1>17, <1>18, <1>19, <1>20, <1>21, <1>22, <1>23, <1>24, <1>25, <1>26, <1>27,
     <1>28, <1>29
  DEF Next, Create, PostInit

(***************************************************************************)
(* The creation of the region.                                             *)
(***************************************************************************)
LEMMA CreationInit == Init => Creation
  BY DEF Init, Creation, Creating, Mapped, Registered, Unregistered

(* The region is initialised once, under the lock, before anyone reads it. *)
LEMMA CreationStep == Types /\ Creation /\ [Next]_vars => Creation'
<1> SUFFICES ASSUME Types, Creation, [Next]_vars PROVE Creation'
  OBVIOUS
<1> USE StartupAssumption DEF StartupAssumption, Procs, Types, PCs, Unregistered, Detecting,
        Signalled, Waiting, regionVars, slotVars, localVars, faultVars, Goto, Creation, Creating,
        Mapped, Registered
<1>1. ASSUME NEW p \in Procs, open(p) PROVE Creation'
  BY <1>1 DEF open
<1>2. ASSUME NEW p \in Procs, lockf(p) PROVE Creation'
  BY <1>2 DEF lockf
<1>3. ASSUME NEW p \in Procs, init_limits(p) PROVE Creation'
  BY <1>3 DEF init_limits
<1>4. ASSUME NEW p \in Procs, init_sems(p) PROVE Creation'
  BY <1>4 DEF init_sems
<1>5. ASSUME NEW p \in Procs, set_initialized_flag(p) PROVE Creation'
  <2>0. "limits" \in written /\ "sems" \in written /\ written \subseteq {"limits", "sems"}
    BY <1>5 DEF set_initialized_flag
  <2>1. written' = {"limits", "sems"}
    <3> HIDE DEF Types, Creation
    <3> QED BY <1>5, <2>0, Zenon DEF set_initialized_flag
  <2>2. \A q \in Procs \ {p} : pc'[q] = pc[q] /\ pc[q] \notin Creating \cup {"unlock"}
    BY <1>5 DEF set_initialized_flag
  <2> QED
    BY <1>5, <2>1, <2>2 DEF set_initialized_flag
<1>6. ASSUME NEW p \in Procs, unlockf(p) PROVE Creation'
  BY <1>6 DEF unlockf
<1>7. ASSUME NEW p \in Procs, init_proc_slot_withlock(p) PROVE Creation'
  BY <1>7 DEF init_proc_slot_withlock, Gone
<1>8. ASSUME NEW p \in Procs, handle_signal(p) PROVE Creation'
  <2>1. CASE Registered(p)
    BY <1>8, <2>1 DEF handle_signal
  <2>2. CASE ~Registered(p)
    <3>1. Ends(p)
      BY <1>8, <2>2 DEF handle_signal
    <3> QED
      BY <3>1 DEF Ends
  <2> QED
    BY <2>1, <2>2
<1>9. ASSUME NEW p \in Procs, kill(p) PROVE Creation'
  BY <1>9 DEF kill, Ends
<1>10. ASSUME NEW p \in Procs, exit_handler(p) PROVE Creation'
  BY <1>10 DEF exit_handler, Ends
<1>11. ASSUME NEW p \in Apps, ensure_post_init(p) PROVE Creation'
  BY <1>11 DEF ensure_post_init
<1>12. ASSUME NEW p \in Apps, lock_postinit(p) PROVE Creation'
  BY <1>12 DEF lock_postinit
<1>13. ASSUME NEW p \in Apps, lock_postinit_timeout(p) PROVE Creation'
  BY <1>13 DEF lock_postinit_timeout, TimesOut
<1>14. ASSUME NEW p \in Apps, init_utilization_watcher_null(p) PROVE Creation'
  BY <1>14 DEF init_utilization_watcher_null, Ends
<1>15. ASSUME NEW p \in Apps, set_task_pid_first(p) PROVE Creation'
  BY <1>15 DEF set_task_pid_first
<1>16. ASSUME NEW p \in Apps, set_task_pid_second(p) PROVE Creation'
  BY <1>16 DEF set_task_pid_second
<1>17. ASSUME NEW p \in Apps, set_task_pid_no_context(p) PROVE Creation'
  BY <1>17 DEF set_task_pid_no_context
<1>18. ASSUME NEW p \in Apps, unlock_postinit(p) PROVE Creation'
  BY <1>18 DEF unlock_postinit
<1>19. ASSUME NEW p \in Apps, update_host_pid(p) PROVE Creation'
  BY <1>19 DEF update_host_pid
<1>20. ASSUME NEW p \in Apps, use_device(p) PROVE Creation'
  BY <1>20 DEF use_device, Appears, Disappears
<1>21. ASSUME NEW p \in Apps, restart(p) PROVE Creation'
  BY <1>21 DEF restart
<1>22. ASSUME others_use_device PROVE Creation'
  <2>1. UNCHANGED <<pc, flk, flag, written>>
    BY <1>22 DEF others_use_device, Appears, Disappears
  <2> QED
    BY <2>1
<1>23. ASSUME create_new PROVE Creation'
  BY <1>23 DEF create_new
<1>24. ASSUME suspend_all PROVE Creation'
  BY <1>24 DEF suspend_all, SignalAll
<1>25. ASSUME send_stop_signal PROVE Creation'
  BY <1>25 DEF send_stop_signal, Released
<1>26. ASSUME resume_all PROVE Creation'
  BY <1>26 DEF resume_all, SignalAll
<1>27. ASSUME send_resume_signal PROVE Creation'
  BY <1>27 DEF send_resume_signal, Released
<1>28. CASE UNCHANGED vars
  BY <1>28 DEF vars
<1>29. ASSUME NEW p \in Apps, clear_proc_slot_nolock(p) PROVE Creation'
  BY <1>29 DEF clear_proc_slot_nolock, Gone, Moves
<1> QED
  BY <1>1, <1>2, <1>3, <1>4, <1>5, <1>6, <1>7, <1>8, <1>9, <1>10, <1>11, <1>12, <1>13, <1>14,
     <1>15, <1>16, <1>17, <1>18, <1>19, <1>20, <1>21, <1>22, <1>23, <1>24, <1>25, <1>26, <1>27,
     <1>28, <1>29
  DEF Next, Create, PostInit
(***************************************************************************)
(* sem_postinit.                                                           *)
(***************************************************************************)
LEMMA DetectionInit == Init => Detection
  BY DEF Init, Detection, Detecting

(* At most one process is between lock_postInit and its release. *)
LEMMA DetectionStep == Types /\ Creation /\ Detection /\ [Next]_vars => Detection'
<1> SUFFICES ASSUME Types, Creation, Detection, [Next]_vars PROVE Detection'
  OBVIOUS
<1> USE StartupAssumption DEF StartupAssumption, Procs, Types, PCs, Unregistered, Detecting,
        Signalled, Waiting, regionVars, slotVars, localVars, faultVars, Goto, Detection
<1>1. ASSUME NEW p \in Procs, open(p) PROVE Detection'
  BY <1>1 DEF open
<1>2. ASSUME NEW p \in Procs, lockf(p) PROVE Detection'
  BY <1>2 DEF lockf
<1>3. ASSUME NEW p \in Procs, init_limits(p) PROVE Detection'
  BY <1>3 DEF init_limits
<1>4. ASSUME NEW p \in Procs, init_sems(p) PROVE Detection'
  <2>1. \A q \in Procs : pc[q] \notin Detecting
    BY <1>4 DEF init_sems, Creation, Creating, Mapped, Registered
  <2> QED
    BY <1>4, <2>1 DEF init_sems
<1>5. ASSUME NEW p \in Procs, set_initialized_flag(p) PROVE Detection'
  BY <1>5 DEF set_initialized_flag
<1>6. ASSUME NEW p \in Procs, unlockf(p) PROVE Detection'
  BY <1>6 DEF unlockf
<1>7. ASSUME NEW p \in Procs, init_proc_slot_withlock(p) PROVE Detection'
  BY <1>7 DEF init_proc_slot_withlock, Gone
<1>8. ASSUME NEW p \in Procs, handle_signal(p) PROVE Detection'
  <2>1. CASE Registered(p)
    BY <1>8, <2>1 DEF handle_signal
  <2>2. CASE ~Registered(p)
    <3>1. Ends(p)
      BY <1>8, <2>2 DEF handle_signal
    <3> QED
      BY <1>8, <3>1 DEF handle_signal, Ends
  <2> QED
    BY <2>1, <2>2
<1>9. ASSUME NEW p \in Procs, kill(p) PROVE Detection'
  BY <1>9 DEF kill, Ends
<1>10. ASSUME NEW p \in Procs, exit_handler(p) PROVE Detection'
  BY <1>10 DEF exit_handler, Ends
<1>11. ASSUME NEW p \in Apps, ensure_post_init(p) PROVE Detection'
  BY <1>11 DEF ensure_post_init
<1>12. ASSUME NEW p \in Apps, lock_postinit(p) PROVE Detection'
  BY <1>12 DEF lock_postinit
<1>13. ASSUME NEW p \in Apps, lock_postinit_timeout(p) PROVE Detection'
  BY <1>13 DEF lock_postinit_timeout, TimesOut
<1>14. ASSUME NEW p \in Apps, init_utilization_watcher_null(p) PROVE Detection'
  BY <1>14 DEF init_utilization_watcher_null, Ends
<1>15. ASSUME NEW p \in Apps, set_task_pid_first(p) PROVE Detection'
  BY <1>15 DEF set_task_pid_first
<1>16. ASSUME NEW p \in Apps, set_task_pid_second(p) PROVE Detection'
  BY <1>16 DEF set_task_pid_second
<1>17. ASSUME NEW p \in Apps, set_task_pid_no_context(p) PROVE Detection'
  BY <1>17 DEF set_task_pid_no_context
<1>18. ASSUME NEW p \in Apps, unlock_postinit(p) PROVE Detection'
  BY <1>18 DEF unlock_postinit
<1>19. ASSUME NEW p \in Apps, update_host_pid(p) PROVE Detection'
  BY <1>19 DEF update_host_pid
<1>20. ASSUME NEW p \in Apps, use_device(p) PROVE Detection'
  BY <1>20 DEF use_device, Appears, Disappears
<1>21. ASSUME NEW p \in Apps, restart(p) PROVE Detection'
  BY <1>21 DEF restart
<1>22. ASSUME others_use_device PROVE Detection'
  BY <1>22 DEF others_use_device, Appears, Disappears
<1>23. ASSUME create_new PROVE Detection'
  BY <1>23 DEF create_new
<1>24. ASSUME suspend_all PROVE Detection'
  BY <1>24 DEF suspend_all, SignalAll
<1>25. ASSUME send_stop_signal PROVE Detection'
  BY <1>25 DEF send_stop_signal, Released
<1>26. ASSUME resume_all PROVE Detection'
  BY <1>26 DEF resume_all, SignalAll
<1>27. ASSUME send_resume_signal PROVE Detection'
  BY <1>27 DEF send_resume_signal, Released
<1>28. CASE UNCHANGED vars
  BY <1>28 DEF vars
<1>29. ASSUME NEW p \in Apps, clear_proc_slot_nolock(p) PROVE Detection'
  BY <1>29 DEF clear_proc_slot_nolock, Gone, Moves
<1> QED
  BY <1>1, <1>2, <1>3, <1>4, <1>5, <1>6, <1>7, <1>8, <1>9, <1>10, <1>11, <1>12, <1>13, <1>14,
     <1>15, <1>16, <1>17, <1>18, <1>19, <1>20, <1>21, <1>22, <1>23, <1>24, <1>25, <1>26, <1>27,
     <1>28, <1>29
  DEF Next, Create, PostInit

(***************************************************************************)
(* Slots.                                                                  *)
(***************************************************************************)
LEMMA SlotsInit == Init => Slots
  BY DEF Init, Slots, Registered, Unregistered

(* A process that has registered has the slot of its own pid. *)
LEMMA SlotsStep == Types /\ Creation /\ Slots /\ [Next]_vars => Slots'
<1> SUFFICES ASSUME Types, Creation, Slots, [Next]_vars PROVE Slots'
  OBVIOUS
<1> USE StartupAssumption DEF StartupAssumption, Procs, Types, PCs, Unregistered, Detecting,
        Signalled, Waiting, regionVars, slotVars, localVars, faultVars, Goto, Slots, Registered
<1>1. ASSUME NEW p \in Procs, open(p) PROVE Slots'
  BY <1>1 DEF open
<1>2. ASSUME NEW p \in Procs, lockf(p) PROVE Slots'
  BY <1>2 DEF lockf
<1>3. ASSUME NEW p \in Procs, init_limits(p) PROVE Slots'
  BY <1>3 DEF init_limits
<1>4. ASSUME NEW p \in Procs, init_sems(p) PROVE Slots'
  <2>1. \A q \in Procs : ~Registered(q)
    BY <1>4 DEF init_sems, Creation, Creating, Mapped
  <2> QED
    BY <1>4, <2>1 DEF init_sems
<1>5. ASSUME NEW p \in Procs, set_initialized_flag(p) PROVE Slots'
  BY <1>5 DEF set_initialized_flag
<1>6. ASSUME NEW p \in Procs, unlockf(p) PROVE Slots'
  BY <1>6 DEF unlockf
<1>7. ASSUME NEW p \in Procs, init_proc_slot_withlock(p) PROVE Slots'
  BY <1>7 DEF init_proc_slot_withlock, Gone
<1>8. ASSUME NEW p \in Procs, handle_signal(p) PROVE Slots'
  <2>1. CASE Registered(p)
    BY <1>8, <2>1 DEF handle_signal
  <2>2. CASE ~Registered(p)
    <3>1. Ends(p)
      BY <1>8, <2>2 DEF handle_signal
    <3> QED
      BY <1>8, <3>1 DEF handle_signal, Ends
  <2> QED
    BY <2>1, <2>2
<1>9. ASSUME NEW p \in Procs, kill(p) PROVE Slots'
  BY <1>9 DEF kill, Ends
<1>10. ASSUME NEW p \in Procs, exit_handler(p) PROVE Slots'
  BY <1>10 DEF exit_handler, Ends
<1>11. ASSUME NEW p \in Apps, ensure_post_init(p) PROVE Slots'
  BY <1>11 DEF ensure_post_init
<1>12. ASSUME NEW p \in Apps, lock_postinit(p) PROVE Slots'
  BY <1>12 DEF lock_postinit
<1>13. ASSUME NEW p \in Apps, lock_postinit_timeout(p) PROVE Slots'
  BY <1>13 DEF lock_postinit_timeout, TimesOut
<1>14. ASSUME NEW p \in Apps, init_utilization_watcher_null(p) PROVE Slots'
  BY <1>14 DEF init_utilization_watcher_null, Ends
<1>15. ASSUME NEW p \in Apps, set_task_pid_first(p) PROVE Slots'
  BY <1>15 DEF set_task_pid_first
<1>16. ASSUME NEW p \in Apps, set_task_pid_second(p) PROVE Slots'
  BY <1>16 DEF set_task_pid_second
<1>17. ASSUME NEW p \in Apps, set_task_pid_no_context(p) PROVE Slots'
  BY <1>17 DEF set_task_pid_no_context
<1>18. ASSUME NEW p \in Apps, unlock_postinit(p) PROVE Slots'
  BY <1>18 DEF unlock_postinit
<1>19. ASSUME NEW p \in Apps, update_host_pid(p) PROVE Slots'
  BY <1>19 DEF update_host_pid
<1>20. ASSUME NEW p \in Apps, use_device(p) PROVE Slots'
  BY <1>20 DEF use_device, Appears, Disappears
<1>21. ASSUME NEW p \in Apps, restart(p) PROVE Slots'
  BY <1>21 DEF restart
<1>22. ASSUME others_use_device PROVE Slots'
  BY <1>22 DEF others_use_device, Appears, Disappears
<1>23. ASSUME create_new PROVE Slots'
  BY <1>23 DEF create_new
<1>24. ASSUME suspend_all PROVE Slots'
  BY <1>24 DEF suspend_all, SignalAll
<1>25. ASSUME send_stop_signal PROVE Slots'
  BY <1>25 DEF send_stop_signal, Released
<1>26. ASSUME resume_all PROVE Slots'
  BY <1>26 DEF resume_all, SignalAll
<1>27. ASSUME send_resume_signal PROVE Slots'
  BY <1>27 DEF send_resume_signal, Released
<1>28. CASE UNCHANGED vars
  BY <1>28 DEF vars
<1>29. ASSUME NEW p \in Apps, clear_proc_slot_nolock(p) PROVE Slots'
  BY <1>29 DEF clear_proc_slot_nolock, Gone, Moves
<1> QED
  BY <1>1, <1>2, <1>3, <1>4, <1>5, <1>6, <1>7, <1>8, <1>9, <1>10, <1>11, <1>12, <1>13, <1>14,
     <1>15, <1>16, <1>17, <1>18, <1>19, <1>20, <1>21, <1>22, <1>23, <1>24, <1>25, <1>26, <1>27,
     <1>28, <1>29
  DEF Next, Create, PostInit

(***************************************************************************)
(* Host pids.                                                              *)
(***************************************************************************)
LEMMA FoundInit == Init => FoundHasHostPid
  BY DEF Init, FoundHasHostPid, Procs

(* A process that has reported success has a host pid in its slot. *)
LEMMA FoundStep == Types /\ Slots /\ Slots' /\ FoundHasHostPid /\ [Next]_vars => FoundHasHostPid'
<1> SUFFICES ASSUME Types, Slots, Slots', FoundHasHostPid, [Next]_vars PROVE FoundHasHostPid'
  OBVIOUS
<1> USE StartupAssumption DEF StartupAssumption, Procs, Types, PCs, Unregistered, Detecting,
        Signalled, Waiting, regionVars, slotVars, localVars, faultVars, Goto, Slots, Registered,
        FoundHasHostPid
<1>1. ASSUME NEW p \in Procs, open(p) PROVE FoundHasHostPid'
  BY <1>1 DEF open
<1>2. ASSUME NEW p \in Procs, lockf(p) PROVE FoundHasHostPid'
  BY <1>2 DEF lockf
<1>3. ASSUME NEW p \in Procs, init_limits(p) PROVE FoundHasHostPid'
  BY <1>3 DEF init_limits
<1>4. ASSUME NEW p \in Procs, init_sems(p) PROVE FoundHasHostPid'
  BY <1>4 DEF init_sems
<1>5. ASSUME NEW p \in Procs, set_initialized_flag(p) PROVE FoundHasHostPid'
  BY <1>5 DEF set_initialized_flag
<1>6. ASSUME NEW p \in Procs, unlockf(p) PROVE FoundHasHostPid'
  BY <1>6 DEF unlockf
<1>7. ASSUME NEW p \in Procs, init_proc_slot_withlock(p) PROVE FoundHasHostPid'
  BY <1>7 DEF init_proc_slot_withlock, Gone
<1>8. ASSUME NEW p \in Procs, handle_signal(p) PROVE FoundHasHostPid'
  <2>1. CASE Registered(p)
    BY <1>8, <2>1 DEF handle_signal
  <2>2. CASE ~Registered(p)
    <3>1. Ends(p)
      BY <1>8, <2>2 DEF handle_signal
    <3> QED
      BY <1>8, <3>1 DEF handle_signal, Ends
  <2> QED
    BY <2>1, <2>2
<1>9. ASSUME NEW p \in Procs, kill(p) PROVE FoundHasHostPid'
  BY <1>9 DEF kill, Ends
<1>10. ASSUME NEW p \in Procs, exit_handler(p) PROVE FoundHasHostPid'
  BY <1>10 DEF exit_handler, Ends
<1>11. ASSUME NEW p \in Apps, ensure_post_init(p) PROVE FoundHasHostPid'
  BY <1>11 DEF ensure_post_init
<1>12. ASSUME NEW p \in Apps, lock_postinit(p) PROVE FoundHasHostPid'
  BY <1>12 DEF lock_postinit
<1>13. ASSUME NEW p \in Apps, lock_postinit_timeout(p) PROVE FoundHasHostPid'
  BY <1>13 DEF lock_postinit_timeout, TimesOut
<1>14. ASSUME NEW p \in Apps, init_utilization_watcher_null(p) PROVE FoundHasHostPid'
  BY <1>14 DEF init_utilization_watcher_null, Ends
<1>15. ASSUME NEW p \in Apps, set_task_pid_first(p) PROVE FoundHasHostPid'
  BY <1>15 DEF set_task_pid_first
<1>16. ASSUME NEW p \in Apps, set_task_pid_second(p) PROVE FoundHasHostPid'
  BY <1>16 DEF set_task_pid_second
<1>17. ASSUME NEW p \in Apps, set_task_pid_no_context(p) PROVE FoundHasHostPid'
  BY <1>17 DEF set_task_pid_no_context
<1>18. ASSUME NEW p \in Apps, unlock_postinit(p) PROVE FoundHasHostPid'
  BY <1>18 DEF unlock_postinit
<1>19. ASSUME NEW p \in Apps, update_host_pid(p) PROVE FoundHasHostPid'
  BY <1>19 DEF update_host_pid
<1>20. ASSUME NEW p \in Apps, use_device(p) PROVE FoundHasHostPid'
  BY <1>20 DEF use_device, Appears, Disappears
<1>21. ASSUME NEW p \in Apps, restart(p) PROVE FoundHasHostPid'
  BY <1>21 DEF restart
<1>22. ASSUME others_use_device PROVE FoundHasHostPid'
  BY <1>22 DEF others_use_device, Appears, Disappears
<1>23. ASSUME create_new PROVE FoundHasHostPid'
  BY <1>23 DEF create_new
<1>24. ASSUME suspend_all PROVE FoundHasHostPid'
  BY <1>24 DEF suspend_all, SignalAll
<1>25. ASSUME send_stop_signal PROVE FoundHasHostPid'
  BY <1>25 DEF send_stop_signal, Released
<1>26. ASSUME resume_all PROVE FoundHasHostPid'
  BY <1>26 DEF resume_all, SignalAll
<1>27. ASSUME send_resume_signal PROVE FoundHasHostPid'
  BY <1>27 DEF send_resume_signal, Released
<1>28. CASE UNCHANGED vars
  BY <1>28 DEF vars
<1>29. ASSUME NEW p \in Apps, clear_proc_slot_nolock(p) PROVE FoundHasHostPid'
  BY <1>29 DEF clear_proc_slot_nolock, Gone, Moves
<1> QED
  BY <1>1, <1>2, <1>3, <1>4, <1>5, <1>6, <1>7, <1>8, <1>9, <1>10, <1>11, <1>12, <1>13, <1>14,
     <1>15, <1>16, <1>17, <1>18, <1>19, <1>20, <1>21, <1>22, <1>23, <1>24, <1>25, <1>26, <1>27,
     <1>28, <1>29
  DEF Next, Create, PostInit

(* No slot holds a host pid at first. *)
LEMMA HostInit == Init => HostPids /\ HostPidRight
  BY DEF Init, HostPids, HostPidRight, Registered, Unregistered, Procs

(* The pid that appears between the two queries of the detector is its own. *)
LEMMA HostStep ==
    Types /\ Detection /\ Slots /\ HostPids /\ HostPidRight /\ [Next]_vars => (HostPids /\ HostPidRight)'
<1> SUFFICES ASSUME Types, Detection, Slots, HostPids, HostPidRight, [Next]_vars PROVE (HostPids /\ HostPidRight)'
  OBVIOUS
<1> USE StartupAssumption DEF StartupAssumption, Procs, Types, PCs, Unregistered, Detecting,
        Signalled, Waiting, regionVars, slotVars, localVars, faultVars, Goto, Registered, HostPids,
        HostPidRight, Host
<1>1. ASSUME NEW p \in Procs, open(p) PROVE (HostPids /\ HostPidRight)'
  BY <1>1 DEF open
<1>2. ASSUME NEW p \in Procs, lockf(p) PROVE (HostPids /\ HostPidRight)'
  BY <1>2 DEF lockf
<1>3. ASSUME NEW p \in Procs, init_limits(p) PROVE (HostPids /\ HostPidRight)'
  BY <1>3 DEF init_limits
<1>4. ASSUME NEW p \in Procs, init_sems(p) PROVE (HostPids /\ HostPidRight)'
  BY <1>4 DEF init_sems
<1>5. ASSUME NEW p \in Procs, set_initialized_flag(p) PROVE (HostPids /\ HostPidRight)'
  BY <1>5 DEF set_initialized_flag
<1>6. ASSUME NEW p \in Procs, unlockf(p) PROVE (HostPids /\ HostPidRight)'
  BY <1>6 DEF unlockf
<1>7. ASSUME NEW p \in Procs, init_proc_slot_withlock(p) PROVE (HostPids /\ HostPidRight)'
  BY <1>7 DEF init_proc_slot_withlock, Gone
<1>8. ASSUME NEW p \in Procs, handle_signal(p) PROVE (HostPids /\ HostPidRight)'
  <2>1. CASE Registered(p)
    BY <1>8, <2>1 DEF handle_signal
  <2>2. CASE ~Registered(p)
    <3>1. Ends(p)
      BY <1>8, <2>2 DEF handle_signal
    <3> QED
      BY <1>8, <3>1 DEF handle_signal, Ends
  <2> QED
    BY <2>1, <2>2
<1>9. ASSUME NEW p \in Procs, kill(p) PROVE (HostPids /\ HostPidRight)'
  BY <1>9 DEF kill, Ends
<1>10. ASSUME NEW p \in Procs, exit_handler(p) PROVE (HostPids /\ HostPidRight)'
  BY <1>10 DEF exit_handler, Ends
<1>11. ASSUME NEW p \in Apps, ensure_post_init(p) PROVE (HostPids /\ HostPidRight)'
  BY <1>11 DEF ensure_post_init
<1>12. ASSUME NEW p \in Apps, lock_postinit(p) PROVE (HostPids /\ HostPidRight)'
  BY <1>12 DEF lock_postinit
<1>13. ASSUME NEW p \in Apps, lock_postinit_timeout(p) PROVE (HostPids /\ HostPidRight)'
  BY <1>13 DEF lock_postinit_timeout, TimesOut
<1>14. ASSUME NEW p \in Apps, init_utilization_watcher_null(p) PROVE (HostPids /\ HostPidRight)'
  BY <1>14 DEF init_utilization_watcher_null, Ends
<1>15. ASSUME NEW p \in Apps, set_task_pid_first(p) PROVE (HostPids /\ HostPidRight)'
  BY <1>15 DEF set_task_pid_first
<1>16. ASSUME NEW p \in Apps, set_task_pid_second(p) PROVE (HostPids /\ HostPidRight)'
  <2>1. \A q \in Apps \ {p} : pc'[q] = pc[q] /\ pc[q] # "second"
    BY <1>16 DEF set_task_pid_second, Detection
  <2>2. PICK extra \in getextrapid(before[p], dev \cup {Host(p)}) \cup {<<>>} :
           /\ hostpid' = IF extra # <<>> /\ slot[p] = "live" THEN [hostpid EXCEPT ![p] = extra] ELSE hostpid
           /\ inherited' = IF extra # <<>> THEN inherited \ {p} ELSE inherited
    BY <1>16 DEF set_task_pid_second
  <2>3. extra = <<>> \/ extra = Host(p) \/ p \in disturbed
    BY <1>16, <2>2 DEF set_task_pid_second, getextrapid
  <2>4. pc[p] = "second" /\ pc'[p] = "post" /\ UNCHANGED <<slot, inc, disturbed>>
    BY <1>16 DEF set_task_pid_second
  <2>5. HostPids'
    BY <2>1, <2>2, <2>4
  <2>6. ASSUME NEW q \in Apps, Registered(q)', slot'[q] = "live", hostpid'[q] # <<>>
        PROVE  hostpid'[q] = Host(q)' \/ q \in disturbed' \cup inherited'
    <3>1. CASE q = p
      BY <2>2, <2>3, <2>4, <2>6, <3>1 DEF Slots
    <3>2. CASE q # p
      BY <2>1, <2>2, <2>4, <2>6, <3>2
    <3> QED
      BY <3>1, <3>2
  <2> QED
    BY <2>5, <2>6
<1>17. ASSUME NEW p \in Apps, set_task_pid_no_context(p) PROVE (HostPids /\ HostPidRight)'
  <2>1. \A q \in Apps \ {p} : pc'[q] = pc[q] /\ pc[q] # "second"
    BY <1>17 DEF set_task_pid_no_context, Detection
  <2>2. pc[p] = "second" /\ pc'[p] = "post" /\ UNCHANGED <<slot, hostpid, inc, disturbed, inherited>>
    BY <1>17 DEF set_task_pid_no_context
  <2> QED
    BY <2>1, <2>2
<1>18. ASSUME NEW p \in Apps, unlock_postinit(p) PROVE (HostPids /\ HostPidRight)'
  BY <1>18 DEF unlock_postinit
<1>19. ASSUME NEW p \in Apps, update_host_pid(p) PROVE (HostPids /\ HostPidRight)'
  BY <1>19 DEF update_host_pid
<1>20. ASSUME NEW p \in Apps, use_device(p) PROVE (HostPids /\ HostPidRight)'
  BY <1>20 DEF use_device, Appears, Disappears
<1>21. ASSUME NEW p \in Apps, restart(p) PROVE (HostPids /\ HostPidRight)'
  BY <1>21 DEF restart
<1>22. ASSUME others_use_device PROVE (HostPids /\ HostPidRight)'
  BY <1>22 DEF others_use_device, Appears, Disappears
<1>23. ASSUME create_new PROVE (HostPids /\ HostPidRight)'
  BY <1>23 DEF create_new
<1>24. ASSUME suspend_all PROVE (HostPids /\ HostPidRight)'
  BY <1>24 DEF suspend_all, SignalAll
<1>25. ASSUME send_stop_signal PROVE (HostPids /\ HostPidRight)'
  BY <1>25 DEF send_stop_signal, Released
<1>26. ASSUME resume_all PROVE (HostPids /\ HostPidRight)'
  BY <1>26 DEF resume_all, SignalAll
<1>27. ASSUME send_resume_signal PROVE (HostPids /\ HostPidRight)'
  BY <1>27 DEF send_resume_signal, Released
<1>28. CASE UNCHANGED vars
  BY <1>28 DEF vars
<1>29. ASSUME NEW p \in Apps, clear_proc_slot_nolock(p) PROVE (HostPids /\ HostPidRight)'
  BY <1>29 DEF clear_proc_slot_nolock, Gone, Moves
<1> QED
  BY <1>1, <1>2, <1>3, <1>4, <1>5, <1>6, <1>7, <1>8, <1>9, <1>10, <1>11, <1>12, <1>13, <1>14,
     <1>15, <1>16, <1>17, <1>18, <1>19, <1>20, <1>21, <1>22, <1>23, <1>24, <1>25, <1>26, <1>27,
     <1>28, <1>29
  DEF Next, Create, PostInit

(***************************************************************************)
(* Suspension.                                                             *)
(***************************************************************************)
LEMMA SignalsInit == Init => Signals /\ StoppedStays
  BY DEF Init, Signals, StoppedStays, Procs

(* SIGUSR1 and SIGUSR2 are the only steps that change whether a process is   *)
(* suspended, and they reach another's status only through a stale my_slot.  *)
LEMMA SignalsStep ==
    Types /\ Slots /\ Signals /\ StoppedStays /\ [Next]_vars => (Signals /\ StoppedStays)'
<1> SUFFICES ASSUME Types, Slots, Signals, StoppedStays, [Next]_vars PROVE (Signals /\ StoppedStays)'
  OBVIOUS
<1> USE StartupAssumption DEF StartupAssumption, Procs, Types, PCs, Unregistered, Detecting,
        Signalled, Waiting, regionVars, slotVars, localVars, faultVars, Goto, Slots, Registered,
        Signals, StoppedStays
<1>1. ASSUME NEW p \in Procs, open(p) PROVE (Signals /\ StoppedStays)'
  BY <1>1 DEF open
<1>2. ASSUME NEW p \in Procs, lockf(p) PROVE (Signals /\ StoppedStays)'
  BY <1>2 DEF lockf
<1>3. ASSUME NEW p \in Procs, init_limits(p) PROVE (Signals /\ StoppedStays)'
  BY <1>3 DEF init_limits
<1>4. ASSUME NEW p \in Procs, init_sems(p) PROVE (Signals /\ StoppedStays)'
  BY <1>4 DEF init_sems
<1>5. ASSUME NEW p \in Procs, set_initialized_flag(p) PROVE (Signals /\ StoppedStays)'
  BY <1>5 DEF set_initialized_flag
<1>6. ASSUME NEW p \in Procs, unlockf(p) PROVE (Signals /\ StoppedStays)'
  BY <1>6 DEF unlockf
<1>7. ASSUME NEW p \in Procs, init_proc_slot_withlock(p) PROVE (Signals /\ StoppedStays)'
  <2>1. /\ astray \subseteq astray' /\ late \subseteq late' /\ UNCHANGED pend
        /\ pc' = [pc EXCEPT ![p] = IF p = Tool THEN "ready" ELSE "idle"]
        /\ status' = [status EXCEPT ![p] = 1]
        /\ pc[Tool] \in Signalled => {p} \cap Apps \subseteq late'
    BY <1>7 DEF init_proc_slot_withlock, Moves
  <2> QED
    BY <2>1
<1>8. ASSUME NEW p \in Procs, handle_signal(p) PROVE (Signals /\ StoppedStays)'
  <2>1. CASE Registered(p)
    BY <1>8, <2>1 DEF handle_signal
  <2>2. CASE ~Registered(p)
    <3>1. Ends(p)
      BY <1>8, <2>2 DEF handle_signal
    <3> QED
      BY <1>8, <3>1 DEF handle_signal, Ends
  <2> QED
    BY <2>1, <2>2
<1>9. ASSUME NEW p \in Procs, kill(p) PROVE (Signals /\ StoppedStays)'
  BY <1>9 DEF kill, Ends
<1>10. ASSUME NEW p \in Procs, exit_handler(p) PROVE (Signals /\ StoppedStays)'
  BY <1>10 DEF exit_handler, Ends
<1>11. ASSUME NEW p \in Apps, ensure_post_init(p) PROVE (Signals /\ StoppedStays)'
  BY <1>11 DEF ensure_post_init
<1>12. ASSUME NEW p \in Apps, lock_postinit(p) PROVE (Signals /\ StoppedStays)'
  BY <1>12 DEF lock_postinit
<1>13. ASSUME NEW p \in Apps, lock_postinit_timeout(p) PROVE (Signals /\ StoppedStays)'
  BY <1>13 DEF lock_postinit_timeout, TimesOut
<1>14. ASSUME NEW p \in Apps, init_utilization_watcher_null(p) PROVE (Signals /\ StoppedStays)'
  BY <1>14 DEF init_utilization_watcher_null, Ends
<1>15. ASSUME NEW p \in Apps, set_task_pid_first(p) PROVE (Signals /\ StoppedStays)'
  BY <1>15 DEF set_task_pid_first
<1>16. ASSUME NEW p \in Apps, set_task_pid_second(p) PROVE (Signals /\ StoppedStays)'
  BY <1>16 DEF set_task_pid_second
<1>17. ASSUME NEW p \in Apps, set_task_pid_no_context(p) PROVE (Signals /\ StoppedStays)'
  BY <1>17 DEF set_task_pid_no_context
<1>18. ASSUME NEW p \in Apps, unlock_postinit(p) PROVE (Signals /\ StoppedStays)'
  BY <1>18 DEF unlock_postinit
<1>19. ASSUME NEW p \in Apps, update_host_pid(p) PROVE (Signals /\ StoppedStays)'
  BY <1>19 DEF update_host_pid
<1>20. ASSUME NEW p \in Apps, use_device(p) PROVE (Signals /\ StoppedStays)'
  BY <1>20 DEF use_device, Appears, Disappears
<1>21. ASSUME NEW p \in Apps, restart(p) PROVE (Signals /\ StoppedStays)'
  BY <1>21 DEF restart
<1>22. ASSUME others_use_device PROVE (Signals /\ StoppedStays)'
  BY <1>22 DEF others_use_device, Appears, Disappears
<1>23. ASSUME create_new PROVE (Signals /\ StoppedStays)'
  BY <1>23 DEF create_new
<1>24. ASSUME suspend_all PROVE (Signals /\ StoppedStays)'
  BY <1>24 DEF suspend_all, SignalAll
<1>25. ASSUME send_stop_signal PROVE (Signals /\ StoppedStays)'
  BY <1>25 DEF send_stop_signal, Released, wait_status_all
<1>26. ASSUME resume_all PROVE (Signals /\ StoppedStays)'
  BY <1>26 DEF resume_all, SignalAll
<1>27. ASSUME send_resume_signal PROVE (Signals /\ StoppedStays)'
  BY <1>27 DEF send_resume_signal, Released
<1>28. CASE UNCHANGED vars
  BY <1>28 DEF vars
<1>29. ASSUME NEW p \in Apps, clear_proc_slot_nolock(p) PROVE (Signals /\ StoppedStays)'
  BY <1>29 DEF clear_proc_slot_nolock, Gone, Moves
<1> QED
  BY <1>1, <1>2, <1>3, <1>4, <1>5, <1>6, <1>7, <1>8, <1>9, <1>10, <1>11, <1>12, <1>13, <1>14,
     <1>15, <1>16, <1>17, <1>18, <1>19, <1>20, <1>21, <1>22, <1>23, <1>24, <1>25, <1>26, <1>27,
     <1>28, <1>29
  DEF Next, Create, PostInit
(***************************************************************************)
(* The theorems.                                                           *)
(***************************************************************************)
StartupInv ==
    /\ Types /\ Creation /\ Detection /\ Slots
    /\ FoundHasHostPid
    /\ HostPids /\ HostPidRight
    /\ Signals /\ StoppedStays

(* What all the theorems below rest on.                                     *)
LEMMA StartupInvariant == Spec => []StartupInv
<1>1. Init => StartupInv
  BY TypesInit, CreationInit, DetectionInit, SlotsInit, FoundInit, HostInit, SignalsInit DEF StartupInv
<1>2. StartupInv /\ [Next]_vars => StartupInv'
  <2> SUFFICES ASSUME StartupInv, [Next]_vars PROVE StartupInv'
    OBVIOUS
  <2>1. Types' /\ Creation' /\ Detection'
    BY TypesStep, CreationStep, DetectionStep DEF StartupInv
  <2>2. Slots' /\ FoundHasHostPid'
    BY SlotsStep, FoundStep DEF StartupInv
  <2>3. HostPids' /\ HostPidRight'
    BY HostStep DEF StartupInv
  <2>4. Signals' /\ StoppedStays'
    BY SignalsStep DEF StartupInv
  <2> QED
    BY <2>1, <2>2, <2>3, <2>4 DEF StartupInv
<1> QED
  BY <1>1, <1>2, PTL DEF Spec

(* No process gets past try_create_shrreg to a region whose limits or       *)
(* semaphores are not initialised, whoever is killed while creating it:     *)
(* initialized_flag is read and set under the lock of the file, after all   *)
(* the rest.                                                                *)
THEOREM InitialisedBeforeUse == Spec => []ReadyBeforeUse
<1>1. StartupInv => ReadyBeforeUse
  BY DEF StartupInv, Creation, Mapped, ReadyBeforeUse
<1> QED
  BY <1>1, StartupInvariant, PTL

(* No later process changes the limits in try_create_shrreg: whoever is     *)
(* about to write them has the lock of the file and saw the flag unset.     *)
THEOREM LimitsStayFixed == Spec => LimitsFixed
<1>1. StartupInv /\ [Next]_vars => [(flag /\ flag') => limit' = limit]_vars
  <2> SUFFICES ASSUME StartupInv, Next, flag, flag' PROVE limit' = limit
    OBVIOUS
  <2>1. \A p \in Procs : ~init_limits(p)
    BY DEF StartupInv, Creation, Creating, init_limits, Goto
  <2>2. ~create_new
    BY DEF create_new
  <2>3. ASSUME NEW p \in Procs, Create(p) \/ handle_signal(p) \/ kill(p) \/ exit_handler(p)
        PROVE  limit' = limit
    BY <2>1, <2>3 DEF Create, open, lockf, init_sems, set_initialized_flag, unlockf,
       init_proc_slot_withlock, handle_signal, kill, exit_handler, Ends, regionVars
  <2>4. ASSUME NEW p \in Apps, \/ ensure_post_init(p) \/ PostInit(p) \/ update_host_pid(p)
                               \/ use_device(p) \/ clear_proc_slot_nolock(p) \/ restart(p)
        PROVE  limit' = limit
    BY <2>4 DEF ensure_post_init, PostInit, lock_postinit, lock_postinit_timeout, TimesOut,
       init_utilization_watcher_null, Ends, set_task_pid_first, set_task_pid_second,
       set_task_pid_no_context, unlock_postinit, update_host_pid, use_device, Appears,
       Disappears, clear_proc_slot_nolock, restart, regionVars
  <2>5. ASSUME \/ others_use_device \/ suspend_all \/ send_stop_signal
               \/ resume_all \/ send_resume_signal
        PROVE  limit' = limit
    BY <2>5 DEF others_use_device, Appears, Disappears, suspend_all, resume_all, SignalAll,
       send_stop_signal, send_resume_signal, Released, regionVars
  <2> QED
    BY <2>2, <2>3, <2>4, <2>5 DEF Next
<1> QED
  BY <1>1, StartupInvariant, PTL DEF Spec, LimitsFixed

(* set_task_pid runs in one process at a time, although lock_postinit gives *)
(* up after its last timeout and a process may be killed with the unit of   *)
(* sem_postinit: the unit is then lost and not doubled.                     *)
THEOREM OneDetectorAtATime == Spec => []OneDetector
<1>1. StartupInv => OneDetector
  <2> SUFFICES ASSUME StartupInv PROVE OneDetector
    OBVIOUS
  <2> DEFINE D == {p \in Apps : pc[p] \in Detecting}
  <2>1. CASE D = {}
    BY <2>1, FS_EmptySet DEF OneDetector
  <2>2. CASE D # {}
    <3>1. PICK p \in D : TRUE
      BY <2>2
    <3>2. D = {p}
      BY <3>1 DEF StartupInv, Detection, Procs
    <3> QED
      BY <3>2, FS_Singleton DEF OneDetector
  <2> QED
    BY <2>1, <2>2
<1> QED
  BY <1>1, StartupInvariant, PTL

(* The host pid that set_task_pid finds is the process's own, unless        *)
(* another process came to the device meanwhile or a predecessor's host pid *)
(* was left in the slot.                                                    *)
THEOREM HostPidIsOwn == Spec => []HostPidRight
  BY StartupInvariant, PTL DEF StartupInv

(* Where pidfound turns the core limit on, the slot has a host pid, unless  *)
(* CHECK_CU_RESULT was granted the context only when it asked again.        *)
THEOREM FoundMeansHostPid == Spec => []FoundHasHostPid
  BY StartupInvariant, PTL DEF StartupInv

(* After send_stop_signal every process that had registered before, and     *)
(* whose my_slot still leads to its slot, is stopped until the tool's next  *)
(* signals, whatever signals, removals and deaths come in between.          *)
THEOREM StoppedStaysStopped == Spec => []StoppedStays
  BY StartupInvariant, PTL DEF StartupInv
(***************************************************************************)
(* The parser of the limits.                                               *)
(***************************************************************************)
(* The quotient and the remainder.                                          *)
LEMMA Division ==
    ASSUME NEW x \in Nat, NEW k \in Nat \ {0}
    PROVE  /\ x \div k \in Nat /\ x % k \in Nat
           /\ x = k * (x \div k) + (x % k)
           /\ x % k < k /\ x % k <= x
           /\ x < k => x % k = x
  OBVIOUS

(* Multiplying by a unit never makes the number smaller. *)
LEMMA ProductsGrow ==
    ASSUME NEW a \in Nat, NEW b \in Nat, NEW k \in Nat \ {0}, a < b
    PROVE  a * k + k <= b * k
<1>1. (b - a) * k >= k
  OBVIOUS
<1> QED
  BY <1>1

(* Dividing a product gives the factor back.                                *)
LEMMA ProductDivided ==
    ASSUME NEW a \in Nat, NEW k \in Nat \ {0}
    PROVE  a * k \in Nat /\ (a * k) \div k = a
<1> DEFINE q == (a * k) \div k
<1>1. a * k \in Nat
  OBVIOUS
<1>2. q \in Nat /\ (a * k) % k \in Nat /\ (a * k) % k < k /\ a * k = k * q + ((a * k) % k)
  BY <1>1, Division
<1>3. CASE q < a
  BY <1>2, <1>3, ProductsGrow
<1>4. CASE a < q
  BY <1>2, <1>4, ProductsGrow
<1> QED
  BY <1>1, <1>2, <1>3, <1>4

(* The test that get_limit_from_env makes recognises exactly the products   *)
(* that have not wrapped.                                                   *)
LEMMA WrapNoticed ==
    ASSUME NEW res \in 0 .. Word - 1, NEW k \in Nat \ {0}
    PROVE  /\ res * k < Word => (res * k) % Word = res * k /\ ((res * k) % Word) \div k = res
           /\ res * k >= Word => ((res * k) % Word) \div k # res
<1> USE LimitsAssumption DEF LimitsAssumption
<1>1. res \in Nat /\ res * k \in Nat /\ (res * k) \div k = res
  BY ProductDivided
<1>2. CASE res * k < Word
  BY <1>1, <1>2, Division
<1>3. CASE res * k >= Word
  <2> DEFINE x == (res * k) % Word
  <2>1. x \in Nat /\ x < res * k
    BY <1>1, <1>3, Division
  <2>2. x \div k \in Nat /\ k * (x \div k) <= x
    BY <2>1, Division
  <2>3. x \div k # res
    BY <2>1, <2>2
  <2> QED
    BY <1>3, <2>3
<1> QED
  BY <1>1, <1>2, <1>3

(* get_limit_from_env for every width of size_t and every factor: a setting *)
(* is the limit it says, or none if that does not fit; what wraps is never  *)
(* taken for a smaller limit.                                               *)
THEOREM ParserExact == ParsedExactly
<1> USE LimitsAssumption DEF LimitsAssumption
<1> SUFFICES ASSUME NEW num \in 0 .. Word + 1, NEW suffix \in Suffixes \ {"other"}
             PROVE  LET s == [num |-> num, suffix |-> suffix]
                        value == get_limit_from_env(s)
                    IN IF Meaning(s) < Word THEN value = Meaning(s)
                       ELSE value = IF suffix = "none" THEN Word - 1 ELSE 0
  BY DEF ParsedExactly
<1> DEFINE s == [num |-> num, suffix |-> suffix]
           k == Scalar(suffix)
           res == strtoul(num)
<1>1. k \in Nat \ {0} /\ (suffix = "none" => k = 1) /\ (suffix # "none" => k >= 2)
  BY DEF Scalar, Suffixes
<1>2. res \in 0 .. Word - 1 /\ (num < Word => res = num) /\ (num >= Word => res = Word - 1)
  BY DEF strtoul
<1>3. /\ Meaning(s) = num * k
      /\ get_limit_from_env(s) = IF ((res * k) % Word) \div k = res THEN (res * k) % Word ELSE 0
  BY DEF Meaning, get_limit_from_env
<1> HIDE DEF s, k, res
<1>4. CASE num * k < Word
  <2>1. num * k \in Nat /\ num <= num * k
    BY <1>1
  <2>2. res = num
    BY <1>2, <1>4, <2>1
  <2> QED
    BY <1>1, <1>2, <1>3, <1>4, <2>2, WrapNoticed DEF s, k
<1>5. CASE num * k >= Word
  <2>1. CASE suffix = "none"
    BY <1>1, <1>2, <1>3, <1>5, <2>1, WrapNoticed DEF s, k
  <2>2. CASE suffix # "none"
    <3>1. res * k >= Word
      <4>1. CASE num < Word
        BY <1>2, <1>5, <4>1
      <4>2. CASE num >= Word
        <5>1. (Word - 1) * k >= (Word - 1) * 2
          BY <1>1, <2>2
        <5> QED
          BY <1>1, <1>2, <4>2, <5>1
      <4> QED
        BY <4>1, <4>2
    <3>2. get_limit_from_env(s) = 0
      BY <1>1, <1>2, <1>3, <3>1, WrapNoticed
    <3>3. ~(Meaning(s) < Word)
      <4>1. num * k \in Nat
        BY <1>1
      <4> QED
        BY <1>3, <1>5, <4>1
    <3> QED
      BY <2>2, <3>2, <3>3 DEF s
  <2> QED
    BY <2>1, <2>2
<1>6. num * k < Word \/ num * k >= Word
  BY <1>1
<1> QED
  BY <1>4, <1>5, <1>6
=============================================================================
