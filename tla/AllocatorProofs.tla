-------------------------- MODULE AllocatorProofs ---------------------------
(***************************************************************************)
(* Proofs about module Allocator, for any processes, threads, devices,     *)
(* limits, sizes and handles: the mutex, then the list                     *)
(* device_overallocated and the total that is kept beside it, then the     *)
(* limit for one process, and for all of them together.                    *)
(***************************************************************************)
EXTENDS Allocator, SumProofs, SequenceTheorems

(* The part of the type invariant that the mutex depends on. *)
MutexType ==
  /\ pc \in [Threads -> PC]
  /\ mutex \in [Procs -> Threads \cup {None}]
  /\ stuck \in [Procs -> BOOLEAN]

MInv == MutexType /\ MutexDiscipline

-----------------------------------------------------------------------------
(* How a step may treat the mutex *)

(* Thread t takes a step outside the mutex, or from one place inside it to   *)
(* another.                                                                  *)
Moves(t, b) ==
  /\ pc' = [pc EXCEPT ![t] = b]
  /\ pc[t] \in Inside <=> b \in Inside
  /\ b \in PC
  /\ mutex' = mutex
  /\ stuck' = stuck

(* Thread t takes the free mutex of its process. *)
Locks(t, b) ==
  /\ mutex[ProcOf[t]] = None
  /\ mutex' = [mutex EXCEPT ![ProcOf[t]] = t]
  /\ pc' = [pc EXCEPT ![t] = b]
  /\ b \in Inside
  /\ stuck' = stuck

(* Thread t, inside, releases it. *)
Unlocks(t, b) ==
  /\ pc[t] \in Inside
  /\ mutex' = [mutex EXCEPT ![ProcOf[t]] = None]
  /\ pc' = [pc EXCEPT ![t] = b]
  /\ b \in PC \ Inside
  /\ stuck' = stuck

(* A step that moves keeps the discipline. *)
LEMMA MovesKeeps ==
  ASSUME MInv, NEW t \in Threads, NEW b, Moves(t, b)
  PROVE  MInv'
<1>1. ProcOf \in [Threads -> Procs] /\ None \notin Threads
  BY AllocatorAssumption DEF AllocatorAssumption
<1>2. MutexType'
  BY DEF MInv, MutexType, Moves
<1>3. \A u \in Threads : pc'[u] \in Inside <=> pc[u] \in Inside
  BY DEF MInv, MutexType, Moves
<1>4. MutexDiscipline'
  BY <1>1, <1>3 DEF MInv, MutexType, MutexDiscipline, Moves
<1> QED
  BY <1>2, <1>4 DEF MInv

(* A thread that finds the mutex free finds nobody inside. *)
LEMMA LocksKeeps ==
  ASSUME MInv, NEW t \in Threads, NEW b, Locks(t, b)
  PROVE  MInv'
<1>1. ProcOf \in [Threads -> Procs] /\ None \notin Threads
  BY AllocatorAssumption DEF AllocatorAssumption
<1>2. MutexType'
  BY <1>1 DEF MInv, MutexType, Locks, Inside, PC
<1>3. ASSUME NEW u \in Threads, pc'[u] \in Inside
      PROVE  mutex'[ProcOf[u]] = u
  <2>1. CASE u = t
    BY <1>1, <2>1 DEF MInv, MutexType, Locks
  <2>2. CASE u # t
    <3>1. pc[u] \in Inside
      BY <1>3, <2>2 DEF MInv, MutexType, Locks
    <3>2. mutex[ProcOf[u]] = u
      BY <3>1 DEF MInv, MutexDiscipline
    <3>3. ProcOf[u] # ProcOf[t]
      BY <1>1, <3>2 DEF Locks
    <3> QED
      BY <1>1, <3>2, <3>3 DEF MInv, MutexType, Locks
  <2> QED
    BY <2>1, <2>2
<1>4. ASSUME NEW p \in Procs, mutex'[p] # None
      PROVE  stuck'[p] \/ (pc'[mutex'[p]] \in Inside /\ ProcOf[mutex'[p]] = p)
  <2>1. CASE p = ProcOf[t]
    BY <1>1, <2>1 DEF MInv, MutexType, Locks
  <2>2. CASE p # ProcOf[t]
    <3>1. mutex'[p] = mutex[p]
      BY <1>1, <2>2 DEF MInv, MutexType, Locks
    <3>2. stuck[p] \/ (pc[mutex[p]] \in Inside /\ ProcOf[mutex[p]] = p)
      BY <1>4, <3>1 DEF MInv, MutexDiscipline
    <3> QED
      BY <1>1, <1>4, <2>2, <3>1, <3>2 DEF MInv, MutexType, Locks
  <2> QED
    BY <2>1, <2>2
<1> QED
  BY <1>2, <1>3, <1>4 DEF MInv, MutexDiscipline

(* The thread that releases the mutex is the only one inside. *)
LEMMA UnlocksKeeps ==
  ASSUME MInv, NEW t \in Threads, NEW b, Unlocks(t, b)
  PROVE  MInv'
<1>1. ProcOf \in [Threads -> Procs] /\ None \notin Threads
  BY AllocatorAssumption DEF AllocatorAssumption
<1>2. MutexType'
  BY <1>1 DEF MInv, MutexType, Unlocks
<1>3. mutex[ProcOf[t]] = t
  BY DEF MInv, MutexDiscipline, Unlocks
<1>4. ASSUME NEW u \in Threads, pc'[u] \in Inside
      PROVE  mutex'[ProcOf[u]] = u
  <2>1. u # t /\ pc[u] \in Inside
    BY <1>4 DEF MInv, MutexType, Unlocks
  <2>2. mutex[ProcOf[u]] = u
    BY <2>1 DEF MInv, MutexDiscipline
  <2>3. ProcOf[u] # ProcOf[t]
    BY <1>3, <2>1, <2>2
  <2> QED
    BY <1>1, <2>2, <2>3 DEF MInv, MutexType, Unlocks
<1>5. ASSUME NEW p \in Procs, mutex'[p] # None
      PROVE  stuck'[p] \/ (pc'[mutex'[p]] \in Inside /\ ProcOf[mutex'[p]] = p)
  <2>1. p # ProcOf[t] /\ mutex'[p] = mutex[p]
    BY <1>1, <1>5 DEF MInv, MutexType, Unlocks
  <2>2. stuck[p] \/ (pc[mutex[p]] \in Inside /\ ProcOf[mutex[p]] = p)
    BY <1>5, <2>1 DEF MInv, MutexDiscipline
  <2> QED
    BY <1>1, <1>5, <2>1, <2>2 DEF MInv, MutexType, Unlocks
<1> QED
  BY <1>2, <1>4, <1>5 DEF MInv, MutexDiscipline

-----------------------------------------------------------------------------
(* Every step of the specification *)

(* A library that has just been loaded holds neither mutex. *)
(* What changes neither threads nor lists. *)
LEMMA RestStep == /\ \A p \in Procs : other_use(p) => UNCHANGED allocVars
                  /\ UNCHANGED vars => UNCHANGED allocVars
  BY DEF other_use, vars

LEMMA MutexInit == Init => MInv
<1> SUFFICES ASSUME Init PROVE MInv
  OBVIOUS
<1>1. stuck \in [Procs -> BOOLEAN]
  BY Zenon DEF Init
<1>2. MutexType
  BY <1>1 DEF Init, MutexType, PC
<1>3. MutexDiscipline
  BY AllocatorAssumption DEF Init, MutexDiscipline, Inside, AllocatorAssumption
<1> QED
  BY <1>2, <1>3 DEF MInv

(* No call enters a section of the mutex while another thread is in it. *)
LEMMA MutexStep == MInv /\ [Next]_vars => MInv'
<1> SUFFICES ASSUME MInv, [Next]_vars PROVE MInv'
  OBVIOUS
<1>0. ProcOf \in [Threads -> Procs] /\ None \notin Threads
  BY AllocatorAssumption DEF AllocatorAssumption
<1>a. ASSUME NEW t \in Threads, allocate(t)
      PROVE  MInv'
  <2>1. CASE alloc_call(t)
    BY <2>1, MovesKeeps DEF alloc_call, Goto, Moves, PC, Inside
  <2>2. CASE read_slot(t)
    BY <2>2 DEF read_slot, MInv, MutexType, MutexDiscipline
  <2>3. CASE clear_and_retry(t)
    BY <2>3 DEF clear_and_retry, MInv, MutexType, MutexDiscipline
  <2>4. CASE pre_check_fails(t)
    BY <2>4, MovesKeeps DEF pre_check_fails, Return, Moves, PC, Inside
  <2>5. CASE pre_check_passes(t)
    BY <2>5, MovesKeeps DEF pre_check_passes, Goto, Moves, PC, Inside
  <2>6. CASE driver_alloc(t)
    BY <2>6, MovesKeeps DEF driver_alloc, Goto, Moves, PC, Inside
  <2>7. CASE driver_alloc_fails(t)
    BY <2>7, MovesKeeps DEF driver_alloc_fails, Return, Moves, PC, Inside
  <2>8. CASE alloc_lock(t)
    BY <2>8, LocksKeeps DEF alloc_lock, Goto, Locks, Inside
  <2>9. CASE post_check_undoes(t)
    BY <2>9, UnlocksKeeps DEF post_check_undoes, Goto, Unlocks, PC, Inside
  <2>10. CASE undo(t)
    BY <2>10, MovesKeeps DEF undo, Return, Moves, PC, Inside
  <2>11. CASE post_check_ignored(t)
    BY <2>11, UnlocksKeeps DEF post_check_ignored, Return, Unlocks, PC, Inside
  <2>12. CASE post_check_passes(t)
    BY <2>12, MovesKeeps DEF post_check_passes, Goto, Moves, PC, Inside
  <2>13. CASE entry_fails(t)
    <3>1. /\ pc[t] = "entry"
          /\ pc' = [pc EXCEPT ![t] = "idle"]
          /\ mutex' = mutex
          /\ stuck' = [stuck EXCEPT ![ProcOf[t]] = TRUE]
      BY <2>13 DEF entry_fails, Return
    <3>2. mutex[ProcOf[t]] = t
      BY <3>1 DEF MInv, MutexDiscipline, Inside
    <3>3. stuck' \in [Procs -> BOOLEAN]
      BY <3>1, Zenon DEF MInv, MutexType
    <3>4. MutexType'
      BY <3>1, <3>3 DEF MInv, MutexType, PC
    <3>5. \A u \in Threads : pc'[u] \in Inside => mutex'[ProcOf[u]] = u
      BY <3>1 DEF MInv, MutexType, MutexDiscipline, Inside
    <3>6. ASSUME NEW p \in Procs, mutex'[p] # None
          PROVE  stuck'[p] \/ (pc'[mutex'[p]] \in Inside /\ ProcOf[mutex'[p]] = p)
      <4>1. CASE p = ProcOf[t]
        BY <3>1, <4>1 DEF MInv, MutexType
      <4>2. CASE p # ProcOf[t]
        <5>1. stuck'[p] = stuck[p]
          BY <3>1, <4>2 DEF MInv, MutexType
        <5>2. stuck[p] \/ (pc[mutex[p]] \in Inside /\ ProcOf[mutex[p]] = p)
          BY <3>1, <3>6 DEF MInv, MutexDiscipline
        <5>3. CASE stuck[p]
          BY <5>1, <5>3
        <5>4. CASE pc[mutex[p]] \in Inside /\ ProcOf[mutex[p]] = p
          BY <3>1, <3>6, <4>2, <5>4 DEF MInv, MutexType
        <5> QED
          BY <5>2, <5>3, <5>4
      <4> QED
        BY <4>1, <4>2
    <3> QED
      BY <3>4, <3>5, <3>6 DEF MInv, MutexDiscipline
  <2>14. CASE list_add(t)
    BY <2>14, MovesKeeps DEF list_add, Goto, Moves, PC, Inside
  <2>15. CASE account(t)
    BY <2>15, UnlocksKeeps DEF account, Return, Unlocks, PC, Inside
  <2> QED
    BY <1>a, <2>1, <2>2, <2>3, <2>4, <2>5, <2>6, <2>7, <2>8, <2>9, <2>10,
       <2>11, <2>12, <2>13, <2>14, <2>15 DEF allocate
<1>b. ASSUME NEW t \in Threads, deallocate(t)
      PROVE  MInv'
  <2>1. CASE free_call(t)
    <3>1. CASE UNCHANGED pc
      BY <2>1, <3>1 DEF free_call, MInv, MutexType, MutexDiscipline
    <3>2. CASE pc' = [pc EXCEPT ![t] = "unlist"]
      BY <2>1, <3>2, MovesKeeps DEF free_call, Moves, PC, Inside
    <3> QED
      BY <2>1, <3>1, <3>2 DEF free_call
  <2>2. CASE remove_chunk(t)
    BY <2>2, LocksKeeps DEF remove_chunk, Goto, Locks, Inside
  <2>3. CASE remove_chunk_unknown(t)
    BY <2>3, MovesKeeps DEF remove_chunk_unknown, Return, Moves, PC, Inside
  <2>4. CASE settle(t)
    BY <2>4, UnlocksKeeps DEF settle, Goto, Unlocks, PC, Inside
  <2>5. CASE driver_free(t)
    BY <2>5, MovesKeeps DEF driver_free, Return, Moves, PC, Inside
  <2>6. CASE release_call(t)
    BY <2>6, MovesKeeps DEF release_call, Goto, Moves, PC, Inside
  <2>7. CASE remove_chunk_only(t)
    BY <2>7, MovesKeeps DEF remove_chunk_only, Goto, Moves, PC, Inside
  <2>8. CASE unlink(t)
    BY <2>8, MovesKeeps DEF unlink, Goto, Moves, PC, Inside
  <2>9. CASE remove_chunk_only_unknown(t)
    BY <2>9, MovesKeeps DEF remove_chunk_only_unknown, Return, Moves, PC, Inside
  <2>10. CASE deduct(t)
    BY <2>10, MovesKeeps DEF deduct, Return, Moves, PC, Inside
  <2> QED
    BY <1>b, <2>1, <2>2, <2>3, <2>4, <2>5, <2>6, <2>7, <2>8, <2>9, <2>10 DEF deallocate
<1>c. ASSUME NEW p \in Procs, kill(p)
      PROVE  MInv'
  <2>1. /\ pc' = [t \in Threads |-> IF ProcOf[t] = p THEN "gone" ELSE pc[t]]
        /\ mutex' = [mutex EXCEPT ![p] = None]
        /\ stuck' = stuck
    BY <1>c DEF kill
  <2>2. MutexType'
    BY <2>1 DEF MInv, MutexType, PC
  <2>3. ASSUME NEW u \in Threads, pc'[u] \in Inside
        PROVE  mutex'[ProcOf[u]] = u
    <3>1. ProcOf[u] # p /\ pc[u] \in Inside
      BY <2>1, <2>3 DEF Inside
    <3> QED
      BY <1>0, <2>1, <3>1 DEF MInv, MutexType, MutexDiscipline
  <2>4. ASSUME NEW q \in Procs, mutex'[q] # None
        PROVE  stuck'[q] \/ (pc'[mutex'[q]] \in Inside /\ ProcOf[mutex'[q]] = q)
    <3>1. q # p /\ mutex'[q] = mutex[q] /\ mutex[q] \in Threads
      BY <2>1, <2>4 DEF MInv, MutexType
    <3>2. stuck[q] \/ (pc[mutex[q]] \in Inside /\ ProcOf[mutex[q]] = q)
      BY <2>4, <3>1 DEF MInv, MutexDiscipline
    <3> QED
      BY <2>1, <3>1, <3>2
  <2> QED
    BY <2>2, <2>3, <2>4 DEF MInv, MutexDiscipline
<1>d. CASE UNCHANGED allocVars
  BY <1>d DEF allocVars, MInv, MutexType, MutexDiscipline
<1> QED
  BY <1>a, <1>b, <1>c, <1>d, RestStep DEF Next

(* For any number of processes and threads, any limits and any sizes: a      *)
(* thread is between pthread_mutex_lock and pthread_mutex_unlock of          *)
(* allocator.c exactly when it holds its process's mutex, so the check of    *)
(* the limit and the update of list and total are never interleaved with     *)
(* another locked section of the process, whatever is killed meanwhile.      *)
THEOREM MutexDisciplineHolds == Spec => []MutexDiscipline
<1>1. Init => MInv
  BY MutexInit
<1>2. MInv /\ [Next]_vars => MInv'
  BY MutexStep
<1>3. MInv => MutexDiscipline
  BY DEF MInv
<1> QED
  BY <1>1, <1>2, <1>3, PTL DEF Spec

-----------------------------------------------------------------------------
(* Lists *)

Entry == [h : Handles, len : Sizes, dev : Devs]

(* The sum of what f gives for the entries of l. *)
Weight(l, f) == SumOf([i \in DOMAIN l |-> f[l[i]]])

(* One for each entry of the handle; the size of each entry on the device. *)
OfHandle(h) == [x \in Entry |-> IF x.h = h THEN 1 ELSE 0]
OnDev(e) == [x \in Entry |-> IF Map[x.dev] = e THEN x.len ELSE 0]

(* The weights are numbers. *)
LEMMA WeightTypes ==
  /\ \A h \in Handles : OfHandle(h) \in [Entry -> Nat]
  /\ \A e \in Devs : OnDev(e) \in [Entry -> Nat]
<1>1. Word \in Nat \ {0} /\ Sizes \subseteq 1 .. Word - 1
  BY AllocatorAssumption DEF AllocatorAssumption
<1>2. \A x \in Entry : x.len \in Nat
  <2>1. \A x \in Entry : x.len \in Sizes
    BY DEF Entry
  <2>2. 1 .. Word - 1 \subseteq Nat
    BY <1>1
  <2> QED
    BY <1>1, <2>1, <2>2
<1> QED
  BY <1>1, <1>2 DEF OfHandle, OnDev

(* LIST_INSERT adds the weight of the new entry. *)
LEMMA WeightAppend ==
  ASSUME NEW l \in Seq(Entry), NEW x \in Entry, NEW f \in [Entry -> Nat]
  PROVE  Weight(Append(l, x), f) = Weight(l, f) + f[x] /\ Weight(l, f) \in Nat
<1> DEFINE n == Len(l)
           w == [i \in 1 .. n |-> f[l[i]]]
           v == [i \in 1 .. (n + 1) |-> f[Append(l, x)[i]]]
<1>1. /\ n \in Nat /\ DOMAIN l = 1 .. n /\ DOMAIN Append(l, x) = 1 .. (n + 1)
      /\ Append(l, x)[n + 1] = x
      /\ \A i \in 1 .. n : Append(l, x)[i] = l[i]
      /\ \A i \in 1 .. (n + 1) : Append(l, x)[i] \in Entry
  OBVIOUS
<1>2. w \in [1 .. n -> Nat] /\ v \in [1 .. (n + 1) -> Nat]
  BY <1>1
<1>3. \A i \in 1 .. n : v[i] = w[i]
  BY <1>1
<1>4. v[n + 1] = f[x]
  BY <1>1
<1>5. Weight(Append(l, x), f) = SumOf(v) /\ Weight(l, f) = SumOf(w)
  BY <1>1 DEF Weight
<1> HIDE DEF w, v
<1> QED
  BY <1>1, <1>2, <1>3, <1>4, <1>5, SumAppend

(* What LIST_REMOVE leaves. *)
LEMMA WithoutIs ==
  ASSUME NEW S, NEW l \in Seq(S), NEW k \in 1 .. Len(l)
  PROVE  /\ Without(l, k) \in Seq(S)
         /\ Len(Without(l, k)) = Len(l) - 1
         /\ \A i \in 1 .. (Len(l) - 1) : Without(l, k)[i] = IF i < k THEN l[i] ELSE l[i + 1]
<1> DEFINE a == SubSeq(l, 1, k - 1)
           b == SubSeq(l, k + 1, Len(l))
<1>1. a \in Seq(S) /\ Len(a) = k - 1 /\ \A i \in 1 .. (k - 1) : a[i] = l[i]
  OBVIOUS
<1>2. b \in Seq(S) /\ Len(b) = Len(l) - k /\ \A i \in 1 .. (Len(l) - k) : b[i] = l[k + i]
  OBVIOUS
<1> HIDE DEF a, b
<1>3. /\ a \o b \in Seq(S) /\ Len(a \o b) = Len(a) + Len(b)
      /\ \A i \in 1 .. (Len(a) + Len(b)) : (a \o b)[i] = IF i <= Len(a) THEN a[i] ELSE b[i - Len(a)]
  BY <1>1, <1>2, ConcatProperties
<1>4. Without(l, k) = a \o b
  BY DEF Without, a, b
<1>5. ASSUME NEW i \in 1 .. (Len(l) - 1)
      PROVE  (a \o b)[i] = IF i < k THEN l[i] ELSE l[i + 1]
  <2>1. CASE i < k
    BY <1>1, <1>2, <1>3, <2>1
  <2>2. CASE ~(i < k)
    <3>1. i - (k - 1) \in 1 .. (Len(l) - k) /\ k + (i - (k - 1)) = i + 1
      BY <2>2
    <3>2. (a \o b)[i] = b[i - (k - 1)]
      BY <1>1, <1>2, <1>3, <2>2
    <3>3. b[i - (k - 1)] = l[i + 1]
      BY <1>2, <3>1
    <3> QED
      BY <2>2, <3>2, <3>3
  <2> QED
    BY <2>1, <2>2
<1>6. Len(a \o b) = Len(l) - 1
  BY <1>1, <1>2, <1>3
<1>7. /\ a \o b \in Seq(S) /\ Len(a \o b) = Len(l) - 1
      /\ \A i \in 1 .. (Len(l) - 1) : (a \o b)[i] = IF i < k THEN l[i] ELSE l[i + 1]
  BY <1>3, <1>5, <1>6, Zenon
<1> QED
  BY ONLY <1>4, <1>7, Zenon

(* LIST_REMOVE subtracts the weight of the entry. *)
LEMMA WeightRemove ==
  ASSUME NEW l \in Seq(Entry), NEW k \in 1 .. Len(l), NEW f \in [Entry -> Nat]
  PROVE  /\ Weight(Without(l, k), f) = Weight(l, f) - f[l[k]]
         /\ Weight(l, f) \in Nat /\ Weight(Without(l, k), f) \in Nat
<1> DEFINE n == Len(l) - 1
           w == [i \in 1 .. (n + 1) |-> f[l[i]]]
           v == [i \in 1 .. n |-> f[Without(l, k)[i]]]
<1>1. n \in Nat /\ n + 1 = Len(l) /\ DOMAIN l = 1 .. (n + 1) /\ \A i \in 1 .. (n + 1) : l[i] \in Entry
  OBVIOUS
<1>2. /\ DOMAIN Without(l, k) = 1 .. n
      /\ \A i \in 1 .. n : Without(l, k)[i] = IF i < k THEN l[i] ELSE l[i + 1]
      /\ \A i \in 1 .. n : Without(l, k)[i] \in Entry
  <2>1. Without(l, k) \in Seq(Entry) /\ Len(Without(l, k)) = n
    BY WithoutIs
  <2>2. \A i \in 1 .. n : Without(l, k)[i] = IF i < k THEN l[i] ELSE l[i + 1]
    BY WithoutIs
  <2> QED
    BY <2>1, <2>2
<1>3. w \in [1 .. (n + 1) -> Nat] /\ v \in [1 .. n -> Nat]
  BY <1>1, <1>2
<1>4. ASSUME NEW i \in 1 .. n PROVE v[i] = IF i < k THEN w[i] ELSE w[i + 1]
  <2>1. v[i] = f[Without(l, k)[i]] /\ i \in 1 .. (n + 1) /\ i + 1 \in 1 .. (n + 1)
    BY <1>1
  <2>2. w[i] = f[l[i]] /\ w[i + 1] = f[l[i + 1]]
    BY <2>1
  <2> HIDE DEF w, v
  <2> QED
    BY <1>2, <2>1, <2>2
<1>5. Weight(Without(l, k), f) = SumOf(v) /\ Weight(l, f) = SumOf(w) /\ w[k] = f[l[k]] /\ k \in 1 .. (n + 1)
  BY <1>1, <1>2 DEF Weight
<1> HIDE DEF n, w, v
<1>6. SumOf(v) = SumOf(w) - w[k] /\ SumOf(w) \in Nat /\ SumOf(v) \in Nat
  BY <1>1, <1>3, <1>4, <1>5, SumRemove
<1> QED
  BY <1>5, <1>6

(* The walks of remove_chunk and remove_chunk_only stop at the first entry   *)
(* of the handle.                                                            *)
LEMMA FindIs ==
  ASSUME NEW l \in Seq(Entry), NEW h \in Handles
  PROVE  /\ Find(l, h) \in 0 .. Len(l)
         /\ Find(l, h) = 0 => \A i \in 1 .. Len(l) : l[i].h # h
         /\ Find(l, h) # 0 => /\ l[Find(l, h)].h = h
                              /\ \A i \in 1 .. Len(l) : l[i].h = h => Find(l, h) <= i
<1> DEFINE hits == {i \in DOMAIN l : l[i].h = h}
<1>1. DOMAIN l = 1 .. Len(l) /\ Len(l) \in Nat
  OBVIOUS
<1>2. CASE hits = {}
  BY <1>1, <1>2 DEF Find
<1>3. CASE hits # {}
  <2>1. hits \subseteq Nat
    BY <1>1
  <2>2. Find(l, h) = CHOOSE i \in hits : \A j \in hits : i <= j
    BY <1>3 DEF Find
  <2>3. Find(l, h) \in hits /\ \A j \in hits : Find(l, h) <= j
    <3> HIDE DEF hits
    <3>1. \E i \in hits : \A j \in hits : i <= j
      BY <1>3, <2>1, LeastIndex
    <3> QED
      BY <2>2, <3>1
  <2> QED
    BY <1>1, <2>3
<1> QED
  BY <1>2, <1>3

(* A handle that weighs something is in the list. *)
LEMMA FoundByWeight ==
  ASSUME NEW l \in Seq(Entry), NEW h \in Handles, Find(l, h) = 0
  PROVE  Weight(l, OfHandle(h)) = 0
<1> DEFINE w == [i \in 1 .. Len(l) |-> OfHandle(h)[l[i]]]
<1>1. \A i \in 1 .. Len(l) : l[i] \in Entry /\ l[i].h # h
  BY FindIs
<1>2. \A i \in 1 .. Len(l) : w[i] = 0
  BY <1>1 DEF OfHandle
<1>3. w \in [1 .. Len(l) -> Nat]
  <2>1. 0 \in Nat
    BY AllocatorAssumption DEF AllocatorAssumption
  <2> QED
    BY <1>2, <2>1
<1>4. Weight(l, OfHandle(h)) = SumOf(w)
  BY DEF Weight
<1> HIDE DEF w
<1> QED
  BY <1>2, <1>3, <1>4, SumZero

-----------------------------------------------------------------------------
(* The inductive invariant *)

(* A thread at one of these places has the handle from the driver, and has   *)
(* not given it to the application or back to the driver.                    *)
Holding == {"lock", "post", "entry", "account", "undo", "unlist", "settle", "free"}

(* There, no entry of the list need stand for the handle. *)
Untracked == {"lock", "post", "entry", "undo", "settle", "free"}

(* remove_chunk_only: the driver has the handle back already. *)
Dropping == {"drop", "unlink", "deduct"}

Functions ==
  /\ used = [p \in Procs |-> used[p]]
  /\ list = [p \in Procs |-> list[p]]
  /\ drv = [p \in Procs |-> drv[p]]
  /\ own = [p \in Procs |-> own[p]]
  /\ lost = [p \in Procs |-> lost[p]]
  /\ raced = [p \in Procs |-> raced[p]]
  /\ req = [t \in Threads |-> req[t]]
  /\ hd = [t \in Threads |-> hd[t]]

Running ==
  /\ up \subseteq Procs
  /\ pc \in [Threads -> PC]
  /\ \A t \in Threads : ProcOf[t] \notin up => pc[t] = "gone"

Shape == Functions /\ Running

(* Types of what belongs to a process. *)
ListTypes(p) ==
  /\ list[p] \in Seq(Entry)
  /\ \A t \in Threads : ProcOf[t] = p => req[t] \in Requests
  /\ drv[p] \in [Handles -> Nat]
  /\ own[p] \subseteq Handles \X Calls

(* Every handle that the driver has given out has one holder at most: a      *)
(* thread in the library, or the application.                                *)
Holders(p) ==
  /\ \A t \in Threads : ProcOf[t] = p /\ pc[t] \in Holding \cup Dropping => hd[t] \in Handles
  /\ \A t \in Threads : ProcOf[t] = p /\ pc[t] \in Holding => drv[p][hd[t]] # 0
  /\ \A t, u \in Threads :
       ProcOf[t] = p /\ pc[t] \in Holding /\ ProcOf[u] = p /\ pc[u] \in Holding /\ hd[t] = hd[u] => t = u
  /\ \A o \in own[p] :
       /\ drv[p][o[1]] # 0
       /\ \A t \in Threads : ProcOf[t] = p /\ pc[t] \in Holding => hd[t] # o[1]
       /\ \A r \in own[p] : o[1] = r[1] => o = r

(* The entry of this handle has to be in the list. *)
Settled(p, h) ==
  /\ drv[p][h] # 0
  /\ \A t \in Threads : ProcOf[t] = p /\ pc[t] \in Untracked => hd[t] # h

(* The threads that are about to take an entry of the handle out of it. *)
DropOf(t, p, h) == IF ProcOf[t] = p /\ pc[t] \in {"drop", "unlink"} /\ hd[t] = h THEN 1 ELSE 0
Drops(p, h) == SumOf([t \in Threads |-> DropOf(t, p, h)])

(* The list has an entry for each of them and for the allocation. *)
Covered(p) ==
  \A h \in Handles \ lost[p] :
    Drops(p, h) + (IF Settled(p, h) THEN 1 ELSE 0) <= Weight(list[p], OfHandle(h))

(* The entry that remove_chunk_only has found is still the first one. *)
Remembered(p) ==
  \A t \in Threads :
    ProcOf[t] = p /\ pc[t] = "unlink" =>
      LET i == Find(list[p], hd[t]) IN
      i # 0 /\ list[p][i].dev = req[t].dev /\ list[p][i].len = req[t].size

Usage(p) ==
  p \in up =>
    /\ used[p] \in [Devs -> 0 .. Word - 1]
    /\ \A e \in Devs :
         used[p][e] = (Listed(p, e) + InHand(p, e, {"settle", "deduct"})
                         - InHand(p, e, {"account"})) % Word

ProcInv(p) == ListTypes(p) /\ Holders(p) /\ Covered(p) /\ Remembered(p) /\ Usage(p)

(* Once an unlocked removal has raced, nothing is known of that process; the *)
(* others do not notice.                                                     *)
ListInv == Shape /\ \A p \in Procs : ~raced[p] => ProcInv(p)

-----------------------------------------------------------------------------
(* Steps *)

(* The step of a thread leaves everything of other processes alone, except   *)
(* the totals of dead ones.                                                  *)
Local(t) ==
  /\ up' = up
  /\ \A q \in Procs \ {ProcOf[t]} :
       /\ list'[q] = list[q] /\ drv'[q] = drv[q] /\ own'[q] = own[q]
       /\ lost'[q] = lost[q] /\ raced'[q] = raced[q]
  /\ \A q \in up \ {ProcOf[t]} : used'[q] = used[q]
  /\ \A u \in Threads \ {t} : pc'[u] = pc[u] /\ hd'[u] = hd[u] /\ req'[u] = req[u]

(* The list becomes l, unless that is when the process is found racing. *)
LEMMA SetListIs ==
  ASSUME Functions, NEW t \in Threads, NEW l, SetList(t, l)
  PROVE  /\ list' = [q \in Procs |-> list'[q]] /\ raced' = [q \in Procs |-> raced'[q]]
         /\ \A q \in Procs \ {ProcOf[t]} : list'[q] = list[q] /\ raced'[q] = raced[q]
         /\ ~raced'[ProcOf[t]] => /\ ~raced[ProcOf[t]] /\ list'[ProcOf[t]] = l
                                  /\ \A u \in Threads \ {t} : ProcOf[u] = ProcOf[t] => pc[u] # "unlink"
<1> DEFINE p == ProcOf[t]
           race == \E u \in Threads \ {t} : ProcOf[u] = p /\ pc[u] = "unlink"
<1>0. p \in Procs
  BY AllocatorAssumption DEF AllocatorAssumption
<1>f. list = [q \in Procs |-> list[q]] /\ raced = [q \in Procs |-> raced[q]]
  BY DEF Functions
<1>1. CASE race
  <2>1. PICK m : list' = [list EXCEPT ![p] = m] /\ raced' = [raced EXCEPT ![p] = TRUE]
    BY <1>1, Zenon DEF SetList
  <2>2. raced'[p] = TRUE
    BY <1>0, <1>f, <2>1
  <2> QED
    BY <1>0, <1>f, <2>1, <2>2
<1>2. CASE ~race
  <2>1. list' = [list EXCEPT ![p] = l] /\ raced' = raced
    BY <1>2, Zenon DEF SetList
  <2> QED
    BY <1>0, <1>2, <1>f, <2>1
<1> QED
  BY <1>1, <1>2

(* Every call of a thread is such a step. *)
LEMMA LocalStep ==
  ASSUME Shape, NEW t \in Threads, allocate(t) \/ deallocate(t)
  PROVE  Shape' /\ Local(t)
<1>0. ProcOf \in [Threads -> Procs]
  BY AllocatorAssumption DEF AllocatorAssumption
<1> USE <1>0 DEF PC
<1>1. CASE alloc_call(t)
  <2>1. Functions'
    BY <1>1, ZenonT(30) DEF Shape, Functions, alloc_call, Goto, StartCheck
  <2>2. Running'
    BY <1>1 DEF Shape, Running, alloc_call, Goto, StartCheck
  <2>3. Local(t)
    BY <1>1 DEF Shape, Functions, Running, Local, alloc_call, Goto, StartCheck
  <2> QED
    BY <2>1, <2>2, <2>3 DEF Shape
<1>2. CASE read_slot(t)
  <2>1. Functions'
    BY <1>2 DEF Shape, Functions, read_slot
  <2>2. Running'
    BY <1>2 DEF Shape, Running, read_slot
  <2>3. Local(t)
    BY <1>2 DEF Shape, Functions, Running, Local, read_slot
  <2> QED
    BY <2>1, <2>2, <2>3 DEF Shape
<1>3. CASE clear_and_retry(t)
  <2>1. Functions'
    BY <1>3 DEF Shape, Functions, clear_and_retry, StartCheck
  <2>2. Running'
    BY <1>3 DEF Shape, Running, clear_and_retry, StartCheck
  <2>3. Local(t)
    BY <1>3 DEF Shape, Functions, Running, Local, clear_and_retry, DeadSlots, StartCheck
  <2> QED
    BY <2>1, <2>2, <2>3 DEF Shape
<1>4. CASE pre_check_fails(t)
  <2>1. Functions'
    BY <1>4 DEF Shape, Functions, pre_check_fails, Return
  <2>2. Running'
    BY <1>4 DEF Shape, Running, pre_check_fails, Return
  <2>3. Local(t)
    BY <1>4 DEF Shape, Functions, Running, Local, pre_check_fails, Return
  <2> QED
    BY <2>1, <2>2, <2>3 DEF Shape
<1>5. CASE pre_check_passes(t)
  <2>1. Functions'
    BY <1>5 DEF Shape, Functions, pre_check_passes, Goto
  <2>2. Running'
    BY <1>5 DEF Shape, Running, pre_check_passes, Goto
  <2>3. Local(t)
    BY <1>5 DEF Shape, Functions, Running, Local, pre_check_passes, Goto
  <2> QED
    BY <2>1, <2>2, <2>3 DEF Shape
<1>6. CASE driver_alloc(t)
  <2>1. Functions'
    <3>1. PICK h \in Handles : /\ drv' = [drv EXCEPT ![ProcOf[t]][h] = req[t].size]
                               /\ hd' = [hd EXCEPT ![t] = h]
      BY <1>6, Zenon DEF driver_alloc
    <3>2. /\ drv = [p \in Procs |-> drv[p]] /\ hd = [u \in Threads |-> hd[u]]
          /\ UNCHANGED <<used, list, own, lost, raced, req>>
      BY <1>6, Zenon DEF Shape, Functions, driver_alloc
    <3>3. drv' = [p \in Procs |-> drv'[p]] /\ hd' = [u \in Threads |-> hd'[u]]
      BY ONLY <3>1, <3>2
    <3> QED
      BY <3>2, <3>3, Zenon DEF Shape, Functions
  <2>2. Running'
    BY <1>6 DEF Shape, Running, driver_alloc, Goto
  <2>3. Local(t)
    BY <1>6 DEF Shape, Functions, Running, Local, driver_alloc, Goto
  <2> QED
    BY <2>1, <2>2, <2>3 DEF Shape
<1>7. CASE driver_alloc_fails(t)
  <2>1. Functions'
    BY <1>7 DEF Shape, Functions, driver_alloc_fails, Return
  <2>2. Running'
    BY <1>7 DEF Shape, Running, driver_alloc_fails, Return
  <2>3. Local(t)
    BY <1>7 DEF Shape, Functions, Running, Local, driver_alloc_fails, Return
  <2> QED
    BY <2>1, <2>2, <2>3 DEF Shape
<1>8. CASE alloc_lock(t)
  <2>1. Functions'
    BY <1>8 DEF Shape, Functions, alloc_lock, Goto, StartCheck
  <2>2. Running'
    BY <1>8 DEF Shape, Running, alloc_lock, Goto, StartCheck
  <2>3. Local(t)
    BY <1>8 DEF Shape, Functions, Running, Local, alloc_lock, Goto, StartCheck
  <2> QED
    BY <2>1, <2>2, <2>3 DEF Shape
<1>9. CASE post_check_undoes(t)
  <2>1. Functions'
    BY <1>9 DEF Shape, Functions, post_check_undoes, Goto
  <2>2. Running'
    BY <1>9 DEF Shape, Running, post_check_undoes, Goto
  <2>3. Local(t)
    BY <1>9 DEF Shape, Functions, Running, Local, post_check_undoes, Goto
  <2> QED
    BY <2>1, <2>2, <2>3 DEF Shape
<1>10. CASE undo(t)
  <2>1. Functions'
    BY <1>10, ZenonT(30) DEF Shape, Functions, undo, Return
  <2>2. Running'
    BY <1>10 DEF Shape, Running, undo, Return
  <2>3. Local(t)
    BY <1>10 DEF Shape, Functions, Running, Local, undo, Return
  <2> QED
    BY <2>1, <2>2, <2>3 DEF Shape
<1>11. CASE post_check_ignored(t)
  <2>1. Functions'
    BY <1>11, ZenonT(30) DEF Shape, Functions, post_check_ignored, Return
  <2>2. Running'
    BY <1>11 DEF Shape, Running, post_check_ignored, Return
  <2>3. Local(t)
    BY <1>11 DEF Shape, Functions, Running, Local, post_check_ignored, Return
  <2> QED
    BY <2>1, <2>2, <2>3 DEF Shape
<1>12. CASE post_check_passes(t)
  <2>1. Functions'
    BY <1>12 DEF Shape, Functions, post_check_passes, Goto
  <2>2. Running'
    BY <1>12 DEF Shape, Running, post_check_passes, Goto
  <2>3. Local(t)
    BY <1>12 DEF Shape, Functions, Running, Local, post_check_passes, Goto
  <2> QED
    BY <2>1, <2>2, <2>3 DEF Shape
<1>13. CASE entry_fails(t)
  <2>1. Functions'
    BY <1>13, ZenonT(30) DEF Shape, Functions, entry_fails, Return
  <2>2. Running'
    BY <1>13 DEF Shape, Running, entry_fails, Return
  <2>3. Local(t)
    BY <1>13 DEF Shape, Functions, Running, Local, entry_fails, Return
  <2> QED
    BY <2>1, <2>2, <2>3 DEF Shape
<1>14. CASE list_add(t)
  <2>0. SetList(t, Append(list[ProcOf[t]], [h |-> hd[t], len |-> req[t].size, dev |-> req[t].dev]))
    BY <1>14 DEF list_add
  <2>4. /\ list' = [q \in Procs |-> list'[q]] /\ raced' = [q \in Procs |-> raced'[q]]
        /\ \A q \in Procs \ {ProcOf[t]} : list'[q] = list[q] /\ raced'[q] = raced[q]
    BY <2>0, SetListIs DEF Shape
  <2>1. Functions'
    BY <1>14, <2>4 DEF Shape, Functions, list_add, Goto
  <2>2. Running'
    BY <1>14 DEF Shape, Running, list_add, Goto
  <2>3. Local(t)
    BY <1>14, <2>4 DEF Shape, Functions, Running, Local, list_add, Goto
  <2> QED
    BY <2>1, <2>2, <2>3 DEF Shape
<1>15. CASE account(t)
  <2>1. Functions'
    BY <1>15 DEF Shape, Functions, account, Return
  <2>2. Running'
    BY <1>15 DEF Shape, Running, account, Return
  <2>3. Local(t)
    BY <1>15 DEF Shape, Functions, Running, Local, account, Return
  <2> QED
    BY <2>1, <2>2, <2>3 DEF Shape
<1>16. CASE free_call(t)
  <2>0. PICK o \in own[ProcOf[t]] : own' = [own EXCEPT ![ProcOf[t]] = @ \ {o}]
                                    /\ \/ pc' = pc /\ hd' = hd
                                       \/ pc' = [pc EXCEPT ![t] = "unlist"] /\ hd' = [hd EXCEPT ![t] = o[1]]
    BY <1>16, Zenon DEF free_call
  <2>1. Functions'
    <3>1. own' = [q \in Procs |-> own'[q]]
      BY <2>0 DEF Shape, Functions
    <3>2. hd' = [u \in Threads |-> hd'[u]]
      BY <2>0 DEF Shape, Functions
    <3> QED
      BY <1>16, <3>1, <3>2 DEF Shape, Functions, free_call
  <2>4. up' = up /\ pc[t] = "idle" /\ (pc' = pc \/ pc' = [pc EXCEPT ![t] = "unlist"])
    BY <1>16, <2>0 DEF free_call
  <2>2. Running'
    <3>1. CASE pc' = pc
      BY <2>4, <3>1 DEF Shape, Running
    <3>2. CASE pc' = [pc EXCEPT ![t] = "unlist"]
      BY <2>4, <3>2 DEF Shape, Running
    <3> QED
      BY <2>4, <3>1, <3>2
  <2>3. Local(t)
    BY <1>16, <2>0 DEF Shape, Functions, Running, Local, free_call
  <2> QED
    BY <2>1, <2>2, <2>3 DEF Shape
<1>17. CASE remove_chunk(t)
  <2>0. SetList(t, Without(list[ProcOf[t]], Find(list[ProcOf[t]], hd[t])))
    BY <1>17 DEF remove_chunk
  <2>4. /\ list' = [q \in Procs |-> list'[q]] /\ raced' = [q \in Procs |-> raced'[q]]
        /\ \A q \in Procs \ {ProcOf[t]} : list'[q] = list[q] /\ raced'[q] = raced[q]
    BY <2>0, SetListIs DEF Shape
  <2>1. Functions'
    BY <1>17, <2>4 DEF Shape, Functions, remove_chunk, Goto
  <2>2. Running'
    BY <1>17 DEF Shape, Running, remove_chunk, Goto
  <2>3. Local(t)
    BY <1>17, <2>4 DEF Shape, Functions, Running, Local, remove_chunk, Goto
  <2> QED
    BY <2>1, <2>2, <2>3 DEF Shape
<1>18. CASE remove_chunk_unknown(t)
  <2>1. Functions'
    BY <1>18, ZenonT(30) DEF Shape, Functions, remove_chunk_unknown, Return
  <2>2. Running'
    BY <1>18 DEF Shape, Running, remove_chunk_unknown, Return
  <2>3. Local(t)
    BY <1>18 DEF Shape, Functions, Running, Local, remove_chunk_unknown, Return
  <2> QED
    BY <2>1, <2>2, <2>3 DEF Shape
<1>19. CASE settle(t)
  <2>1. Functions'
    BY <1>19 DEF Shape, Functions, settle, Goto
  <2>2. Running'
    BY <1>19 DEF Shape, Running, settle, Goto
  <2>3. Local(t)
    BY <1>19 DEF Shape, Functions, Running, Local, settle, Goto
  <2> QED
    BY <2>1, <2>2, <2>3 DEF Shape
<1>20. CASE driver_free(t)
  <2>1. Functions'
    BY <1>20 DEF Shape, Functions, driver_free, Return
  <2>2. Running'
    BY <1>20 DEF Shape, Running, driver_free, Return
  <2>3. Local(t)
    BY <1>20 DEF Shape, Functions, Running, Local, driver_free, Return
  <2> QED
    BY <2>1, <2>2, <2>3 DEF Shape
<1>21. CASE release_call(t)
  <2>0. PICK o \in own[ProcOf[t]] : /\ own' = [own EXCEPT ![ProcOf[t]] = @ \ {o}]
                                    /\ drv' = [drv EXCEPT ![ProcOf[t]][o[1]] = 0]
                                    /\ hd' = [hd EXCEPT ![t] = o[1]]
    BY <1>21, Zenon DEF release_call
  <2>1. Functions'
    <3>1. own' = [q \in Procs |-> own'[q]] /\ drv' = [q \in Procs |-> drv'[q]]
      BY <2>0 DEF Shape, Functions
    <3>2. hd' = [u \in Threads |-> hd'[u]]
      BY <2>0 DEF Shape, Functions
    <3> QED
      BY <1>21, <3>1, <3>2 DEF Shape, Functions, release_call
  <2>2. Running'
    BY <1>21 DEF Shape, Running, release_call, Goto
  <2>3. Local(t)
    BY <1>21 DEF Shape, Functions, Running, Local, release_call, Goto
  <2> QED
    BY <2>1, <2>2, <2>3 DEF Shape
<1>22. CASE remove_chunk_only(t)
  <2>1. Functions'
    BY <1>22, ZenonT(30) DEF Shape, Functions, remove_chunk_only, Goto
  <2>2. Running'
    BY <1>22 DEF Shape, Running, remove_chunk_only, Goto
  <2>3. Local(t)
    BY <1>22 DEF Shape, Functions, Running, Local, remove_chunk_only, Goto
  <2> QED
    BY <2>1, <2>2, <2>3 DEF Shape
<1>23. CASE unlink(t)
  <2>0. SetList(t, LET i == Find(list[ProcOf[t]], hd[t]) IN
                IF i = 0 THEN list[ProcOf[t]] ELSE Without(list[ProcOf[t]], i))
    BY <1>23 DEF unlink
  <2>4. /\ list' = [q \in Procs |-> list'[q]] /\ raced' = [q \in Procs |-> raced'[q]]
        /\ \A q \in Procs \ {ProcOf[t]} : list'[q] = list[q] /\ raced'[q] = raced[q]
    BY <2>0, SetListIs DEF Shape
  <2>1. Functions'
    BY <1>23, <2>4 DEF Shape, Functions, unlink, Goto
  <2>2. Running'
    BY <1>23 DEF Shape, Running, unlink, Goto
  <2>3. Local(t)
    BY <1>23, <2>4 DEF Shape, Functions, Running, Local, unlink, Goto
  <2> QED
    BY <2>1, <2>2, <2>3 DEF Shape
<1>24. CASE remove_chunk_only_unknown(t)
  <2>1. Functions'
    BY <1>24 DEF Shape, Functions, remove_chunk_only_unknown, Return
  <2>2. Running'
    BY <1>24 DEF Shape, Running, remove_chunk_only_unknown, Return
  <2>3. Local(t)
    BY <1>24 DEF Shape, Functions, Running, Local, remove_chunk_only_unknown, Return
  <2> QED
    BY <2>1, <2>2, <2>3 DEF Shape
<1>25. CASE deduct(t)
  <2>1. Functions'
    BY <1>25 DEF Shape, Functions, deduct, Return
  <2>2. Running'
    BY <1>25 DEF Shape, Running, deduct, Return
  <2>3. Local(t)
    BY <1>25 DEF Shape, Functions, Running, Local, deduct, Return
  <2> QED
    BY <2>1, <2>2, <2>3 DEF Shape
<1> QED
  BY <1>1, <1>2, <1>3, <1>4, <1>5, <1>6, <1>7, <1>8, <1>9, <1>10, <1>11, <1>12,
     <1>13, <1>14, <1>15, <1>16, <1>17, <1>18, <1>19, <1>20, <1>21, <1>22, <1>23,
     <1>24, <1>25
  DEF allocate, deallocate

(* What the threads of the process have in hand, one by one. *)
HandOf(t, p, e, places) ==
  IF ProcOf[t] = p /\ pc[t] \in places /\ Map[req[t].dev] = e THEN req[t].size ELSE 0

(* Their sums are over numbers. *)
LEMMA HandTypes ==
  ASSUME NEW p \in Procs, ListTypes(p)
  PROVE  /\ \A h \in Handles : [u \in Threads |-> DropOf(u, p, h)] \in [Threads -> Nat]
         /\ \A e \in Devs : \A places :
              /\ [u \in Threads |-> HandOf(u, p, e, places)] \in [Threads -> Nat]
              /\ InHand(p, e, places) = SumOf([u \in Threads |-> HandOf(u, p, e, places)])
<1>1. Word \in Nat \ {0} /\ Sizes \subseteq 1 .. Word - 1
  BY AllocatorAssumption DEF AllocatorAssumption
<1>2. 0 \in Nat /\ 1 \in Nat /\ 1 .. Word - 1 \subseteq Nat
  BY <1>1
<1>3. \A u \in Threads : ProcOf[u] = p => req[u].size \in Nat
  BY <1>1, <1>2 DEF ListTypes, Requests
<1>4. \A u \in Threads, h \in Handles : DropOf(u, p, h) \in Nat
  BY <1>2 DEF DropOf
<1>5. \A u \in Threads, e \in Devs : \A places : HandOf(u, p, e, places) \in Nat
  BY <1>2, <1>3 DEF HandOf
<1> QED
  BY <1>4, <1>5 DEF InHand, HandOf

(* A step of t changes the sums by what it changes for t. *)
LEMMA HandSums ==
  ASSUME NEW t \in Threads, Local(t), NEW p \in Procs, ListTypes(p), ListTypes(p)'
  PROVE  /\ \A h \in Handles :
              /\ Drops(p, h)' = Drops(p, h) - DropOf(t, p, h) + DropOf(t, p, h)'
              /\ Drops(p, h) \in Nat /\ Drops(p, h)' \in Nat
         /\ \A e \in Devs : \A places :
              /\ InHand(p, e, places)' = InHand(p, e, places) - HandOf(t, p, e, places) + HandOf(t, p, e, places)'
              /\ InHand(p, e, places) \in Nat /\ InHand(p, e, places)' \in Nat
<1>1. IsFiniteSet(Threads)
  BY AllocatorAssumption DEF AllocatorAssumption
<1>2. \A u \in Threads \ {t} : pc'[u] = pc[u] /\ hd'[u] = hd[u] /\ req'[u] = req[u]
  BY DEF Local
<1>s. Word \in Nat \ {0} /\ Sizes \subseteq 1 .. Word - 1
  BY AllocatorAssumption DEF AllocatorAssumption
<1>w. 0 \in Nat /\ 1 \in Nat /\ 1 .. Word - 1 \subseteq Nat
  BY <1>s
<1>r. \A u \in Threads : ProcOf[u] = p => req'[u].size \in Nat
  BY <1>s, <1>w DEF ListTypes, Requests
<1>3. ASSUME NEW h \in Handles
      PROVE  /\ Drops(p, h)' = Drops(p, h) - DropOf(t, p, h) + DropOf(t, p, h)'
             /\ Drops(p, h) \in Nat /\ Drops(p, h)' \in Nat
  <2> DEFINE w == [u \in Threads |-> DropOf(u, p, h)]
             v == [u \in Threads |-> DropOf(u, p, h)']
  <2>1. w \in [Threads -> Nat]
    BY HandTypes
  <2>2. v \in [Threads -> Nat]
    BY <1>w DEF DropOf
  <2>3. \A u \in Threads \ {t} : v[u] = w[u]
    BY <1>2 DEF DropOf
  <2>4. Drops(p, h) = SumOf(w) /\ Drops(p, h)' = SumOf(v) /\ w[t] = DropOf(t, p, h) /\ v[t] = DropOf(t, p, h)'
    BY DEF Drops
  <2> HIDE DEF w, v
  <2> QED
    BY <1>1, <2>1, <2>2, <2>3, <2>4, SumChange
<1>4. ASSUME NEW e \in Devs, NEW places
      PROVE  /\ InHand(p, e, places)' = InHand(p, e, places) - HandOf(t, p, e, places) + HandOf(t, p, e, places)'
             /\ InHand(p, e, places) \in Nat /\ InHand(p, e, places)' \in Nat
  <2> DEFINE w == [u \in Threads |-> HandOf(u, p, e, places)]
             v == [u \in Threads |-> HandOf(u, p, e, places)']
  <2>1. w \in [Threads -> Nat]
    BY HandTypes
  <2>2. v \in [Threads -> Nat]
    BY <1>w, <1>r DEF HandOf
  <2>3. \A u \in Threads \ {t} : v[u] = w[u]
    BY <1>2 DEF HandOf
  <2>4. /\ InHand(p, e, places) = SumOf(w) /\ InHand(p, e, places)' = SumOf(v)
        /\ w[t] = HandOf(t, p, e, places) /\ v[t] = HandOf(t, p, e, places)'
    BY DEF InHand, HandOf
  <2> HIDE DEF w, v
  <2> QED
    BY <1>1, <2>1, <2>2, <2>3, <2>4, SumChange
<1> QED
  BY <1>3, <1>4

(* Another process notices nothing. *)
LEMMA OthersKeep ==
  ASSUME NEW t \in Threads, Local(t), NEW q \in Procs \ {ProcOf[t]}, ProcInv(q)
  PROVE  ProcInv(q)'
<1>1. /\ list'[q] = list[q] /\ drv'[q] = drv[q] /\ own'[q] = own[q] /\ lost'[q] = lost[q] /\ up' = up
      /\ q \in up => used'[q] = used[q]
  BY DEF Local
<1>2. \A u \in Threads : ProcOf[u] = q => pc'[u] = pc[u] /\ hd'[u] = hd[u] /\ req'[u] = req[u]
  BY DEF Local
<1>3. ListTypes(q)'
  BY <1>1, <1>2 DEF ProcInv, ListTypes
<1>4. Holders(q)'
  BY <1>1, <1>2 DEF ProcInv, Holders
<1>5. Remembered(q)'
  BY <1>1, <1>2 DEF ProcInv, Remembered
<1>6. \A h \in Handles : Settled(q, h)' <=> Settled(q, h)
  BY <1>1, <1>2 DEF Settled
<1>7. \A h \in Handles : DropOf(t, q, h)' = 0 /\ DropOf(t, q, h) = 0
  BY DEF DropOf
<1>8. \A e \in Devs : \A places : HandOf(t, q, e, places)' = 0 /\ HandOf(t, q, e, places) = 0
  BY DEF HandOf
<1>9. \A h \in Handles : Drops(q, h)' = Drops(q, h)
  BY <1>3, <1>7, HandSums DEF ProcInv
<1>10. \A e \in Devs : \A places : InHand(q, e, places)' = InHand(q, e, places)
  BY <1>3, <1>8, HandSums DEF ProcInv
<1>11. Covered(q)'
  BY <1>1, <1>6, <1>9 DEF ProcInv, Covered
<1>12. \A e \in Devs : Listed(q, e)' = Listed(q, e)
  BY <1>1 DEF Listed
<1>13. Usage(q)'
  BY <1>1, <1>10, <1>12 DEF ProcInv, Usage
<1> QED
  BY <1>3, <1>4, <1>5, <1>11, <1>13 DEF ProcInv

(* Which steps touch what. *)
LEMMA Frame ==
  ASSUME NEW t \in Threads, allocate(t) \/ deallocate(t)
  PROVE  /\ list_add(t) \/ remove_chunk(t) \/ unlink(t) \/ list' = list
         /\ list_add(t) \/ remove_chunk(t) \/ unlink(t) \/ remove_chunk_only(t) \/ raced' = raced
         /\ driver_alloc(t) \/ undo(t) \/ driver_free(t) \/ release_call(t) \/ drv' = drv
         /\ \/ post_check_ignored(t) \/ entry_fails(t) \/ account(t) \/ free_call(t) \/ release_call(t)
            \/ own' = own
         /\ post_check_ignored(t) \/ entry_fails(t) \/ lost' = lost
         /\ \/ clear_and_retry(t) \/ account(t) \/ settle(t) \/ deduct(t)
            \/ used' = used /\ pc[t] \notin {"account", "settle", "deduct"}
         /\ \/ alloc_call(t) \/ remove_chunk(t) \/ remove_chunk_only(t)
            \/ req' = [req EXCEPT ![t] = AnyRequest] \/ req' = req
<1>1. CASE alloc_call(t)
  BY <1>1 DEF alloc_call, Goto
<1>2. CASE read_slot(t)
  BY <1>2 DEF read_slot
<1>3. CASE clear_and_retry(t)
  BY <1>3 DEF clear_and_retry
<1>4. CASE pre_check_fails(t)
  BY <1>4 DEF pre_check_fails, Return
<1>5. CASE pre_check_passes(t)
  BY <1>5 DEF pre_check_passes, Goto
<1>6. CASE driver_alloc(t)
  BY <1>6 DEF driver_alloc, Goto
<1>7. CASE driver_alloc_fails(t)
  BY <1>7 DEF driver_alloc_fails, Return
<1>8. CASE alloc_lock(t)
  BY <1>8 DEF alloc_lock, Goto
<1>9. CASE post_check_undoes(t)
  BY <1>9 DEF post_check_undoes, Goto
<1>10. CASE undo(t)
  BY <1>10 DEF undo, Return
<1>11. CASE post_check_ignored(t)
  BY <1>11 DEF post_check_ignored, Return
<1>12. CASE post_check_passes(t)
  BY <1>12 DEF post_check_passes, Goto
<1>13. CASE entry_fails(t)
  BY <1>13 DEF entry_fails, Return
<1>14. CASE list_add(t)
  BY <1>14 DEF list_add, Goto
<1>15. CASE account(t)
  BY <1>15 DEF account, Return
<1>16. CASE free_call(t)
  BY <1>16 DEF free_call
<1>17. CASE remove_chunk(t)
  BY <1>17 DEF remove_chunk, Goto
<1>18. CASE remove_chunk_unknown(t)
  BY <1>18 DEF remove_chunk_unknown, Return
<1>19. CASE settle(t)
  BY <1>19 DEF settle
<1>20. CASE driver_free(t)
  BY <1>20 DEF driver_free, Return
<1>21. CASE release_call(t)
  BY <1>21 DEF release_call, Goto
<1>22. CASE remove_chunk_only(t)
  BY <1>22 DEF remove_chunk_only, Goto
<1>23. CASE unlink(t)
  BY <1>23 DEF unlink, Goto
<1>24. CASE remove_chunk_only_unknown(t)
  BY <1>24 DEF remove_chunk_only_unknown, Return
<1>25. CASE deduct(t)
  BY <1>25 DEF deduct, Return
<1> QED
  BY <1>1, <1>2, <1>3, <1>4, <1>5, <1>6, <1>7, <1>8, <1>9, <1>10, <1>11, <1>12,
     <1>13, <1>14, <1>15, <1>16, <1>17, <1>18, <1>19, <1>20, <1>21, <1>22, <1>23,
     <1>24, <1>25
  DEF allocate, deallocate

(* Some request exists. *)
LEMMA AnyRequestIs == AnyRequest \in Requests
<1>1. PICK d \in Devs, n \in Sizes : TRUE
  BY AllocatorAssumption DEF AllocatorAssumption
<1>2. [call |-> "alloc", dev |-> d, size |-> n] \in Requests
  BY DEF Requests, Calls
<1> QED
  BY <1>2 DEF AnyRequest

(* The types of what belongs to the process of t. *)
LEMMA OwnTypes ==
  ASSUME Shape, NEW t \in Threads, NEW p \in Procs, p = ProcOf[t], ProcInv(p), ~raced'[p],
         allocate(t) \/ deallocate(t)
  PROVE  ListTypes(p)'
<1>0. /\ Functions /\ Local(t) /\ Functions'
      /\ ListTypes(p) /\ pc \in [Threads -> PC]
      /\ pc[t] \in Holding \cup Dropping => hd[t] \in Handles
  BY LocalStep DEF Shape, Running, ProcInv, Holders
<1>1. Sizes \subseteq Nat /\ Asks \in [Threads -> SUBSET Requests]
  BY AllocatorAssumption DEF AllocatorAssumption
<1>2. AnyRequest \in Requests
  BY AnyRequestIs
<1>3. ASSUME NEW l \in Seq(Entry), SetList(t, l) PROVE list'[p] \in Seq(Entry)
  BY <1>0, <1>3, SetListIs
<1>4. ASSUME NEW h \in Handles, Find(list[p], h) # 0
      PROVE  /\ Find(list[p], h) \in 1 .. Len(list[p])
             /\ list[p][Find(list[p], h)] \in Entry
             /\ Without(list[p], Find(list[p], h)) \in Seq(Entry)
  <2>1. list[p] \in Seq(Entry) /\ Find(list[p], h) \in 0 .. Len(list[p])
    BY <1>0, FindIs DEF ListTypes
  <2>2. Find(list[p], h) \in 1 .. Len(list[p])
    BY <1>4, <2>1
  <2> QED
    BY <2>1, <2>2, WithoutIs
<1>5. list'[p] \in Seq(Entry)
  <2>1. CASE list_add(t)
    <3> DEFINE x == [h |-> hd[t], len |-> req[t].size, dev |-> req[t].dev]
    <3>1. x \in Entry
      BY <2>1, <1>0 DEF list_add, Goto, Holding, ListTypes, Requests, Entry
    <3>2. SetList(t, Append(list[p], x))
      BY <2>1 DEF list_add
    <3>3. Append(list[p], x) \in Seq(Entry)
      BY <1>0, <3>1 DEF ListTypes
    <3> QED
      BY <1>3, <3>2, <3>3
  <2>2. CASE remove_chunk(t)
    <3>1. pc[t] = "unlist" /\ Find(list[p], hd[t]) # 0
      BY <2>2 DEF remove_chunk, Goto
    <3>2. SetList(t, Without(list[p], Find(list[p], hd[t])))
      BY <2>2 DEF remove_chunk
    <3> QED
      BY <1>0, <1>3, <1>4, <3>1, <3>2 DEF Holding
  <2>3. CASE unlink(t)
    <3>1. pc[t] = "unlink" /\ SetList(t, IF Find(list[p], hd[t]) = 0 THEN list[p] ELSE Without(list[p], Find(list[p], hd[t])))
      BY <2>3 DEF unlink, Goto
    <3>2. (IF Find(list[p], hd[t]) = 0 THEN list[p] ELSE Without(list[p], Find(list[p], hd[t]))) \in Seq(Entry)
      BY <1>0, <1>4, <3>1 DEF Dropping, ListTypes
    <3> QED
      BY <1>3, <3>1, <3>2
  <2>4. CASE list' = list
    BY <2>4, <1>0 DEF ListTypes
  <2> QED
    BY <2>1, <2>2, <2>3, <2>4, Frame
<1>6. \A u \in Threads : ProcOf[u] = p => req'[u] \in Requests
  <2>1. CASE alloc_call(t)
    BY <2>1, <1>0, <1>1 DEF alloc_call, Functions, ListTypes
  <2>2. CASE remove_chunk(t)
    <3>1. pc[t] = "unlist" /\ Find(list[p], hd[t]) # 0
      BY <2>2 DEF remove_chunk, Goto
    <3>2. list[p][Find(list[p], hd[t])] \in Entry
      BY <1>0, <1>4, <3>1 DEF Holding
    <3> DEFINE r == [call |-> "alloc", dev |-> list[p][Find(list[p], hd[t])].dev, size |-> list[p][Find(list[p], hd[t])].len]
    <3>3. r \in Requests
      BY <3>2 DEF Entry, Requests, Calls
    <3>4. req' = [req EXCEPT ![t] = r]
      BY <2>2 DEF remove_chunk
    <3> HIDE DEF r
    <3> QED
      BY <1>0, <3>3, <3>4 DEF Functions, ListTypes
  <2>3. CASE remove_chunk_only(t)
    <3>1. pc[t] = "drop" /\ Find(list[p], hd[t]) # 0
      BY <2>3 DEF remove_chunk_only, Goto
    <3>2. list[p][Find(list[p], hd[t])] \in Entry
      BY <1>0, <1>4, <3>1 DEF Dropping
    <3> DEFINE r == [call |-> "create", dev |-> list[p][Find(list[p], hd[t])].dev, size |-> list[p][Find(list[p], hd[t])].len]
    <3>3. r \in Requests
      BY <3>2 DEF Entry, Requests, Calls
    <3>4. req' = [req EXCEPT ![t] = r]
      BY <2>3 DEF remove_chunk_only
    <3> HIDE DEF r
    <3> QED
      BY <1>0, <3>3, <3>4 DEF Functions, ListTypes
  <2>4. CASE req' = [req EXCEPT ![t] = AnyRequest]
    BY <2>4, <1>0, <1>2 DEF Functions, ListTypes
  <2>5. CASE req' = req
    BY <2>5, <1>0 DEF ListTypes
  <2> QED
    BY <2>1, <2>2, <2>3, <2>4, <2>5, Frame
<1>7. drv'[p] \in [Handles -> Nat]
  <2>1. CASE driver_alloc(t)
    <3>1. PICK h \in Handles : drv' = [drv EXCEPT ![p][h] = req[t].size]
      BY <2>1 DEF driver_alloc
    <3>2. req[t].size \in Nat
      BY <1>0, <1>1 DEF ListTypes, Requests
    <3> QED
      BY <1>0, <3>1, <3>2 DEF Functions, ListTypes
  <2>2. CASE undo(t)
    BY <2>2, <1>0 DEF undo, Functions, ListTypes
  <2>3. CASE driver_free(t)
    BY <2>3, <1>0 DEF driver_free, Functions, ListTypes
  <2>4. CASE release_call(t)
    <3>1. PICK h : drv' = [drv EXCEPT ![p][h] = 0]
      BY <2>4 DEF release_call
    <3> QED
      BY <1>0, <3>1 DEF Functions, ListTypes
  <2>5. CASE drv' = drv
    BY <2>5, <1>0 DEF ListTypes
  <2> QED
    BY <2>1, <2>2, <2>3, <2>4, <2>5, Frame
<1>8. own'[p] \subseteq Handles \X Calls
  <2>1. CASE post_check_ignored(t)
    <3>1. <<hd[t], req[t].call>> \in Handles \X Calls
      BY <2>1, <1>0 DEF post_check_ignored, Holding, ListTypes, Requests
    <3> QED
      BY <2>1, <1>0, <3>1 DEF post_check_ignored, Functions, ListTypes
  <2>2. CASE entry_fails(t)
    <3>1. <<hd[t], req[t].call>> \in Handles \X Calls
      BY <2>2, <1>0 DEF entry_fails, Holding, ListTypes, Requests
    <3>2. own' = own \/ own' = [own EXCEPT ![p] = @ \cup {<<hd[t], req[t].call>>}]
      BY <2>2 DEF entry_fails
    <3> QED
      BY <1>0, <3>1, <3>2 DEF Functions, ListTypes
  <2>3. CASE account(t)
    <3>1. <<hd[t], req[t].call>> \in Handles \X Calls
      BY <2>3, <1>0 DEF account, Holding, ListTypes, Requests
    <3> QED
      BY <2>3, <1>0, <3>1 DEF account, Functions, ListTypes
  <2>4. CASE free_call(t)
    BY <2>4, <1>0 DEF free_call, Functions, ListTypes
  <2>5. CASE release_call(t)
    BY <2>5, <1>0 DEF release_call, Functions, ListTypes
  <2>6. CASE own' = own
    BY <2>6, <1>0 DEF ListTypes
  <2> QED
    BY <2>1, <2>2, <2>3, <2>4, <2>5, <2>6, Frame
<1> QED
  BY <1>5, <1>6, <1>7, <1>8 DEF ListTypes

(* A step that takes nothing from the driver or the application, and gives    *)
(* nothing to them, makes no new holder.                                     *)
LEMMA HoldersQuiet ==
  ASSUME NEW t \in Threads, Local(t), NEW p \in Procs, p = ProcOf[t], Holders(p),
         drv' = drv, own' = own,
         pc'[t] \in Holding => pc[t] \in Holding /\ hd'[t] = hd[t],
         pc'[t] \in Dropping => pc[t] \in Dropping /\ hd'[t] = hd[t]
  PROVE  Holders(p)'
<1>1. \A u \in Threads :
        /\ pc'[u] \in Holding => pc[u] \in Holding /\ hd'[u] = hd[u]
        /\ pc'[u] \in Dropping => pc[u] \in Dropping /\ hd'[u] = hd[u]
  BY DEF Local
<1>2. drv'[p] = drv[p] /\ own'[p] = own[p]
  OBVIOUS
<1> QED
  BY <1>1, <1>2 DEF Holders

(* Every handle has one holder at most. *)
LEMMA OwnHolders ==
  ASSUME Shape, NEW t \in Threads, NEW p \in Procs, p = ProcOf[t], ProcInv(p),
         allocate(t) \/ deallocate(t)
  PROVE  Holders(p)'
<1>0. /\ Functions /\ Local(t) /\ ListTypes(p) /\ Holders(p) /\ pc \in [Threads -> PC]
      /\ "idle" \notin Holding \cup Dropping /\ "pre" \notin Holding \cup Dropping
      /\ "driver" \notin Holding \cup Dropping /\ "drop" \notin Holding /\ Dropping \cap Holding = {}
  BY LocalStep DEF Shape, Running, ProcInv, Holding, Dropping
<1>u. \A u \in Threads \ {t} : pc'[u] = pc[u] /\ hd'[u] = hd[u]
  BY <1>0 DEF Local
<1>d. /\ drv[p] \in [Handles -> Nat] /\ own[p] \subseteq Handles \X Calls
      /\ drv = [q \in Procs |-> drv[q]] /\ own = [q \in Procs |-> own[q]] /\ hd = [u \in Threads |-> hd[u]]
  BY <1>0 DEF ListTypes, Functions
<1>a. ASSUME pc[t] \in Holding, pc'[t] = "idle", drv' = drv,
             own' = own \/ own' = [own EXCEPT ![p] = @ \cup {<<hd[t], req[t].call>>}]
      PROVE  Holders(p)'
  <2>1. \A u \in Threads :
          /\ pc'[u] \in Holding => u # t /\ pc[u] \in Holding /\ hd'[u] = hd[u]
          /\ pc'[u] \in Dropping => u # t /\ pc[u] \in Dropping /\ hd'[u] = hd[u]
    BY <1>0, <1>a, <1>u
  <2>2. own'[p] \subseteq own[p] \cup {<<hd[t], req[t].call>>} /\ drv'[p] = drv[p]
    BY <1>d, <1>a
  <2>3. \A u \in Threads : ProcOf[u] = p /\ pc'[u] \in Holding => hd[u] # hd[t]
    BY <1>0, <1>a, <2>1 DEF Holders
  <2>4. drv[p][hd[t]] # 0 /\ \A o \in own[p] : hd[t] # o[1]
    BY <1>0, <1>a DEF Holders
  <2>5. ASSUME NEW o \in own'[p]
        PROVE  /\ drv'[p][o[1]] # 0
               /\ \A u \in Threads : ProcOf[u] = p /\ pc'[u] \in Holding => hd'[u] # o[1]
               /\ \A r \in own'[p] : o[1] = r[1] => o = r
    <3>1. CASE o \in own[p]
      BY <1>0, <2>1, <2>2, <2>4, <3>1 DEF Holders
    <3>2. CASE o = <<hd[t], req[t].call>>
      <4>1. o[1] = hd[t]
        BY <3>2
      <4>2. \A r \in own'[p] : r = o \/ r \in own[p]
        BY <2>2, <3>2
      <4> QED
        BY <2>1, <2>2, <2>3, <2>4, <4>1, <4>2
    <3> QED
      BY <2>2, <3>1, <3>2
  <2>6. /\ \A u \in Threads : ProcOf[u] = p /\ pc'[u] \in Holding \cup Dropping => hd'[u] \in Handles
        /\ \A u \in Threads : ProcOf[u] = p /\ pc'[u] \in Holding => drv'[p][hd'[u]] # 0
        /\ \A u, v \in Threads :
             ProcOf[u] = p /\ pc'[u] \in Holding /\ ProcOf[v] = p /\ pc'[v] \in Holding /\ hd'[u] = hd'[v] => u = v
    BY <1>0, <2>1, <2>2 DEF Holders
  <2> QED
    BY <2>5, <2>6 DEF Holders
<1>b. ASSUME pc[t] \in Holding, pc'[t] = "idle", drv' = [drv EXCEPT ![p][hd[t]] = 0], own' = own
      PROVE  Holders(p)'
  <2>1. \A u \in Threads :
          /\ pc'[u] \in Holding => u # t /\ pc[u] \in Holding /\ hd'[u] = hd[u]
          /\ pc'[u] \in Dropping => u # t /\ pc[u] \in Dropping /\ hd'[u] = hd[u]
    BY <1>0, <1>b, <1>u
  <2>2. hd[t] \in Handles /\ own'[p] = own[p] /\ \A h \in Handles \ {hd[t]} : drv'[p][h] = drv[p][h]
    BY <1>0, <1>b, <1>d DEF Holders
  <2>3. /\ \A u \in Threads : ProcOf[u] = p /\ pc'[u] \in Holding => hd[u] # hd[t] /\ hd[u] \in Handles
        /\ \A o \in own[p] : hd[t] # o[1] /\ o[1] \in Handles
    BY <1>0, <1>b, <1>d, <2>1 DEF Holders
  <2> QED
    BY <1>0, <2>1, <2>2, <2>3 DEF Holders
<1>1. CASE alloc_call(t)
  BY <1>1, <1>0, HoldersQuiet DEF alloc_call, Goto, StartCheck, Functions, PC, Holding, Dropping
<1>2. CASE read_slot(t)
  BY <1>2, <1>0, HoldersQuiet DEF read_slot, Functions, PC, Holding, Dropping
<1>3. CASE clear_and_retry(t)
  BY <1>3, <1>0, HoldersQuiet DEF clear_and_retry, StartCheck, Functions, PC, Holding, Dropping
<1>4. CASE pre_check_fails(t)
  BY <1>4, <1>0, HoldersQuiet DEF pre_check_fails, Return, Functions, PC, Holding, Dropping
<1>5. CASE pre_check_passes(t)
  BY <1>5, <1>0, HoldersQuiet DEF pre_check_passes, Goto, Functions, PC, Holding, Dropping
<1>6. CASE driver_alloc(t)
  <2>1. PICK h \in Handles : /\ drv[p][h] = 0 /\ drv' = [drv EXCEPT ![p][h] = req[t].size]
                             /\ hd' = [hd EXCEPT ![t] = h]
    BY <1>6 DEF driver_alloc
  <2>2. own' = own /\ pc' = [pc EXCEPT ![t] = "lock"] /\ pc[t] = "driver"
    BY <1>6 DEF driver_alloc, Goto
  <2>3. hd'[t] = h /\ pc'[t] = "lock" /\ own'[p] = own[p]
    BY <1>0, <1>d, <2>1, <2>2
  <2>4. req[t].size # 0
    <3>1. req[t].size \in Sizes
      BY <1>0 DEF ListTypes, Requests
    <3> QED
      BY <3>1, AllocatorAssumption DEF AllocatorAssumption
  <2>5. drv'[p][h] # 0 /\ \A g \in Handles \ {h} : drv'[p][g] = drv[p][g]
    BY <1>d, <2>1, <2>4
  <2>6. \A u \in Threads \ {t} : ProcOf[u] = p /\ pc[u] \in Holding => hd[u] \in Handles \ {h}
    BY <1>0, <2>1 DEF Holders
  <2>7. \A o \in own[p] : o[1] \in Handles \ {h}
    BY <1>0, <1>d, <2>1 DEF Holders
  <2>8. \A u \in Threads : ProcOf[u] = p /\ pc'[u] \in Holding \cup Dropping => hd'[u] \in Handles
    BY <1>0, <1>u, <2>3 DEF Holders
  <2>9. \A u \in Threads : ProcOf[u] = p /\ pc'[u] \in Holding => drv'[p][hd'[u]] # 0
    BY <1>0, <1>u, <2>3, <2>5, <2>6 DEF Holders
  <2>10. \A u, v \in Threads :
           ProcOf[u] = p /\ pc'[u] \in Holding /\ ProcOf[v] = p /\ pc'[v] \in Holding /\ hd'[u] = hd'[v] => u = v
    BY <1>0, <1>u, <2>3, <2>6 DEF Holders
  <2>11. \A o \in own'[p] :
           /\ drv'[p][o[1]] # 0
           /\ \A u \in Threads : ProcOf[u] = p /\ pc'[u] \in Holding => hd'[u] # o[1]
           /\ \A r \in own'[p] : o[1] = r[1] => o = r
    BY <1>0, <1>u, <2>3, <2>5, <2>7 DEF Holders
  <2> QED
    BY <2>8, <2>9, <2>10, <2>11 DEF Holders
<1>7. CASE driver_alloc_fails(t)
  BY <1>7, <1>0, HoldersQuiet DEF driver_alloc_fails, Return, Functions, PC, Holding, Dropping
<1>8. CASE alloc_lock(t)
  BY <1>8, <1>0, HoldersQuiet DEF alloc_lock, Goto, StartCheck, Functions, PC, Holding, Dropping
<1>9. CASE post_check_undoes(t)
  BY <1>9, <1>0, HoldersQuiet DEF post_check_undoes, Goto, Functions, PC, Holding, Dropping
<1>10. CASE undo(t)
  BY <1>10, <1>0, <1>b DEF undo, Return, Holding
<1>11. CASE post_check_ignored(t)
  BY <1>11, <1>0, <1>a DEF post_check_ignored, Return, Holding
<1>12. CASE post_check_passes(t)
  BY <1>12, <1>0, HoldersQuiet DEF post_check_passes, Goto, Functions, PC, Holding, Dropping
<1>13. CASE entry_fails(t)
  <2>1. own' = own \/ own' = [own EXCEPT ![p] = @ \cup {<<hd[t], req[t].call>>}]
    BY <1>13 DEF entry_fails
  <2>2. pc[t] \in Holding /\ pc'[t] = "idle" /\ drv' = drv
    BY <1>13, <1>0 DEF entry_fails, Return, Holding
  <2> QED
    BY <1>a, <2>1, <2>2
<1>14. CASE list_add(t)
  BY <1>14, <1>0, HoldersQuiet DEF list_add, Goto, Functions, PC, Holding, Dropping
<1>15. CASE account(t)
  BY <1>15, <1>0, <1>a DEF account, Return, Holding
<1>16. CASE free_call(t)
  <2>1. PICK o \in own[p] : /\ own' = [own EXCEPT ![p] = @ \ {o}]
                            /\ \/ pc' = pc /\ hd' = hd
                               \/ pc' = [pc EXCEPT ![t] = "unlist"] /\ hd' = [hd EXCEPT ![t] = o[1]]
    BY <1>16, Zenon DEF free_call
  <2>2. drv' = drv /\ pc[t] = "idle" /\ own'[p] = own[p] \ {o} /\ o[1] \in Handles
    BY <1>16, <1>d, <2>1 DEF free_call
  <2>3. pc'[t] \in Holding \cup Dropping => hd'[t] = o[1] /\ pc'[t] \in Holding
    BY <1>0, <1>d, <2>1, <2>2 DEF Holding, Dropping
  <2>4. /\ drv[p][o[1]] # 0
        /\ \A u \in Threads : ProcOf[u] = p /\ pc[u] \in Holding => hd[u] # o[1]
        /\ \A r \in own'[p] : o[1] # r[1]
    BY <1>0, <2>2 DEF Holders
  <2>5. /\ \A u \in Threads : ProcOf[u] = p /\ pc'[u] \in Holding \cup Dropping => hd'[u] \in Handles
        /\ \A u \in Threads : ProcOf[u] = p /\ pc'[u] \in Holding => drv'[p][hd'[u]] # 0
    BY <1>0, <1>u, <2>2, <2>3, <2>4 DEF Holders
  <2>6. \A u, v \in Threads :
          ProcOf[u] = p /\ pc'[u] \in Holding /\ ProcOf[v] = p /\ pc'[v] \in Holding /\ hd'[u] = hd'[v] => u = v
    BY <1>0, <1>u, <2>3, <2>4 DEF Holders
  <2>7. \A r \in own'[p] :
          /\ drv'[p][r[1]] # 0
          /\ \A u \in Threads : ProcOf[u] = p /\ pc'[u] \in Holding => hd'[u] # r[1]
          /\ \A s \in own'[p] : r[1] = s[1] => r = s
    BY <1>0, <1>u, <2>2, <2>3, <2>4 DEF Holders
  <2> QED
    BY <2>5, <2>6, <2>7 DEF Holders
<1>17. CASE remove_chunk(t)
  BY <1>17, <1>0, HoldersQuiet DEF remove_chunk, Goto, Functions, PC, Holding, Dropping
<1>18. CASE remove_chunk_unknown(t)
  BY <1>18, <1>0, HoldersQuiet DEF remove_chunk_unknown, Return, Functions, PC, Holding, Dropping
<1>19. CASE settle(t)
  BY <1>19, <1>0, HoldersQuiet DEF settle, Goto, Functions, PC, Holding, Dropping
<1>20. CASE driver_free(t)
  BY <1>20, <1>0, <1>b DEF driver_free, Return, Holding
<1>21. CASE release_call(t)
  <2>1. PICK o \in own[p] : /\ own' = [own EXCEPT ![p] = @ \ {o}]
                            /\ drv' = [drv EXCEPT ![p][o[1]] = 0]
                            /\ hd' = [hd EXCEPT ![t] = o[1]]
    BY <1>21, Zenon DEF release_call
  <2>2. pc'[t] = "drop" /\ hd'[t] = o[1] /\ own'[p] = own[p] \ {o} /\ o[1] \in Handles
    BY <1>21, <1>0, <1>d, <2>1 DEF release_call, Goto
  <2>3. \A g \in Handles \ {o[1]} : drv'[p][g] = drv[p][g]
    BY <1>d, <2>1
  <2>4. /\ \A u \in Threads : ProcOf[u] = p /\ pc[u] \in Holding => hd[u] # o[1] /\ hd[u] \in Handles
        /\ \A r \in own'[p] : o[1] # r[1] /\ r[1] \in Handles
    BY <1>0, <1>d, <2>2 DEF Holders
  <2>5. /\ \A u \in Threads : ProcOf[u] = p /\ pc'[u] \in Holding \cup Dropping => hd'[u] \in Handles
        /\ \A u \in Threads : ProcOf[u] = p /\ pc'[u] \in Holding => drv'[p][hd'[u]] # 0
    BY <1>0, <1>u, <2>2, <2>3, <2>4 DEF Holders
  <2>6. \A u, v \in Threads :
          ProcOf[u] = p /\ pc'[u] \in Holding /\ ProcOf[v] = p /\ pc'[v] \in Holding /\ hd'[u] = hd'[v] => u = v
    BY <1>0, <1>u, <2>2, <2>4 DEF Holders
  <2>7. \A r \in own'[p] :
          /\ drv'[p][r[1]] # 0
          /\ \A u \in Threads : ProcOf[u] = p /\ pc'[u] \in Holding => hd'[u] # r[1]
          /\ \A s \in own'[p] : r[1] = s[1] => r = s
    BY <1>0, <1>u, <2>2, <2>3, <2>4 DEF Holders
  <2> QED
    BY <2>5, <2>6, <2>7 DEF Holders
<1>22. CASE remove_chunk_only(t)
  BY <1>22, <1>0, HoldersQuiet DEF remove_chunk_only, Goto, Functions, PC, Holding, Dropping
<1>23. CASE unlink(t)
  BY <1>23, <1>0, HoldersQuiet DEF unlink, Goto, Functions, PC, Holding, Dropping
<1>24. CASE remove_chunk_only_unknown(t)
  BY <1>24, <1>0, HoldersQuiet DEF remove_chunk_only_unknown, Return, Functions, PC, Holding, Dropping
<1>25. CASE deduct(t)
  BY <1>25, <1>0, HoldersQuiet DEF deduct, Return, Functions, PC, Holding, Dropping
<1> QED
  BY <1>1, <1>2, <1>3, <1>4, <1>5, <1>6, <1>7, <1>8, <1>9, <1>10, <1>11, <1>12,
     <1>13, <1>14, <1>15, <1>16, <1>17, <1>18, <1>19, <1>20, <1>21, <1>22, <1>23,
     <1>24, <1>25
  DEF allocate, deallocate

(* A weight is a number. *)
LEMMA WeightNat ==
  ASSUME NEW l \in Seq(Entry), NEW f \in [Entry -> Nat]
  PROVE  Weight(l, f) \in Nat
<1>1. IsFiniteSet(DOMAIN l)
  BY FS_Interval
<1>2. [i \in DOMAIN l |-> f[l[i]]] \in [DOMAIN l -> Nat]
  OBVIOUS
<1> QED
  BY <1>1, <1>2, SumNat DEF Weight

(* The list goes on covering its claims if the weight of each handle that is *)
(* tracked grows at least as its claims do.                                  *)
LEMMA CoveredStep ==
  ASSUME NEW t \in Threads, Local(t), NEW p \in Procs, ListTypes(p), ListTypes(p)', Covered(p),
         lost[p] \subseteq lost'[p],
         \A h \in Handles \ lost'[p] :
           DropOf(t, p, h)' - DropOf(t, p, h) + (IF Settled(p, h)' THEN 1 ELSE 0) - (IF Settled(p, h) THEN 1 ELSE 0)
             <= Weight(list'[p], OfHandle(h)) - Weight(list[p], OfHandle(h))
  PROVE  Covered(p)'
<1> SUFFICES ASSUME NEW h \in Handles \ lost'[p]
             PROVE  Drops(p, h)' + (IF Settled(p, h)' THEN 1 ELSE 0) <= Weight(list'[p], OfHandle(h))
  BY DEF Covered
<1> DEFINE s == IF Settled(p, h) THEN 1 ELSE 0
           z == IF Settled(p, h)' THEN 1 ELSE 0
           a == DropOf(t, p, h)
           b == DropOf(t, p, h)'
           v == Weight(list[p], OfHandle(h))
           w == Weight(list'[p], OfHandle(h))
<1>1. Drops(p, h)' = Drops(p, h) - a + b /\ Drops(p, h) \in Nat
  BY HandSums
<1>2. v \in Nat /\ w \in Nat
  BY WeightNat, WeightTypes DEF ListTypes
<1>3. a \in Nat /\ b \in Nat /\ s \in Nat /\ z \in Nat
  BY DEF DropOf
<1>4. Drops(p, h) + s <= v
  BY DEF Covered
<1>5. b - a + z - s <= w - v
  OBVIOUS
<1> HIDE DEF s, z, a, b, v, w
<1>6. Drops(p, h)' + z <= w
  BY <1>1, <1>2, <1>3, <1>4, <1>5
<1> QED
  BY <1>6 DEF z, w

(* A step that takes no memory from the driver and stays where it is about    *)
(* the list, or gives up on the handle, claims no entry.                     *)
LEMMA CoveredQuiet ==
  ASSUME NEW t \in Threads, Local(t), NEW p \in Procs, p = ProcOf[t], ListTypes(p), ListTypes(p)', Covered(p),
         lost[p] \subseteq lost'[p], list'[p] = list[p], drv'[p] = drv[p],
         pc[t] \in Untracked => (pc'[t] \in Untracked /\ hd'[t] = hd[t]) \/ hd[t] \in lost'[p],
         pc'[t] \in {"drop", "unlink"} => pc[t] \in {"drop", "unlink"} /\ hd'[t] = hd[t]
  PROVE  Covered(p)'
<1>1. ASSUME NEW h \in Handles \ lost'[p]
      PROVE  DropOf(t, p, h)' - DropOf(t, p, h) + (IF Settled(p, h)' THEN 1 ELSE 0) - (IF Settled(p, h) THEN 1 ELSE 0)
               <= Weight(list'[p], OfHandle(h)) - Weight(list[p], OfHandle(h))
  <2>1. Settled(p, h)' => Settled(p, h)
    <3>1. \A u \in Threads \ {t} : pc'[u] = pc[u] /\ hd'[u] = hd[u]
      BY DEF Local
    <3> QED
      BY <3>1 DEF Settled
  <2>2. DropOf(t, p, h)' <= DropOf(t, p, h) /\ DropOf(t, p, h) \in Nat /\ DropOf(t, p, h)' \in Nat
    BY DEF DropOf
  <2>3. Weight(list'[p], OfHandle(h)) - Weight(list[p], OfHandle(h)) = 0
    <3>1. Weight(list[p], OfHandle(h)) \in Nat
      BY WeightNat, WeightTypes DEF ListTypes
    <3> QED
      BY <3>1
  <2> QED
    BY <2>1, <2>2, <2>3
<1> QED
  BY <1>1, CoveredStep

(* The list has an entry for everything that the driver has given out. *)
LEMMA OwnCovered ==
  ASSUME Shape, NEW t \in Threads, NEW p \in Procs, p = ProcOf[t], ProcInv(p), ~raced'[p],
         allocate(t) \/ deallocate(t)
  PROVE  Covered(p)'
<1>0. /\ Functions /\ Local(t) /\ ListTypes(p) /\ Holders(p) /\ Covered(p) /\ pc \in [Threads -> PC]
      /\ ListTypes(p)'
  BY LocalStep, OwnTypes DEF Shape, Running, ProcInv
<1>u. \A u \in Threads \ {t} : pc'[u] = pc[u] /\ hd'[u] = hd[u]
  BY <1>0 DEF Local
<1>d. /\ drv[p] \in [Handles -> Nat] /\ own[p] \subseteq Handles \X Calls
      /\ drv = [q \in Procs |-> drv[q]] /\ hd = [u \in Threads |-> hd[u]] /\ lost = [q \in Procs |-> lost[q]]
  BY <1>0 DEF ListTypes, Functions
<1>w. \A h \in Handles : Weight(list[p], OfHandle(h)) \in Nat /\ Weight(list'[p], OfHandle(h)) \in Nat
  BY <1>0, WeightNat, WeightTypes DEF ListTypes
<1>c. ASSUME NEW g \in Handles, lost' = lost,
             \A h \in Handles \ {g} : /\ Weight(list'[p], OfHandle(h)) = Weight(list[p], OfHandle(h))
                                      /\ DropOf(t, p, h)' = 0 /\ DropOf(t, p, h) = 0
                                      /\ Settled(p, h)' => Settled(p, h),
             DropOf(t, p, g)' - DropOf(t, p, g) + (IF Settled(p, g)' THEN 1 ELSE 0) - (IF Settled(p, g) THEN 1 ELSE 0)
               <= Weight(list'[p], OfHandle(g)) - Weight(list[p], OfHandle(g))
      PROVE  Covered(p)'
  <2>1. ASSUME NEW h \in Handles \ lost'[p]
        PROVE  DropOf(t, p, h)' - DropOf(t, p, h) + (IF Settled(p, h)' THEN 1 ELSE 0) - (IF Settled(p, h) THEN 1 ELSE 0)
                 <= Weight(list'[p], OfHandle(h)) - Weight(list[p], OfHandle(h))
    <3>1. CASE h = g
      BY <1>c, <3>1
    <3>2. CASE h # g
      BY <1>c, <1>w, <3>2
    <3> QED
      BY <3>1, <3>2
  <2> QED
    BY <1>0, <1>c, <2>1, CoveredStep
<1>r. ASSUME NEW g \in Handles, NEW i \in 1 .. Len(list[p]), list[p][i].h = g
      PROVE  /\ Weight(Without(list[p], i), OfHandle(g)) = Weight(list[p], OfHandle(g)) - 1
             /\ \A h \in Handles \ {g} : Weight(Without(list[p], i), OfHandle(h)) = Weight(list[p], OfHandle(h))
  <2>1. list[p] \in Seq(Entry) /\ list[p][i] \in Entry
    BY <1>0 DEF ListTypes
  <2>2. \A h \in Handles : /\ Weight(Without(list[p], i), OfHandle(h)) = Weight(list[p], OfHandle(h)) - OfHandle(h)[list[p][i]]
                           /\ Weight(list[p], OfHandle(h)) \in Nat
    BY <2>1, WeightRemove, WeightTypes
  <2>3. \A h \in Handles : OfHandle(h)[list[p][i]] = IF h = g THEN 1 ELSE 0
    BY <1>r, <2>1 DEF OfHandle
  <2> QED
    BY <2>2, <2>3
<1>1. CASE alloc_call(t)
  BY <1>1, <1>0, CoveredQuiet DEF alloc_call, Goto, StartCheck, Functions, Untracked, PC
<1>2. CASE read_slot(t)
  BY <1>2, <1>0, CoveredQuiet DEF read_slot, Functions, Untracked, PC
<1>3. CASE clear_and_retry(t)
  BY <1>3, <1>0, CoveredQuiet DEF clear_and_retry, StartCheck, Functions, Untracked, PC
<1>4. CASE pre_check_fails(t)
  BY <1>4, <1>0, CoveredQuiet DEF pre_check_fails, Return, Functions, Untracked, PC
<1>5. CASE pre_check_passes(t)
  BY <1>5, <1>0, CoveredQuiet DEF pre_check_passes, Goto, Functions, Untracked, PC
<1>6. CASE driver_alloc(t)
  <2>1. PICK g \in Handles : /\ drv[p][g] = 0 /\ drv' = [drv EXCEPT ![p][g] = req[t].size]
                             /\ hd' = [hd EXCEPT ![t] = g]
    BY <1>6 DEF driver_alloc
  <2>2. lost' = lost /\ list' = list /\ pc' = [pc EXCEPT ![t] = "lock"] /\ pc[t] = "driver"
    BY <1>6 DEF driver_alloc, Goto
  <2>3. hd'[t] = g /\ pc'[t] = "lock" /\ \A h \in Handles \ {g} : drv'[p][h] = drv[p][h]
    BY <1>0, <1>d, <2>1, <2>2
  <2>4. ~Settled(p, g)' /\ ~Settled(p, g)
    BY <2>1, <2>3 DEF Settled, Untracked
  <2>5. \A h \in Handles \ {g} : Settled(p, h)' => Settled(p, h)
    BY <1>u, <2>2, <2>3 DEF Settled, Untracked
  <2>6. \A h \in Handles : DropOf(t, p, h)' = 0 /\ DropOf(t, p, h) = 0
    BY <2>2, <2>3 DEF DropOf
  <2>7. \A h \in Handles : Weight(list'[p], OfHandle(h)) = Weight(list[p], OfHandle(h))
    BY <2>2
  <2> QED
    BY <1>c, <1>w, <2>2, <2>4, <2>5, <2>6, <2>7
<1>7. CASE driver_alloc_fails(t)
  BY <1>7, <1>0, CoveredQuiet DEF driver_alloc_fails, Return, Functions, Untracked, PC
<1>8. CASE alloc_lock(t)
  BY <1>8, <1>0, CoveredQuiet DEF alloc_lock, Goto, StartCheck, Functions, Untracked, PC
<1>9. CASE post_check_undoes(t)
  BY <1>9, <1>0, CoveredQuiet DEF post_check_undoes, Goto, Functions, Untracked, PC
<1>10. CASE undo(t)
  <2> PICK g : g = hd[t]
    OBVIOUS
  <2>1. /\ lost' = lost /\ list' = list /\ drv' = [drv EXCEPT ![p][g] = 0]
        /\ pc[t] \in Untracked /\ pc[t] \in Holding /\ pc[t] \notin {"drop", "unlink"} /\ pc'[t] = "idle"
    BY <1>10, <1>0 DEF undo, Return, Untracked, Holding
  <2>2. g \in Handles
    BY <1>0, <2>1 DEF Holders
  <2>3. drv'[p][g] = 0 /\ \A h \in Handles \ {g} : drv'[p][h] = drv[p][h]
    BY <1>d, <2>1, <2>2
  <2>4. ~Settled(p, g)' /\ ~Settled(p, g)
    BY <2>1, <2>3 DEF Settled
  <2>5. \A h \in Handles \ {g} : Settled(p, h)' => Settled(p, h)
    BY <1>u, <2>3 DEF Settled
  <2>6. \A h \in Handles : DropOf(t, p, h)' = 0 /\ DropOf(t, p, h) = 0
    BY <2>1 DEF DropOf
  <2>7. \A h \in Handles : Weight(list'[p], OfHandle(h)) = Weight(list[p], OfHandle(h))
    BY <2>1
  <2> QED
    BY <1>c, <1>w, <2>1, <2>2, <2>4, <2>5, <2>6, <2>7
<1>11. CASE post_check_ignored(t)
  <2>1. /\ lost' = [lost EXCEPT ![p] = @ \cup {hd[t]}] /\ list' = list /\ drv' = drv
        /\ pc' = [pc EXCEPT ![t] = "idle"]
    BY <1>11 DEF post_check_ignored, Return
  <2>2. lost[p] \subseteq lost'[p] /\ hd[t] \in lost'[p] /\ pc'[t] = "idle"
    BY <1>0, <1>d, <2>1
  <2> QED
    BY <1>0, <2>1, <2>2, CoveredQuiet
<1>12. CASE post_check_passes(t)
  BY <1>12, <1>0, CoveredQuiet DEF post_check_passes, Goto, Functions, Untracked, PC
<1>13. CASE entry_fails(t)
  <2>1. /\ lost' = [lost EXCEPT ![p] = @ \cup {hd[t]}] /\ list' = list /\ drv' = drv
        /\ pc' = [pc EXCEPT ![t] = "idle"]
    BY <1>13 DEF entry_fails, Return
  <2>2. lost[p] \subseteq lost'[p] /\ hd[t] \in lost'[p] /\ pc'[t] = "idle"
    BY <1>0, <1>d, <2>1
  <2> QED
    BY <1>0, <2>1, <2>2, CoveredQuiet
<1>14. CASE list_add(t)
  <2> PICK g : g = hd[t]
    OBVIOUS
  <2> DEFINE x == [h |-> g, len |-> req[t].size, dev |-> req[t].dev]
  <2>1. /\ lost' = lost /\ drv' = drv /\ hd' = hd /\ pc[t] = "entry" /\ pc'[t] = "account"
        /\ SetList(t, Append(list[p], x))
    BY <1>14, <1>0 DEF list_add, Goto
  <2>2. g \in Handles /\ drv[p][g] # 0
    BY <1>0, <2>1 DEF Holders, Holding
  <2>3. x \in Entry
    BY <1>0, <2>2 DEF ListTypes, Requests, Entry
  <2>4. list'[p] = Append(list[p], x)
    BY <1>0, <2>1, SetListIs
  <2>5. \A h \in Handles : OfHandle(h)[x] = IF h = g THEN 1 ELSE 0
    BY <2>3 DEF OfHandle
  <2>6. \A h \in Handles : Weight(list'[p], OfHandle(h)) = Weight(list[p], OfHandle(h)) + OfHandle(h)[x]
    <3> HIDE DEF x
    <3> QED
      BY <1>0, <2>3, <2>4, WeightAppend, WeightTypes DEF ListTypes
  <2>7. ~Settled(p, g)
    BY <2>1 DEF Settled, Untracked
  <2>8. \A h \in Handles \ {g} : Settled(p, h)' => Settled(p, h)
    BY <1>u, <2>1 DEF Settled
  <2>9. \A h \in Handles : DropOf(t, p, h)' = 0 /\ DropOf(t, p, h) = 0
    BY <2>1 DEF DropOf
  <2> QED
    BY <1>c, <1>w, <2>1, <2>2, <2>5, <2>6, <2>7, <2>8, <2>9
<1>15. CASE account(t)
  BY <1>15, <1>0, CoveredQuiet DEF account, Return, Functions, Untracked, PC
<1>16. CASE free_call(t)
  BY <1>16, <1>0, CoveredQuiet DEF free_call, Functions, Untracked, PC
<1>17. CASE remove_chunk(t)
  <2> PICK g : g = hd[t]
    OBVIOUS
  <2> PICK i : i = Find(list[p], g)
    OBVIOUS
  <2>1. /\ lost' = lost /\ drv' = drv /\ hd' = hd /\ pc[t] = "unlist" /\ pc'[t] = "settle"
        /\ i # 0 /\ SetList(t, Without(list[p], i))
    BY <1>17, <1>0 DEF remove_chunk, Goto
  <2>2. g \in Handles /\ drv[p][g] # 0 /\ \A u \in Threads \ {t} : ProcOf[u] = p /\ pc[u] \in Holding => hd[u] # g
    BY <1>0, <2>1 DEF Holders, Holding
  <2>3. i \in 1 .. Len(list[p]) /\ list[p][i].h = g
    BY <1>0, <2>1, <2>2, FindIs DEF ListTypes
  <2>4. list'[p] = Without(list[p], i)
    BY <1>0, <2>1, SetListIs
  <2>5. Settled(p, g) /\ ~Settled(p, g)'
    BY <2>1, <2>2 DEF Settled, Untracked, Holding
  <2>6. \A h \in Handles \ {g} : Settled(p, h)' => Settled(p, h)
    BY <1>u, <2>1 DEF Settled
  <2>7. \A h \in Handles : DropOf(t, p, h)' = 0 /\ DropOf(t, p, h) = 0
    BY <2>1 DEF DropOf
  <2> QED
    BY <1>c, <1>r, <1>w, <2>1, <2>2, <2>3, <2>4, <2>5, <2>6, <2>7
<1>18. CASE remove_chunk_unknown(t)
  BY <1>18, <1>0, CoveredQuiet DEF remove_chunk_unknown, Return, Functions, Untracked, PC
<1>19. CASE settle(t)
  BY <1>19, <1>0, CoveredQuiet DEF settle, Goto, Functions, Untracked, PC
<1>20. CASE driver_free(t)
  <2> PICK g : g = hd[t]
    OBVIOUS
  <2>1. /\ lost' = lost /\ list' = list /\ drv' = [drv EXCEPT ![p][g] = 0]
        /\ pc[t] \in Untracked /\ pc[t] \in Holding /\ pc[t] \notin {"drop", "unlink"} /\ pc'[t] = "idle"
    BY <1>20, <1>0 DEF driver_free, Return, Untracked, Holding
  <2>2. g \in Handles
    BY <1>0, <2>1 DEF Holders
  <2>3. drv'[p][g] = 0 /\ \A h \in Handles \ {g} : drv'[p][h] = drv[p][h]
    BY <1>d, <2>1, <2>2
  <2>4. ~Settled(p, g)' /\ ~Settled(p, g)
    BY <2>1, <2>3 DEF Settled
  <2>5. \A h \in Handles \ {g} : Settled(p, h)' => Settled(p, h)
    BY <1>u, <2>3 DEF Settled
  <2>6. \A h \in Handles : DropOf(t, p, h)' = 0 /\ DropOf(t, p, h) = 0
    BY <2>1 DEF DropOf
  <2>7. \A h \in Handles : Weight(list'[p], OfHandle(h)) = Weight(list[p], OfHandle(h))
    BY <2>1
  <2> QED
    BY <1>c, <1>w, <2>1, <2>2, <2>4, <2>5, <2>6, <2>7
<1>21. CASE release_call(t)
  <2>1. PICK o \in own[p] : drv' = [drv EXCEPT ![p][o[1]] = 0] /\ hd' = [hd EXCEPT ![t] = o[1]]
    BY <1>21, Zenon DEF release_call
  <2> PICK g : g = o[1]
    OBVIOUS
  <2>2. lost' = lost /\ list' = list /\ pc[t] = "idle" /\ pc'[t] = "drop" /\ hd'[t] = g /\ g \in Handles
    BY <1>21, <1>0, <1>d, <2>1 DEF release_call, Goto
  <2>3. drv'[p][g] = 0 /\ \A h \in Handles \ {g} : drv'[p][h] = drv[p][h]
    BY <1>d, <2>1, <2>2
  <2>4. drv[p][g] # 0 /\ \A u \in Threads : ProcOf[u] = p /\ pc[u] \in Holding => hd[u] # g
    BY <1>0 DEF Holders
  <2>5. Settled(p, g) /\ ~Settled(p, g)'
    BY <2>3, <2>4 DEF Settled, Untracked, Holding
  <2>6. \A h \in Handles \ {g} : Settled(p, h)' => Settled(p, h)
    BY <1>u, <2>2, <2>3 DEF Settled, Untracked
  <2>7. /\ \A h \in Handles \ {g} : DropOf(t, p, h)' = 0 /\ DropOf(t, p, h) = 0
        /\ DropOf(t, p, g)' = 1 /\ DropOf(t, p, g) = 0
    BY <2>2 DEF DropOf
  <2>8. \A h \in Handles : Weight(list'[p], OfHandle(h)) = Weight(list[p], OfHandle(h))
    BY <2>2
  <2> QED
    BY <1>c, <1>w, <2>2, <2>5, <2>6, <2>7, <2>8
<1>22. CASE remove_chunk_only(t)
  BY <1>22, <1>0, CoveredQuiet DEF remove_chunk_only, Goto, Functions, Untracked, PC
<1>23. CASE unlink(t)
  <2> PICK g : g = hd[t]
    OBVIOUS
  <2> PICK i : i = Find(list[p], g)
    OBVIOUS
  <2>1. /\ lost' = lost /\ drv' = drv /\ hd' = hd /\ pc[t] = "unlink" /\ pc'[t] = "deduct"
        /\ SetList(t, IF i = 0 THEN list[p] ELSE Without(list[p], i))
    BY <1>23, <1>0 DEF unlink, Goto
  <2>2. g \in Handles
    BY <1>0, <2>1 DEF Holders, Dropping
  <2>3. list'[p] = IF i = 0 THEN list[p] ELSE Without(list[p], i)
    BY <1>0, <2>1, SetListIs
  <2>4. i = 0 \/ (i \in 1 .. Len(list[p]) /\ list[p][i].h = g)
    BY <1>0, <2>2, FindIs DEF ListTypes
  <2>5. \A h \in Handles : Settled(p, h)' => Settled(p, h)
    BY <1>u, <2>1 DEF Settled, Untracked
  <2>6. /\ \A h \in Handles \ {g} : DropOf(t, p, h)' = 0 /\ DropOf(t, p, h) = 0
        /\ DropOf(t, p, g)' = 0 /\ DropOf(t, p, g) = 1
    BY <2>1 DEF DropOf
  <2>7. /\ \A h \in Handles \ {g} : Weight(list'[p], OfHandle(h)) = Weight(list[p], OfHandle(h))
        /\ Weight(list'[p], OfHandle(g)) - Weight(list[p], OfHandle(g)) >= 0 - 1
    BY <1>r, <1>w, <2>2, <2>3, <2>4
  <2>8. DropOf(t, p, g)' - DropOf(t, p, g) + (IF Settled(p, g)' THEN 1 ELSE 0) - (IF Settled(p, g) THEN 1 ELSE 0)
          <= Weight(list'[p], OfHandle(g)) - Weight(list[p], OfHandle(g))
    BY <1>w, <2>2, <2>5, <2>6, <2>7
  <2> QED
    BY <1>c, <2>1, <2>2, <2>5, <2>6, <2>7, <2>8
<1>24. CASE remove_chunk_only_unknown(t)
  BY <1>24, <1>0, CoveredQuiet DEF remove_chunk_only_unknown, Return, Functions, Untracked, PC
<1>25. CASE deduct(t)
  BY <1>25, <1>0, CoveredQuiet DEF deduct, Return, Functions, Untracked, PC
<1> QED
  BY <1>1, <1>2, <1>3, <1>4, <1>5, <1>6, <1>7, <1>8, <1>9, <1>10, <1>11, <1>12,
     <1>13, <1>14, <1>15, <1>16, <1>17, <1>18, <1>19, <1>20, <1>21, <1>22, <1>23,
     <1>24, <1>25
  DEF allocate, deallocate

(* The steps that lead to these places. *)
LEMMA Arrives ==
  ASSUME pc \in [Threads -> PC], NEW t \in Threads, allocate(t) \/ deallocate(t)
  PROVE  /\ pc'[t] = "unlink" => remove_chunk_only(t)
         /\ pc'[t] = "account" => list_add(t)
         /\ pc'[t] = "entry" => post_check_passes(t)
         /\ pc'[t] = "post" => alloc_lock(t) \/ read_slot(t) \/ clear_and_retry(t)
<1>1. CASE alloc_call(t)
  BY <1>1 DEF alloc_call, Goto
<1>2. CASE read_slot(t)
  BY <1>2 DEF read_slot
<1>3. CASE clear_and_retry(t)
  BY <1>3 DEF clear_and_retry
<1>4. CASE pre_check_fails(t)
  BY <1>4 DEF pre_check_fails, Return
<1>5. CASE pre_check_passes(t)
  BY <1>5 DEF pre_check_passes, Goto
<1>6. CASE driver_alloc(t)
  BY <1>6 DEF driver_alloc, Goto
<1>7. CASE driver_alloc_fails(t)
  BY <1>7 DEF driver_alloc_fails, Return
<1>8. CASE alloc_lock(t)
  BY <1>8 DEF alloc_lock, Goto
<1>9. CASE post_check_undoes(t)
  BY <1>9 DEF post_check_undoes, Goto
<1>10. CASE undo(t)
  BY <1>10 DEF undo, Return
<1>11. CASE post_check_ignored(t)
  BY <1>11 DEF post_check_ignored, Return
<1>12. CASE post_check_passes(t)
  BY <1>12 DEF post_check_passes, Goto
<1>13. CASE entry_fails(t)
  BY <1>13 DEF entry_fails, Return
<1>14. CASE list_add(t)
  BY <1>14 DEF list_add, Goto
<1>15. CASE account(t)
  BY <1>15 DEF account, Return
<1>16. CASE free_call(t)
  BY <1>16 DEF free_call
<1>17. CASE remove_chunk(t)
  BY <1>17 DEF remove_chunk, Goto
<1>18. CASE remove_chunk_unknown(t)
  BY <1>18 DEF remove_chunk_unknown, Return
<1>19. CASE settle(t)
  BY <1>19 DEF settle, Goto
<1>20. CASE driver_free(t)
  BY <1>20 DEF driver_free, Return
<1>21. CASE release_call(t)
  BY <1>21 DEF release_call, Goto
<1>22. CASE remove_chunk_only(t)
  BY <1>22 DEF remove_chunk_only, Goto
<1>23. CASE unlink(t)
  BY <1>23 DEF unlink, Goto
<1>24. CASE remove_chunk_only_unknown(t)
  BY <1>24 DEF remove_chunk_only_unknown, Return
<1>25. CASE deduct(t)
  BY <1>25 DEF deduct, Return
<1> QED
  BY <1>1, <1>2, <1>3, <1>4, <1>5, <1>6, <1>7, <1>8, <1>9, <1>10, <1>11, <1>12,
     <1>13, <1>14, <1>15, <1>16, <1>17, <1>18, <1>19, <1>20, <1>21, <1>22, <1>23,
     <1>24, <1>25
  DEF allocate, deallocate

(* What remove_chunk_only has found stays where it is: only a thread in a      *)
(* race changes the list then.                                               *)
LEMMA OwnRemembered ==
  ASSUME Shape, NEW t \in Threads, NEW p \in Procs, p = ProcOf[t], ProcInv(p), ~raced'[p],
         allocate(t) \/ deallocate(t)
  PROVE  Remembered(p)'
<1>0. Functions /\ Local(t) /\ Remembered(p) /\ pc \in [Threads -> PC]
  BY LocalStep DEF Shape, Running, ProcInv
<1>1. \A u \in Threads \ {t} : pc'[u] = pc[u] /\ hd'[u] = hd[u] /\ req'[u] = req[u]
  BY <1>0 DEF Local
<1>2. ASSUME NEW l, SetList(t, l), pc'[t] # "unlink"
      PROVE  Remembered(p)'
  <2>1. \A u \in Threads \ {t} : ProcOf[u] = p => pc[u] # "unlink"
    BY <1>0, <1>2, SetListIs
  <2> QED
    BY <1>1, <1>2, <2>1 DEF Remembered
<1>3. CASE list_add(t)
  BY <1>0, <1>2, <1>3 DEF list_add, Goto
<1>4. CASE remove_chunk(t)
  BY <1>0, <1>2, <1>4 DEF remove_chunk, Goto
<1>5. CASE unlink(t)
  BY <1>0, <1>2, <1>5 DEF unlink, Goto
<1>6. CASE remove_chunk_only(t)
  <2> PICK i : i = Find(list[p], hd[t])
    OBVIOUS
  <2> DEFINE r == [call |-> "create", dev |-> list[p][i].dev, size |-> list[p][i].len]
  <2>1. list' = list /\ hd' = hd /\ i # 0 /\ req' = [req EXCEPT ![t] = r]
    BY <1>6 DEF remove_chunk_only
  <2>2. req'[t].dev = list[p][i].dev /\ req'[t].size = list[p][i].len
    <3>1. req'[t] = r
      BY <1>0, <2>1 DEF Functions
    <3> QED
      BY <3>1
  <2>3. list'[p] = list[p] /\ hd'[t] = hd[t] /\ \A u \in Threads \ {t} : hd'[u] = hd[u]
    BY <2>1
  <2> HIDE DEF r
  <2> QED
    BY <1>0, <1>1, <2>1, <2>2, <2>3 DEF Remembered
<1>7. CASE list' = list /\ pc'[t] # "unlink"
  BY <1>0, <1>1, <1>7 DEF Remembered
<1>8. pc'[t] = "unlink" => remove_chunk_only(t)
  BY <1>0, Arrives
<1> QED
  BY <1>3, <1>4, <1>5, <1>6, <1>7, <1>8, Frame

(* The list's share of the total, as a weight. *)
LEMMA ListedIs ==
  ASSUME NEW l \in Seq(Entry), NEW e \in Devs
  PROVE  /\ SumOf([i \in DOMAIN l |-> IF Map[l[i].dev] = e THEN l[i].len ELSE 0]) = Weight(l, OnDev(e))
         /\ Weight(l, OnDev(e)) \in Nat
<1>1. \A i \in DOMAIN l : l[i] \in Entry
  OBVIOUS
<1>2. [i \in DOMAIN l |-> IF Map[l[i].dev] = e THEN l[i].len ELSE 0] = [i \in DOMAIN l |-> OnDev(e)[l[i]]]
  BY <1>1 DEF OnDev
<1> QED
  BY <1>2, WeightNat, WeightTypes DEF Weight

Leaving == {"settle", "deduct"}
Entering == {"account"}

(* What the total of NVML device e has to be, modulo the word. *)
Ledger(p, e) == Listed(p, e) + InHand(p, e, Leaving) - InHand(p, e, Entering)

(* By how much a step of t changes it. *)
Due(t, p, e) ==
  Weight(list'[p], OnDev(e)) - Weight(list[p], OnDev(e))
    + (HandOf(t, p, e, Leaving)' - HandOf(t, p, e, Leaving))
    - (HandOf(t, p, e, Entering)' - HandOf(t, p, e, Entering))

(* It does change by that. *)
LEMMA LedgerStep ==
  ASSUME NEW t \in Threads, Local(t), NEW p \in Procs, ListTypes(p), ListTypes(p)', NEW e \in Devs
  PROVE  /\ Ledger(p, e)' = Ledger(p, e) + Due(t, p, e)
         /\ Ledger(p, e) \in Int /\ Due(t, p, e) \in Int
<1> DEFINE v == Weight(list[p], OnDev(e))
           w == Weight(list'[p], OnDev(e))
           m == HandOf(t, p, e, Leaving)
           n == HandOf(t, p, e, Leaving)'
           x == HandOf(t, p, e, Entering)
           y == HandOf(t, p, e, Entering)'
<1>1. Listed(p, e) = v /\ Listed(p, e)' = w /\ v \in Nat /\ w \in Nat
  <2>1. list[p] \in Seq(Entry) /\ list'[p] \in Seq(Entry)
    BY DEF ListTypes
  <2> QED
    BY <2>1, ListedIs DEF Listed
<1>2. /\ InHand(p, e, Leaving)' = InHand(p, e, Leaving) - m + n
      /\ InHand(p, e, Leaving) \in Nat /\ InHand(p, e, Leaving)' \in Nat
      /\ InHand(p, e, Entering)' = InHand(p, e, Entering) - x + y
      /\ InHand(p, e, Entering) \in Nat /\ InHand(p, e, Entering)' \in Nat
  BY HandSums
<1>3. m \in Int /\ n \in Int /\ x \in Int /\ y \in Int
  <2>1. \A u \in Threads : ProcOf[u] = p => req[u].size \in Sizes /\ req'[u].size \in Sizes
    BY DEF ListTypes, Requests
  <2>2. Sizes \subseteq Int
    BY AllocatorAssumption DEF AllocatorAssumption
  <2>3. \A u \in Threads : ProcOf[u] = p => req[u].size \in Int /\ req'[u].size \in Int
    BY <2>1, <2>2
  <2>4. m \in Int
    BY <2>3 DEF HandOf
  <2>5. n \in Int
    BY <2>3 DEF HandOf
  <2>6. x \in Int
    BY <2>3 DEF HandOf
  <2>7. y \in Int
    BY <2>3 DEF HandOf
  <2> QED
    BY <2>4, <2>5, <2>6, <2>7
<1>4. Due(t, p, e) = w - v + (n - m) - (y - x)
  BY DEF Due
<1>5. /\ Ledger(p, e) = Listed(p, e) + InHand(p, e, Leaving) - InHand(p, e, Entering)
      /\ Ledger(p, e)' = Listed(p, e)' + InHand(p, e, Leaving)' - InHand(p, e, Entering)'
  BY DEF Ledger
<1> HIDE DEF m, n, x, y, v, w
<1> QED
  BY <1>1, <1>2, <1>3, <1>4, <1>5

(* The total stays right if it changes by as much, modulo the word. *)
LEMMA UsageStep ==
  ASSUME NEW t \in Threads, Local(t), NEW p \in Procs, ListTypes(p), ListTypes(p)', Usage(p),
         p \in up => /\ used'[p] = [e \in Devs |-> used'[p][e]]
                     /\ \A e \in Devs : used'[p][e] = (used[p][e] + Due(t, p, e)) % Word
  PROVE  Usage(p)'
<1> SUFFICES ASSUME p \in up
             PROVE  /\ used'[p] \in [Devs -> 0 .. Word - 1]
                    /\ \A e \in Devs : used'[p][e] = Ledger(p, e)' % Word
  BY DEF Usage, Local, Ledger, Leaving, Entering
<1>0. Word \in Nat \ {0}
  BY AllocatorAssumption DEF AllocatorAssumption
<1>1. ASSUME NEW e \in Devs
      PROVE  used'[p][e] = Ledger(p, e)' % Word /\ used'[p][e] \in 0 .. Word - 1
  <2> DEFINE a == Ledger(p, e)
             b == Ledger(p, e)'
             k == Due(t, p, e)
  <2>1. used[p][e] = a % Word
    BY DEF Usage, Ledger, Leaving, Entering
  <2>2. a \in Int /\ b = a + k /\ k \in Int
    BY LedgerStep
  <2>3. used'[p][e] = ((a % Word) + k) % Word
    BY <2>1
  <2> HIDE DEF a, b, k
  <2>4. used'[p][e] = b % Word
    BY <1>0, <2>2, <2>3, ModAdd
  <2>5. b % Word \in 0 .. Word - 1
    BY <1>0, <2>2, RemIs
  <2> QED
    BY <2>4, <2>5 DEF b
<1> QED
  BY <1>1

(* What a thread does to the total in its next step. *)
Rise(t, e) ==
  IF e # Map[req[t].dev] THEN 0
  ELSE IF pc[t] \in Entering THEN req[t].size
  ELSE IF pc[t] \in Leaving THEN 0 - req[t].size
  ELSE 0

(* It is what the list and the hands of the thread ask for. *)
LEMMA OwnDue ==
  ASSUME Shape, NEW t \in Threads, NEW p \in Procs, p = ProcOf[t], ProcInv(p), ~raced'[p],
         allocate(t) \/ deallocate(t)
  PROVE  \A e \in Devs : Due(t, p, e) = Rise(t, e)
<1>0. /\ Functions /\ Local(t) /\ ListTypes(p) /\ Holders(p) /\ Remembered(p)
      /\ ListTypes(p)' /\ pc \in [Threads -> PC]
  BY LocalStep, OwnTypes DEF Shape, Running, ProcInv
<1>n. /\ \A e \in Devs : Weight(list[p], OnDev(e)) \in Nat
      /\ req[t].size \in Nat /\ req[t].dev \in Devs /\ Map[req[t].dev] \in Devs
      /\ req'[t].size \in Nat /\ req'[t].dev \in Devs
  <2>1. list[p] \in Seq(Entry) /\ req[t] \in Requests /\ req'[t] \in Requests
    BY <1>0 DEF ListTypes
  <2>2. \A e \in Devs : Weight(list[p], OnDev(e)) \in Nat
    BY <2>1, WeightNat, WeightTypes
  <2>3. req[t].size \in Sizes /\ req'[t].size \in Sizes /\ req[t].dev \in Devs /\ req'[t].dev \in Devs
    BY <2>1 DEF Requests
  <2>4. Sizes \subseteq Nat /\ Map \in [Devs -> Devs]
    BY AllocatorAssumption DEF AllocatorAssumption
  <2> QED
    BY <2>2, <2>3, <2>4
<1>q. ASSUME list'[p] = list[p], pc[t] \notin Leaving \cup Entering, pc'[t] \notin Leaving \cup Entering
      PROVE  \A e \in Devs : Due(t, p, e) = Rise(t, e)
  BY <1>n, <1>q DEF Due, HandOf, Rise
<1>c. ASSUME list'[p] = list[p], pc[t] \in Leaving \cup Entering, pc'[t] \notin Leaving \cup Entering
      PROVE  \A e \in Devs : Due(t, p, e) = Rise(t, e)
  BY <1>n, <1>c DEF Due, HandOf, Rise, Leaving, Entering
<1>m. ASSUME NEW i \in 1 .. Len(list[p]), SetList(t, Without(list[p], i)),
             list[p][i].dev = req'[t].dev, list[p][i].len = req'[t].size,
             pc[t] \notin Leaving \cup Entering, pc'[t] \in Leaving
      PROVE  \A e \in Devs : Due(t, p, e) = Rise(t, e)
  <2>1. list'[p] = Without(list[p], i)
    BY <1>0, <1>m, SetListIs
  <2>2. list[p] \in Seq(Entry) /\ list[p][i] \in Entry
    BY <1>0 DEF ListTypes
  <2>3. \A e \in Devs : Weight(list'[p], OnDev(e)) = Weight(list[p], OnDev(e)) - OnDev(e)[list[p][i]]
    BY <2>1, <2>2, WeightRemove, WeightTypes
  <2>4. \A e \in Devs : OnDev(e)[list[p][i]] = IF Map[req'[t].dev] = e THEN req'[t].size ELSE 0
    BY <1>m, <2>2 DEF OnDev
  <2>5. \A e \in Devs : /\ HandOf(t, p, e, Leaving)' = IF Map[req'[t].dev] = e THEN req'[t].size ELSE 0
                        /\ HandOf(t, p, e, Leaving) = 0 /\ HandOf(t, p, e, Entering) = 0
                        /\ HandOf(t, p, e, Entering)' = 0
    BY <1>m DEF HandOf, Leaving, Entering
  <2>6. \A e \in Devs : Due(t, p, e) = 0
    BY <1>n, <2>3, <2>4, <2>5 DEF Due
  <2> QED
    BY <1>m, <2>6 DEF Rise
<1>1. CASE alloc_call(t)
  BY <1>1, <1>0, <1>q DEF alloc_call, Goto, StartCheck, Leaving, Entering
<1>2. CASE read_slot(t)
  BY <1>2, <1>0, <1>q DEF read_slot, Leaving, Entering
<1>3. CASE clear_and_retry(t)
  BY <1>3, <1>0, <1>q DEF clear_and_retry, Leaving, Entering
<1>4. CASE pre_check_fails(t)
  BY <1>4, <1>0, <1>q DEF pre_check_fails, Return, Leaving, Entering
<1>5. CASE pre_check_passes(t)
  BY <1>5, <1>0, <1>q DEF pre_check_passes, Goto, Leaving, Entering
<1>6. CASE driver_alloc(t)
  BY <1>6, <1>0, <1>q DEF driver_alloc, Goto, Leaving, Entering
<1>7. CASE driver_alloc_fails(t)
  BY <1>7, <1>0, <1>q DEF driver_alloc_fails, Return, Leaving, Entering
<1>8. CASE alloc_lock(t)
  BY <1>8, <1>0, <1>q DEF alloc_lock, Goto, StartCheck, Leaving, Entering
<1>9. CASE post_check_undoes(t)
  BY <1>9, <1>0, <1>q DEF post_check_undoes, Goto, Leaving, Entering
<1>10. CASE undo(t)
  BY <1>10, <1>0, <1>q DEF undo, Return, Leaving, Entering
<1>11. CASE post_check_ignored(t)
  BY <1>11, <1>0, <1>q DEF post_check_ignored, Return, Leaving, Entering
<1>12. CASE post_check_passes(t)
  BY <1>12, <1>0, <1>q DEF post_check_passes, Goto, Leaving, Entering
<1>13. CASE entry_fails(t)
  BY <1>13, <1>0, <1>q DEF entry_fails, Return, Leaving, Entering
<1>14. CASE list_add(t)
  <2> DEFINE x == [h |-> hd[t], len |-> req[t].size, dev |-> req[t].dev]
  <2>1. /\ req' = req /\ pc[t] = "entry" /\ pc'[t] = "account"
        /\ SetList(t, Append(list[p], x))
    BY <1>14, <1>0 DEF list_add, Goto
  <2>2. x \in Entry
    BY <1>0, <2>1 DEF Holders, Holding, ListTypes, Requests, Entry
  <2>3. list'[p] = Append(list[p], x)
    BY <1>0, <2>1, SetListIs
  <2>4. \A e \in Devs : OnDev(e)[x] = IF Map[req[t].dev] = e THEN req[t].size ELSE 0
    BY <2>2 DEF OnDev
  <2>5. \A e \in Devs : Weight(list'[p], OnDev(e)) = Weight(list[p], OnDev(e)) + OnDev(e)[x]
    <3> HIDE DEF x
    <3> QED
      BY <1>0, <2>2, <2>3, WeightAppend, WeightTypes DEF ListTypes
  <2>6. \A e \in Devs : /\ HandOf(t, p, e, Entering)' = IF Map[req[t].dev] = e THEN req[t].size ELSE 0
                        /\ HandOf(t, p, e, Leaving) = 0 /\ HandOf(t, p, e, Entering) = 0
                        /\ HandOf(t, p, e, Leaving)' = 0
    BY <2>1 DEF HandOf, Leaving, Entering
  <2>7. \A e \in Devs : Due(t, p, e) = 0
    BY <1>n, <2>4, <2>5, <2>6 DEF Due
  <2> QED
    BY <2>1, <2>7 DEF Rise, Leaving, Entering
<1>15. CASE account(t)
  BY <1>15, <1>0, <1>c DEF account, Return, Leaving, Entering
<1>16. CASE free_call(t)
  BY <1>16, <1>0, <1>q DEF free_call, Leaving, Entering
<1>17. CASE remove_chunk(t)
  <2> PICK i : i = Find(list[p], hd[t])
    OBVIOUS
  <2> DEFINE r == [call |-> "alloc", dev |-> list[p][i].dev, size |-> list[p][i].len]
  <2>1. /\ req' = [req EXCEPT ![t] = r] /\ pc[t] = "unlist" /\ pc'[t] = "settle"
        /\ i # 0 /\ SetList(t, Without(list[p], i))
    BY <1>17, <1>0 DEF remove_chunk, Goto
  <2>2. hd[t] \in Handles
    BY <1>0, <2>1 DEF Holders, Holding
  <2>3. i \in 1 .. Len(list[p])
    BY <1>0, <2>1, <2>2, FindIs DEF ListTypes
  <2>4. req'[t] = r
    BY <1>0, <2>1 DEF Functions
  <2>5. list[p][i].dev = req'[t].dev /\ list[p][i].len = req'[t].size
    BY <2>4
  <2> HIDE DEF r
  <2> QED
    BY <1>m, <2>1, <2>3, <2>5 DEF Leaving, Entering
<1>18. CASE remove_chunk_unknown(t)
  BY <1>18, <1>0, <1>q DEF remove_chunk_unknown, Return, Leaving, Entering
<1>19. CASE settle(t)
  BY <1>19, <1>0, <1>c DEF settle, Goto, Leaving, Entering
<1>20. CASE driver_free(t)
  BY <1>20, <1>0, <1>q DEF driver_free, Return, Leaving, Entering
<1>21. CASE release_call(t)
  BY <1>21, <1>0, <1>q DEF release_call, Goto, Leaving, Entering
<1>22. CASE remove_chunk_only(t)
  BY <1>22, <1>0, <1>q DEF remove_chunk_only, Goto, Leaving, Entering
<1>23. CASE unlink(t)
  <2> PICK i : i = Find(list[p], hd[t])
    OBVIOUS
  <2>1. /\ req' = req /\ pc[t] = "unlink" /\ pc'[t] = "deduct"
        /\ SetList(t, IF i = 0 THEN list[p] ELSE Without(list[p], i))
    BY <1>23, <1>0 DEF unlink, Goto
  <2>2. hd[t] \in Handles
    BY <1>0, <2>1 DEF Holders, Dropping
  <2>3. i # 0 /\ list[p][i].dev = req'[t].dev /\ list[p][i].len = req'[t].size
    BY <1>0, <2>1 DEF Remembered
  <2>4. i \in 1 .. Len(list[p])
    BY <1>0, <2>2, <2>3, FindIs DEF ListTypes
  <2>5. SetList(t, Without(list[p], i))
    BY <2>1, <2>3
  <2> QED
    BY <1>m, <2>1, <2>3, <2>4, <2>5 DEF Leaving, Entering
<1>24. CASE remove_chunk_only_unknown(t)
  BY <1>24, <1>0, <1>q DEF remove_chunk_only_unknown, Return, Leaving, Entering
<1>25. CASE deduct(t)
  BY <1>25, <1>0, <1>c DEF deduct, Return, Leaving, Entering
<1> QED
  BY <1>1, <1>2, <1>3, <1>4, <1>5, <1>6, <1>7, <1>8, <1>9, <1>10, <1>11, <1>12,
     <1>13, <1>14, <1>15, <1>16, <1>17, <1>18, <1>19, <1>20, <1>21, <1>22, <1>23,
     <1>24, <1>25
  DEF allocate, deallocate

(* The total is what the list records and what is in the hands of threads. *)
LEMMA OwnUsage ==
  ASSUME Shape, NEW t \in Threads, NEW p \in Procs, p = ProcOf[t], ProcInv(p), ~raced'[p],
         allocate(t) \/ deallocate(t)
  PROVE  Usage(p)'
<1>0. /\ Functions /\ Local(t) /\ ListTypes(p) /\ Usage(p) /\ ListTypes(p)'
      /\ \A e \in Devs : Due(t, p, e) = Rise(t, e)
  BY LocalStep, OwnTypes, OwnDue DEF Shape, ProcInv
<1>1. ASSUME p \in up
      PROVE  /\ used'[p] = [e \in Devs |-> used'[p][e]]
             /\ \A e \in Devs : used'[p][e] = (used[p][e] + Rise(t, e)) % Word
  <2>1. used[p] \in [Devs -> 0 .. Word - 1] /\ used = [q \in Procs |-> used[q]] /\ Word \in Nat \ {0}
    BY <1>0, <1>1, AllocatorAssumption DEF Usage, Functions, AllocatorAssumption
  <2>2. ASSUME NEW e \in Devs PROVE (used[p][e] + 0) % Word = used[p][e] /\ used[p][e] \in Int
    <3> PICK u : u = used[p][e]
      OBVIOUS
    <3>1. u \in 0 .. Word - 1
      BY <2>1
    <3>2. u % Word = u /\ u + 0 = u
      BY <2>1, <3>1, SmallMod
    <3> QED
      BY <2>1, <3>1, <3>2
  <2>3. req[t].size \in Int
    <3>1. req[t].size \in Sizes
      BY <1>0 DEF ListTypes, Requests
    <3>2. Sizes \subseteq Int
      BY AllocatorAssumption DEF AllocatorAssumption
    <3> QED
      BY <3>1, <3>2
  <2>4. ASSUME used'[p] = used[p], pc[t] \notin {"account", "settle", "deduct"}
        PROVE  \A e \in Devs : used'[p][e] = (used[p][e] + Rise(t, e)) % Word
    BY <2>2, <2>4 DEF Rise, Leaving, Entering
  <2>5. CASE clear_and_retry(t)
    <3>1. used'[p] = used[p] /\ pc[t] \notin {"account", "settle", "deduct"}
      BY <1>1, <2>5 DEF clear_and_retry, DeadSlots
    <3> QED
      BY <2>1, <2>4, <3>1
  <2>6. CASE account(t)
    <3>1. /\ used'[p] = [used[p] EXCEPT ![Map[req[t].dev]] = (used[p][Map[req[t].dev]] + req[t].size) % Word]
          /\ pc[t] \in Entering
      BY <2>1, <2>6 DEF account, Entering
    <3> QED
      BY <2>1, <2>2, <3>1 DEF Rise
  <2>7. CASE settle(t) \/ deduct(t)
    <3>1. /\ used'[p] = [used[p] EXCEPT ![Map[req[t].dev]] = (used[p][Map[req[t].dev]] - req[t].size) % Word]
          /\ pc[t] \in Leaving /\ pc[t] \notin Entering
      BY <2>1, <2>7 DEF settle, deduct, Goto, Leaving, Entering
    <3>2. ASSUME NEW e \in Devs PROVE used'[p][e] = (used[p][e] + Rise(t, e)) % Word
      <4>1. CASE e = Map[req[t].dev]
        <5>1. used[p][e] - req[t].size = used[p][e] + (0 - req[t].size)
          BY <2>2, <2>3
        <5>2. used'[p][e] = (used[p][e] - req[t].size) % Word
          BY <2>1, <3>1, <4>1
        <5>3. Rise(t, e) = 0 - req[t].size
          BY <3>1, <4>1 DEF Rise
        <5> QED
          BY <5>1, <5>2, <5>3
      <4>2. CASE e # Map[req[t].dev]
        BY <2>1, <2>2, <3>1, <4>2 DEF Rise
      <4> QED
        BY <4>1, <4>2
    <3> QED
      BY <2>1, <3>1, <3>2
  <2>8. CASE used' = used /\ pc[t] \notin {"account", "settle", "deduct"}
    BY <2>1, <2>4, <2>8
  <2> QED
    BY <2>5, <2>6, <2>7, <2>8, Frame
<1> QED
  BY <1>0, <1>1, UsageStep

(* A race is not forgotten. *)
LEMMA RacedStays ==
  ASSUME Shape, NEW t \in Threads, allocate(t) \/ deallocate(t), ~raced'[ProcOf[t]]
  PROVE  ~raced[ProcOf[t]]
<1>0. Functions /\ ProcOf[t] \in Procs
  BY AllocatorAssumption DEF Shape, AllocatorAssumption
<1>1. ASSUME NEW l, SetList(t, l) PROVE ~raced[ProcOf[t]]
  BY <1>0, <1>1, SetListIs
<1>2. CASE list_add(t)
  BY <1>1, <1>2 DEF list_add
<1>3. CASE remove_chunk(t)
  BY <1>1, <1>3 DEF remove_chunk
<1>4. CASE unlink(t)
  BY <1>1, <1>4 DEF unlink
<1>5. CASE remove_chunk_only(t)
  <2>1. raced' = [raced EXCEPT ![ProcOf[t]] = @ \/ hd[t] \in lost[ProcOf[t]]]
    BY <1>5 DEF remove_chunk_only
  <2>2. raced = [q \in Procs |-> raced[q]]
    BY <1>0 DEF Functions
  <2>3. raced'[ProcOf[t]] = (raced[ProcOf[t]] \/ hd[t] \in lost[ProcOf[t]])
    BY <1>0, <2>1, <2>2, Zenon
  <2> QED
    BY <2>3, Zenon
<1>6. CASE raced' = raced
  BY <1>6
<1> QED
  BY <1>2, <1>3, <1>4, <1>5, <1>6, Frame

(* Nothing is known to be left of a list or a total that has none. *)
LEMMA SumsOfNothing ==
  /\ \A f \in [Entry -> Nat] : Weight(<<>>, f) = 0
  /\ SumOf([t \in Threads |-> 0]) = 0
<1>1. 0 \in Nat
  BY AllocatorAssumption DEF AllocatorAssumption
<1>2. ASSUME NEW f \in [Entry -> Nat] PROVE Weight(<<>>, f) = 0
  <2> DEFINE w == [i \in DOMAIN <<>> |-> f[<<>>[i]]]
  <2>1. w \in [{} -> Nat] /\ \A i \in {} : w[i] = 0
    OBVIOUS
  <2>2. Weight(<<>>, f) = SumOf(w)
    BY DEF Weight
  <2> HIDE DEF w
  <2> QED
    BY <2>1, <2>2, SumZero
<1>3. SumOf([t \in Threads |-> 0]) = 0
  <2> DEFINE w == [t \in Threads |-> 0]
  <2>1. w \in [Threads -> Nat] /\ \A t \in Threads : w[t] = 0
    BY <1>1
  <2> HIDE DEF w
  <2>2. SumOf(w) = 0
    BY <2>1, SumZero
  <2> QED
    BY <2>2 DEF w
<1> QED
  BY <1>2, <1>3

(* At first there is nothing to account. *)
LEMMA LedgerInit ==
  ASSUME Init, NEW p \in Procs, NEW e \in Devs
  PROVE  Ledger(p, e) = 0
<1>1. list[p] = <<>> /\ \A t \in Threads : pc[t] = "idle"
  BY DEF Init
<1>2. Listed(p, e) = 0
  <2>1. list[p] \in Seq(Entry)
    BY <1>1
  <2>2. Listed(p, e) = Weight(list[p], OnDev(e))
    BY <2>1, ListedIs DEF Listed
  <2> QED
    BY <1>1, <2>2, SumsOfNothing, WeightTypes
<1>3. ASSUME NEW places, "idle" \notin places PROVE InHand(p, e, places) = 0
  <2>1. [t \in Threads |-> IF ProcOf[t] = p /\ pc[t] \in places /\ Map[req[t].dev] = e
                               THEN req[t].size ELSE 0] = [t \in Threads |-> 0]
    BY <1>1, <1>3
  <2> QED
    BY <2>1, SumsOfNothing DEF InHand
<1>4. InHand(p, e, Leaving) = 0 /\ InHand(p, e, Entering) = 0
  BY <1>3 DEF Leaving, Entering
<1> QED
  BY <1>2, <1>4 DEF Ledger

(* When the library is loaded, the lists are empty and the totals 0. *)
LEMMA ListInit == Init => ListInv
<1> SUFFICES ASSUME Init PROVE ListInv
  OBVIOUS
<1>1. Functions
  BY DEF Init, Functions
<1>2. Running
  BY AllocatorAssumption DEF Init, Running, PC, AllocatorAssumption
<1>3. ASSUME NEW p \in Procs PROVE ProcInv(p)
  <2>0. Word \in Nat \ {0}
    BY AllocatorAssumption DEF AllocatorAssumption
  <2>1. /\ list[p] = <<>> /\ own[p] = {} /\ drv[p] = [h \in Handles |-> 0] /\ used[p] = [d \in Devs |-> 0]
        /\ \A t \in Threads : pc[t] = "idle" /\ req[t] = AnyRequest
    BY <1>3 DEF Init
  <2>2. ListTypes(p)
    <3>1. AnyRequest \in Requests
      BY AnyRequestIs
    <3> QED
      BY <2>1, <3>1 DEF ListTypes
  <2>3. Holders(p)
    BY <2>1 DEF Holders, Holding, Dropping
  <2>4. Remembered(p)
    BY <2>1 DEF Remembered
  <2>5. Covered(p)
    <3> SUFFICES ASSUME NEW h \in Handles
                 PROVE  Drops(p, h) + (IF Settled(p, h) THEN 1 ELSE 0) <= Weight(list[p], OfHandle(h))
      BY DEF Covered
    <3>1. [t \in Threads |-> DropOf(t, p, h)] = [t \in Threads |-> 0]
      BY <2>1 DEF DropOf
    <3>2. Drops(p, h) = 0
      BY <3>1, SumsOfNothing DEF Drops
    <3>3. ~Settled(p, h)
      BY <2>1 DEF Settled
    <3>4. Weight(list[p], OfHandle(h)) = 0
      BY <2>1, SumsOfNothing, WeightTypes
    <3> QED
      BY <3>2, <3>3, <3>4
  <2>6. Usage(p)
    <3>1. used[p] \in [Devs -> 0 .. Word - 1]
      BY <2>0, <2>1
    <3>2. 0 % Word = 0
      BY <2>0, SmallMod
    <3>3. \A e \in Devs : used[p][e] = Ledger(p, e) % Word
      BY <2>1, <3>2, LedgerInit
    <3> QED
      BY <3>1, <3>3 DEF Usage, Ledger, Leaving, Entering
  <2> QED
    BY <2>2, <2>3, <2>4, <2>5, <2>6 DEF ProcInv
<1> QED
  BY <1>1, <1>2, <1>3 DEF ListInv, Shape

(* The death of one process changes nothing of another. *)
LEMMA KillFrame ==
  ASSUME Shape, NEW p \in Procs, kill(p), NEW q \in Procs \ {p}
  PROVE  /\ list'[q] = list[q] /\ drv'[q] = drv[q] /\ own'[q] = own[q] /\ lost'[q] = lost[q]
         /\ used'[q] = used[q] /\ (q \in up' <=> q \in up)
         /\ \A u \in Threads : ProcOf[u] = q => pc'[u] = pc[u] /\ hd'[u] = hd[u] /\ req'[u] = req[u]
         /\ \A e \in Devs : Ledger(q, e)' = Ledger(q, e)
<1>1. /\ list'[q] = list[q] /\ drv'[q] = drv[q] /\ own'[q] = own[q] /\ lost'[q] = lost[q]
      /\ used'[q] = used[q] /\ (q \in up' <=> q \in up)
      /\ \A u \in Threads : ProcOf[u] = q => pc'[u] = pc[u] /\ hd'[u] = hd[u] /\ req'[u] = req[u]
  BY DEF Shape, Functions, kill
<1>2. \A e \in Devs : Listed(q, e)' = Listed(q, e)
  BY <1>1 DEF Listed
<1>3. ASSUME NEW e \in Devs, NEW places PROVE InHand(q, e, places)' = InHand(q, e, places)
  <2>1. [u \in Threads |-> HandOf(u, q, e, places)'] = [u \in Threads |-> HandOf(u, q, e, places)]
    BY <1>1 DEF HandOf
  <2> QED
    BY <2>1 DEF InHand, HandOf
<1>4. \A e \in Devs : Ledger(q, e)' = Ledger(q, e)
  BY <1>2, <1>3 DEF Ledger
<1> QED
  BY <1>1, <1>4

(* SIGKILL takes the list, the memory and the threads of a process at once. *)
LEMMA ListKill ==
  ASSUME ListInv, NEW p \in Procs, kill(p)
  PROVE  ListInv'
<1>1. /\ p \in up /\ up' = up \ {p} /\ used' = used /\ lost' = lost /\ raced' = raced
      /\ pc' = [t \in Threads |-> IF ProcOf[t] = p THEN "gone" ELSE pc[t]]
      /\ req' = [t \in Threads |-> IF ProcOf[t] = p THEN AnyRequest ELSE req[t]]
      /\ hd' = [t \in Threads |-> IF ProcOf[t] = p THEN None ELSE hd[t]]
      /\ list' = [list EXCEPT ![p] = <<>>] /\ own' = [own EXCEPT ![p] = {}]
      /\ drv' = [drv EXCEPT ![p] = [h \in Handles |-> 0]]
  BY DEF kill
<1>2. Functions /\ Running
  BY DEF ListInv, Shape
<1>3. Functions'
  BY <1>1, <1>2 DEF Functions
<1>4. Running'
  BY <1>1, <1>2 DEF Running, PC
<1>5. ASSUME NEW q \in Procs, ~raced'[q] PROVE ProcInv(q)'
  <2>0. ProcInv(q)
    BY <1>1, <1>5 DEF ListInv
  <2>1. CASE q # p
    <3>1. /\ list'[q] = list[q] /\ drv'[q] = drv[q] /\ own'[q] = own[q] /\ lost'[q] = lost[q]
          /\ used'[q] = used[q] /\ (q \in up' <=> q \in up)
          /\ \A u \in Threads : ProcOf[u] = q => pc'[u] = pc[u] /\ hd'[u] = hd[u] /\ req'[u] = req[u]
          /\ \A e \in Devs : Ledger(q, e)' = Ledger(q, e)
      BY <2>1, KillFrame DEF ListInv
    <3>2. ListTypes(q)'
      BY <2>0, <3>1 DEF ProcInv, ListTypes
    <3>3. Holders(q)'
      BY <2>0, <3>1 DEF ProcInv, Holders
    <3>4. Remembered(q)'
      BY <2>0, <3>1 DEF ProcInv, Remembered
    <3>5. \A h \in Handles : Drops(q, h)' = Drops(q, h) /\ (Settled(q, h)' <=> Settled(q, h))
      <4> SUFFICES ASSUME NEW h \in Handles
                   PROVE  Drops(q, h)' = Drops(q, h) /\ (Settled(q, h)' <=> Settled(q, h))
        OBVIOUS
      <4>1. [u \in Threads |-> DropOf(u, q, h)'] = [u \in Threads |-> DropOf(u, q, h)]
        BY <3>1 DEF DropOf
      <4>2. Drops(q, h)' = Drops(q, h)
        BY <4>1 DEF Drops
      <4>3. Settled(q, h)' <=> Settled(q, h)
        BY <3>1 DEF Settled
      <4> QED
        BY <4>2, <4>3
    <3>6. Covered(q)'
      BY <2>0, <3>1, <3>5 DEF ProcInv, Covered
    <3>9. Usage(q)'
      BY <2>0, <3>1 DEF ProcInv, Usage, Ledger, Leaving, Entering
    <3> QED
      BY <3>2, <3>3, <3>4, <3>6, <3>9 DEF ProcInv
  <2>2. CASE q = p
    <3>1. /\ list'[q] = <<>> /\ own'[q] = {} /\ drv'[q] = [h \in Handles |-> 0] /\ q \notin up'
          /\ \A u \in Threads : ProcOf[u] = q => pc'[u] = "gone" /\ req'[u] = AnyRequest
      BY <1>1, <1>2, <2>2 DEF Functions
    <3>2. ListTypes(q)'
      <4>1. AnyRequest \in Requests
        BY AnyRequestIs
      <4> QED
        BY <3>1, <4>1 DEF ListTypes
    <3>3. Holders(q)'
      BY <3>1 DEF Holders, Holding, Dropping
    <3>4. Remembered(q)'
      BY <3>1 DEF Remembered
    <3>5. Covered(q)'
      <4> SUFFICES ASSUME NEW h \in Handles
                   PROVE  Drops(q, h)' + (IF Settled(q, h)' THEN 1 ELSE 0) <= Weight(list'[q], OfHandle(h))
        BY DEF Covered
      <4>1. [u \in Threads |-> DropOf(u, q, h)'] = [t \in Threads |-> 0]
        BY <3>1 DEF DropOf
      <4>2. Drops(q, h)' = 0
        BY <4>1, SumsOfNothing DEF Drops
      <4>3. ~Settled(q, h)'
        BY <3>1 DEF Settled
      <4>4. Weight(list'[q], OfHandle(h)) = 0
        BY <3>1, SumsOfNothing, WeightTypes
      <4> QED
        BY <4>2, <4>3, <4>4
    <3>6. Usage(q)'
      BY <3>1 DEF Usage
    <3> QED
      BY <3>2, <3>3, <3>4, <3>5, <3>6 DEF ProcInv
  <2> QED
    BY <2>1, <2>2
<1> QED
  BY <1>3, <1>4, <1>5 DEF ListInv, Shape

(* Every step keeps the list and the total of a process that has not raced. *)
LEMMA ListStep == ListInv /\ [Next]_vars => ListInv'
<1> SUFFICES ASSUME ListInv, [Next]_vars PROVE ListInv'
  OBVIOUS
<1>1. ASSUME NEW t \in Threads, allocate(t) \/ deallocate(t)
      PROVE  ListInv'
  <2>1. Shape /\ Shape' /\ Local(t)
    BY <1>1, LocalStep DEF ListInv
  <2>2. ASSUME NEW q \in Procs, ~raced'[q] PROVE ProcInv(q)'
    <3>1. CASE q = ProcOf[t]
      <4>1. ProcInv(q)
        BY <1>1, <2>1, <2>2, <3>1, RacedStays DEF ListInv
      <4>2. ListTypes(q)'
        BY <1>1, <2>1, <2>2, <3>1, <4>1, OwnTypes
      <4>3. Holders(q)'
        BY <1>1, <2>1, <2>2, <3>1, <4>1, OwnHolders
      <4>4. Covered(q)'
        BY <1>1, <2>1, <2>2, <3>1, <4>1, OwnCovered
      <4>5. Remembered(q)'
        BY <1>1, <2>1, <2>2, <3>1, <4>1, OwnRemembered
      <4>6. Usage(q)'
        BY <1>1, <2>1, <2>2, <3>1, <4>1, OwnUsage
      <4> QED
        BY <4>2, <4>3, <4>4, <4>5, <4>6 DEF ProcInv
    <3>2. CASE q # ProcOf[t]
      <4>1. raced'[q] = raced[q]
        BY <2>1, <3>2 DEF Local
      <4>2. ProcInv(q)
        BY <2>2, <4>1 DEF ListInv
      <4> QED
        BY <2>1, <3>2, <4>2, OthersKeep
    <3> QED
      BY <3>1, <3>2
  <2> QED
    BY <2>1, <2>2 DEF ListInv
<1>2. ASSUME NEW p \in Procs, kill(p)
      PROVE  ListInv'
  BY <1>2, ListKill
<1>3. CASE UNCHANGED allocVars
  <2>1. Shape'
    BY <1>3 DEF ListInv, Shape, Functions, Running, allocVars
  <2>2. ASSUME NEW q \in Procs, ~raced'[q] PROVE ProcInv(q)'
    <3>1. ProcInv(q)
      BY <1>3, <2>2 DEF ListInv, allocVars
    <3>2. ListTypes(q)' /\ Holders(q)' /\ Remembered(q)'
      BY <1>3, <3>1 DEF ProcInv, ListTypes, Holders, Remembered, allocVars
    <3>3. Covered(q)'
      BY <1>3, <3>1 DEF ProcInv, Covered, Settled, Drops, DropOf, allocVars
    <3>4. Usage(q)'
      BY <1>3, <3>1 DEF ProcInv, Usage, Listed, InHand, allocVars
    <3> QED
      BY <3>2, <3>3, <3>4 DEF ProcInv
  <2> QED
    BY <2>1, <2>2 DEF ListInv
<1> QED
  BY <1>1, <1>2, <1>3, RestStep DEF Next

-----------------------------------------------------------------------------
(* The theorems *)

(* The list and the total of every process that has not raced, in every       *)
(* state that the threads of allocator.c and memory.c can reach.             *)
THEOREM ListInvariant == Spec => []ListInv
<1>1. Init => ListInv
  BY ListInit
<1>2. ListInv /\ [Next]_vars => ListInv'
  BY ListStep
<1> QED
  BY <1>1, <1>2, PTL DEF Spec

(* For any processes, threads, sizes and handles: memory that the driver has  *)
(* given to a process is in device_overallocated, or on its way in or out in *)
(* one thread, or its tracking has failed (post check ignored, list entry     *)
(* not allocated), or the unlocked remove_chunk_only has raced.               *)
THEOREM NothingLeaks == Spec => []DriverMemoryTracked
<1>1. ListInv => DriverMemoryTracked
  <2> SUFFICES ASSUME ListInv, NEW p \in Procs, NEW h \in Handles, drv[p][h] # 0, ~raced[p],
                      h \notin lost[p], Find(list[p], h) = 0
               PROVE  \E t \in Threads :
                        ProcOf[t] = p /\ hd[t] = h /\
                        pc[t] \in {"lock", "post", "entry", "undo", "settle", "free"}
    BY DEF DriverMemoryTracked
  <2>1. ListTypes(p) /\ Covered(p)
    BY DEF ListInv, ProcInv
  <2>2. Weight(list[p], OfHandle(h)) = 0
    BY <2>1, FoundByWeight DEF ListTypes
  <2>3. Drops(p, h) + (IF Settled(p, h) THEN 1 ELSE 0) <= 0
    BY <2>1, <2>2 DEF Covered
  <2>4. Drops(p, h) \in Nat
    <3>1. IsFiniteSet(Threads)
      BY AllocatorAssumption DEF AllocatorAssumption
    <3>2. [t \in Threads |-> DropOf(t, p, h)] \in [Threads -> Nat]
      BY <2>1, HandTypes
    <3> QED
      BY <3>1, <3>2, SumNat DEF Drops
  <2>5. ~Settled(p, h)
    BY <2>3, <2>4
  <2> QED
    BY <2>5 DEF Settled, Untracked
<1> QED
  BY <1>1, ListInvariant, PTL

(* For any processes, threads, devices, sizes and handles, and any map of     *)
(* CUDA to NVML devices: the total in the slot of a running process is what  *)
(* its list adds up to, plus what a thread has taken out and not yet          *)
(* deducted, minus what a thread has put in and not yet added.                *)
THEOREM TotalIsSumOfList == Spec => []UsageMatchesList
<1>1. ListInv => UsageMatchesList
  <2>1. ListInv => up \subseteq Procs
    BY DEF ListInv, Shape, Running
  <2> QED
    BY <2>1 DEF ListInv, ProcInv, Usage, UsageMatchesList
<1> QED
  BY <1>1, ListInvariant, PTL

-----------------------------------------------------------------------------
(* The limit: oom_check under the mutex, and what other threads and         *)
(* processes do meanwhile.  The inductive invariant for it.                  *)

NoRace == \A q \in Procs : ~raced[q]

Counters == sum = [t \in Threads |-> sum[t]] /\ at = [t \in Threads |-> at[t]]

EntryOf(t) == [h |-> hd[t], len |-> req[t].size, dev |-> req[t].dev]

(* The entry of a thread that has not yet added its size to the total is the *)
(* last of the list, and no unlocked removal is about to take it.            *)
Newest(p) ==
  \A t \in Threads :
    ProcOf[t] = p /\ pc[t] = "account" =>
      /\ list[p] # <<>>
      /\ list[p][Len(list[p])] = EntryOf(t)
      /\ \A u \in Threads : ProcOf[u] = p /\ pc[u] = "unlink" /\ hd[u] = hd[t] => hd[t] \notin lost[p]

Within(p) == \A d \in Devs : Limit[d] # 0 => used[p][d] \in 0 .. Limit[d]

(* No total of a running process has wrapped: it is what it has to be. *)
Bounded(p) ==
  p \in up => \A d \in Devs : Ledger(p, d) \in Nat /\ (Limit[d] # 0 => Ledger(p, d) <= Limit[d])

(* What contexts and pools add. *)
OtherTypes == other \in [Procs -> [Devs -> 0 .. MaxOther]]

(* oom_check with the mutex: the slots read so far, the own one among them. *)
Summed(t) ==
  pc[t] = "post" /\ Limit[req[t].dev] # 0 =>
    /\ at[t] \in 1 .. (Len(Slots) + 1) /\ sum[t] \in Nat
    /\ sum[t] <= (at[t] - 1) * (Limit[req[t].dev] + MaxOther)
    /\ \A i \in 1 .. Len(Slots) :
         i < at[t] /\ Slots[i] = ProcOf[t] => used[ProcOf[t]][req[t].dev] <= sum[t]

(* It has passed, and there is still room. *)
Room(t) ==
  pc[t] \in {"entry", "account"} /\ Limit[req[t].dev] # 0 =>
    used[ProcOf[t]][req[t].dev] + req[t].size <= Limit[req[t].dev]

LimitInv ==
  /\ Counters /\ OtherTypes
  /\ NoRace => /\ \A p \in Procs : Newest(p) /\ Within(p) /\ Bounded(p)
               /\ \A t \in Threads : Summed(t) /\ Room(t)

-----------------------------------------------------------------------------
(* The total is never less than what is on its way in *)

(* One thread at most is adding its size, that of the last entry: the list   *)
(* records at least as much.                                                 *)
LEMMA EnteringListed ==
  ASSUME NEW l \in Seq(Entry), NEW e \in Devs, NEW w \in [Threads -> Nat],
         \A t, u \in Threads : w[t] # 0 /\ w[u] # 0 => t = u,
         \A t \in Threads : w[t] # 0 => l # <<>> /\ w[t] = OnDev(e)[l[Len(l)]]
  PROVE  SumOf(w) <= Weight(l, OnDev(e)) /\ SumOf(w) \in Nat /\ Weight(l, OnDev(e)) \in Nat
<1>0. IsFiniteSet(Threads) /\ Word \in Nat \ {0}
  BY AllocatorAssumption DEF AllocatorAssumption
<1>1. SumOf(w) \in Nat
  BY <1>0, SumNat
<1>2. OnDev(e) \in [Entry -> Nat] /\ Weight(l, OnDev(e)) \in Nat
  BY WeightTypes, WeightNat
<1>3. CASE \A t \in Threads : w[t] = 0
  BY <1>1, <1>2, <1>3, SumZero
<1>4. CASE \E t \in Threads : w[t] # 0
  <2> PICK t \in Threads : w[t] # 0
    BY <1>4
  <2> DEFINE r == [i \in Threads \ {t} |-> w[i]]
  <2>1. r \in [Threads \ {t} -> Nat] /\ \A i \in Threads \ {t} : r[i] = 0
    OBVIOUS
  <2>2. SumOf(r) = 0
    <3> HIDE DEF r
    <3> QED
      BY <2>1, SumZero
  <2>3. SumOf(w) = w[t] + SumOf(r)
    <3>1. IsFiniteSet(Threads) /\ w \in [Threads -> Nat] /\ t \in Threads
      BY <1>0
    <3> QED
      BY ONLY <3>1, SumSplit, ZenonT(30)
  <2>4. w[t] \in Nat
    BY <1>0
  <2>5. SumOf(w) = w[t]
    <3> HIDE DEF r
    <3> QED
      BY <2>2, <2>3, <2>4
  <2> DEFINE v == [i \in DOMAIN l |-> OnDev(e)[l[i]]]
  <2>6. Len(l) \in DOMAIN l /\ IsFiniteSet(DOMAIN l)
    <3>1. l # <<>>
      OBVIOUS
    <3>2. Len(l) \in Nat /\ DOMAIN l = 1 .. Len(l)
      OBVIOUS
    <3>3. Len(l) # 0
      BY <3>1
    <3> QED
      BY <3>2, <3>3, FS_Interval
  <2>7. v \in [DOMAIN l -> Nat]
    BY <1>2
  <2>8. v[Len(l)] = w[t] /\ Weight(l, OnDev(e)) = SumOf(v)
    BY <2>6 DEF Weight
  <2> HIDE DEF v
  <2>9. v[Len(l)] <= SumOf(v)
    BY <2>6, <2>7, SumPart
  <2> QED
    BY <1>1, <1>2, <2>5, <2>8, <2>9
<1> QED
  BY <1>3, <1>4

(* LIST_REMOVE of the first entry of a handle keeps the last entry, unless    *)
(* that is the only one of the handle.                                       *)
LEMMA LastKept ==
  ASSUME NEW l \in Seq(Entry), NEW g \in Handles, Find(l, g) # 0,
         l[Len(l)].h # g \/ Weight(l, OfHandle(g)) >= 2
  PROVE  LET m == Without(l, Find(l, g)) IN m # <<>> /\ m[Len(m)] = l[Len(l)]
<1> PICK i : i = Find(l, g)
  OBVIOUS
<1>1. i \in 1 .. Len(l) /\ l[i].h = g /\ \A j \in 1 .. Len(l) : l[j].h = g => i <= j
  BY FindIs
<1> PICK m : m = Without(l, i)
  OBVIOUS
<1>2. /\ m \in Seq(Entry) /\ Len(m) = Len(l) - 1
      /\ \A j \in 1 .. (Len(l) - 1) : m[j] = IF j < i THEN l[j] ELSE l[j + 1]
  BY <1>1, WithoutIs
<1>3. i # Len(l)
  <2> SUFFICES ASSUME i = Len(l) PROVE FALSE
    OBVIOUS
  <2>1. Weight(l, OfHandle(g)) >= 2
    BY <1>1
  <2>2. \A j \in 1 .. Len(m) : m[j].h # g
    BY <1>1, <1>2
  <2>3. Find(m, g) = 0
    BY <1>2, <2>2, FindIs
  <2>4. Weight(m, OfHandle(g)) = 0
    BY <1>2, <2>3, FoundByWeight
  <2>5. Weight(m, OfHandle(g)) = Weight(l, OfHandle(g)) - OfHandle(g)[l[i]] /\ Weight(l, OfHandle(g)) \in Nat
    BY <1>1, WeightRemove, WeightTypes
  <2>6. OfHandle(g)[l[i]] = 1
    <3>1. l[i] \in Entry
      BY <1>1
    <3> QED
      BY <1>1, <3>1 DEF OfHandle
  <2> QED
    BY <2>1, <2>4, <2>5, <2>6
<1>4. Len(l) - 1 \in 1 .. (Len(l) - 1) /\ ~(Len(l) - 1 < i) /\ (Len(l) - 1) + 1 = Len(l)
  BY <1>1, <1>3
<1>5. m[Len(l) - 1] = l[Len(l)]
  BY <1>2, <1>4
<1>6. m # <<>>
  BY <1>2, <1>4
<1> QED
  BY <1>2, <1>5, <1>6

(* The mutex keeps the other threads of the process out. *)
LEMMA Alone ==
  ASSUME MInv, NEW t \in Threads, NEW u \in Threads \ {t}, ProcOf[u] = ProcOf[t], pc[u] \in Inside
  PROVE  pc[t] \notin Inside /\ mutex[ProcOf[t]] # None
BY AllocatorAssumption DEF MInv, MutexDiscipline, AllocatorAssumption

(* Where no process has raced, none had. *)
LEMMA RaceBack ==
  ASSUME ListInv, NEW t \in Threads, allocate(t) \/ deallocate(t), NoRace'
  PROVE  NoRace /\ Local(t) /\ Shape /\ Shape'
<1>1. Local(t) /\ Shape /\ Shape'
  BY LocalStep DEF ListInv
<1>2. ASSUME NEW q \in Procs PROVE ~raced[q]
  <2>1. ~raced'[q]
    BY DEF NoRace
  <2>2. CASE q = ProcOf[t]
    BY <1>1, <2>1, <2>2, RacedStays
  <2>3. CASE q # ProcOf[t]
    BY <1>1, <2>1, <2>3 DEF Local
  <2> QED
    BY <2>2, <2>3
<1> QED
  BY <1>1, <1>2 DEF NoRace

(* The newest entry stays the last until its size has been added. *)
LEMMA NewestStep ==
  ASSUME ListInv, MInv, NoRace, NEW t \in Threads, allocate(t) \/ deallocate(t), NoRace',
         NEW p \in Procs, Newest(p)
  PROVE  Newest(p)'
<1>0. Local(t) /\ Shape /\ ProcInv(p) /\ Functions /\ pc \in [Threads -> PC] /\ ~raced'[p]
  BY RaceBack DEF ListInv, NoRace, Shape, Running
<1>1. \A u \in Threads \ {t} : pc'[u] = pc[u] /\ hd'[u] = hd[u] /\ req'[u] = req[u]
  BY <1>0 DEF Local
<1>2. CASE p # ProcOf[t]
  <2>1. list'[p] = list[p] /\ lost'[p] = lost[p]
    BY <1>0, <1>2 DEF Local
  <2>2. \A u \in Threads : ProcOf[u] = p => pc'[u] = pc[u] /\ hd'[u] = hd[u] /\ req'[u] = req[u]
    BY <1>1, <1>2
  <2> QED
    BY <2>1, <2>2 DEF Newest, EntryOf
<1>3. CASE p = ProcOf[t]
  <2> SUFFICES ASSUME NEW u \in Threads, ProcOf[u] = p, pc'[u] = "account"
               PROVE  /\ list'[p] # <<>>
                      /\ list'[p][Len(list'[p])] = EntryOf(u)'
                      /\ \A v \in Threads :
                           ProcOf[v] = p /\ pc'[v] = "unlink" /\ hd'[v] = hd'[u] => hd'[u] \notin lost'[p]
    BY DEF Newest
  <2>1. CASE u = t
    <3>1. list_add(t)
      BY <1>0, <2>1, Arrives
    <3> DEFINE x == EntryOf(t)
    <3>2. SetList(t, Append(list[p], x)) /\ hd' = hd /\ req' = req
      BY <1>3, <3>1 DEF list_add, EntryOf
    <3>3. /\ list'[p] = Append(list[p], x)
          /\ \A v \in Threads \ {t} : ProcOf[v] = p => pc[v] # "unlink"
      <4> PICK l : l = Append(list[p], x)
        OBVIOUS
      <4>1. Functions /\ SetList(t, l) /\ ~raced'[ProcOf[t]]
        BY <1>0, <1>3, <3>2
      <4>2. /\ list'[ProcOf[t]] = l
            /\ \A v \in Threads \ {t} : ProcOf[v] = ProcOf[t] => pc[v] # "unlink"
        BY ONLY <4>1, t \in Threads, SetListIs
      <4> QED
        BY <1>3, <4>2
    <3>4. list[p] \in Seq(Entry)
      BY <1>0 DEF ProcInv, ListTypes
    <3>5. list'[p] # <<>> /\ list'[p][Len(list'[p])] = x
      BY <3>3, <3>4
    <3>6. EntryOf(u)' = x
      BY <2>1, <3>2 DEF EntryOf
    <3> QED
      BY <1>1, <2>1, <3>3, <3>5, <3>6
  <2>2. CASE u # t
    <3>1. pc[u] = "account" /\ hd'[u] = hd[u] /\ EntryOf(u)' = EntryOf(u)
      BY <1>1, <2>2 DEF EntryOf
    <3>2. pc[t] \notin Inside /\ mutex[p] # None
      BY <1>3, <2>2, <3>1, Alone DEF Inside
    <3>3. /\ list[p] # <<>> /\ list[p][Len(list[p])] = EntryOf(u)
          /\ \A v \in Threads : ProcOf[v] = p /\ pc[v] = "unlink" /\ hd[v] = hd[u] => hd[u] \notin lost[p]
      BY <3>1 DEF Newest
    <3>4. lost' = lost
      BY <3>2, Frame DEF post_check_ignored, entry_fails, Inside
    <3>5. ~list_add(t) /\ ~remove_chunk(t)
      BY <1>3, <3>2 DEF list_add, Goto, remove_chunk, Inside
    <3>6. CASE unlink(t)
      <4> PICK g : g = hd[t]
        OBVIOUS
      <4>1. pc[t] = "unlink" /\ pc'[t] = "deduct"
        BY <1>0, <3>6 DEF unlink, Goto
      <4>2. g \in Handles /\ Find(list[p], g) # 0 /\ list[p] \in Seq(Entry)
        BY <1>0, <1>3, <4>1 DEF ProcInv, Holders, Dropping, Remembered, ListTypes
      <4>3. list'[p] = Without(list[p], Find(list[p], g))
        <5>1. SetList(t, IF Find(list[p], g) = 0 THEN list[p] ELSE Without(list[p], Find(list[p], g)))
          BY <1>3, <3>6 DEF unlink
        <5>2. list'[p] = IF Find(list[p], g) = 0 THEN list[p] ELSE Without(list[p], Find(list[p], g))
          BY <1>0, <1>3, <5>1, SetListIs
        <5> QED
          BY <4>2, <5>2
      <4>4. list[p][Len(list[p])].h # g \/ Weight(list[p], OfHandle(g)) >= 2
        <5> SUFFICES ASSUME list[p][Len(list[p])].h = g PROVE Weight(list[p], OfHandle(g)) >= 2
          OBVIOUS
        <5>1. hd[u] = g
          BY <3>3 DEF EntryOf
        <5>2. g \notin lost[p]
          BY <1>3, <3>3, <4>1, <5>1
        <5>3. drv[p][g] # 0 /\ \A v \in Threads : ProcOf[v] = p /\ pc[v] \in Untracked => hd[v] # g
          <6>1. drv[p][g] # 0
            BY <1>0, <3>1, <5>1 DEF ProcInv, Holders, Holding
          <6>2. \A v \in Threads : ProcOf[v] = p /\ pc[v] \in Holding /\ hd[v] = g => v = u
            BY <1>0, <3>1, <5>1 DEF ProcInv, Holders, Holding
          <6> QED
            BY <3>1, <6>1, <6>2 DEF Untracked, Holding
        <5>4. Settled(p, g)
          BY <5>3 DEF Settled
        <5>5. Drops(p, g) + 1 <= Weight(list[p], OfHandle(g))
          BY <1>0, <4>2, <5>2, <5>4 DEF ProcInv, Covered
        <5>6. Drops(p, g) >= 1 /\ Drops(p, g) \in Nat
          <6> DEFINE w == [v \in Threads |-> DropOf(v, p, g)]
          <6>1. w \in [Threads -> Nat] /\ IsFiniteSet(Threads)
            BY <1>0, <4>2, HandTypes, AllocatorAssumption DEF ProcInv, AllocatorAssumption
          <6>2. w[t] = 1 /\ Drops(p, g) = SumOf(w)
            BY <1>3, <4>1 DEF DropOf, Drops
          <6> HIDE DEF w
          <6>3. w[t] <= SumOf(w) /\ SumOf(w) \in Nat
            BY <6>1, SumPart, SumNat
          <6> QED
            BY <6>2, <6>3
        <5>7. Weight(list[p], OfHandle(g)) \in Nat
          BY <4>2, WeightNat, WeightTypes
        <5> QED
          BY <5>5, <5>6, <5>7
      <4>5. list'[p] # <<>> /\ list'[p][Len(list'[p])] = list[p][Len(list[p])]
        BY <4>2, <4>3, <4>4, LastKept
      <4> QED
        BY <1>1, <3>1, <3>3, <3>4, <4>1, <4>5
    <3>7. CASE remove_chunk_only(t)
      <4>1. list' = list /\ hd' = hd
        BY <3>7 DEF remove_chunk_only
      <4>2. hd[t] \notin lost[p]
        <5>1. raced' = [raced EXCEPT ![p] = @ \/ hd[t] \in lost[p]]
          BY <1>3, <3>7 DEF remove_chunk_only
        <5>2. raced = [q \in Procs |-> raced[q]]
          BY <1>0 DEF Functions
        <5>3. raced'[p] = (raced[p] \/ hd[t] \in lost[p])
          BY <5>1, <5>2, Zenon
        <5> QED
          BY <1>0, <5>3, Zenon
      <4> QED
        BY <1>1, <3>1, <3>3, <3>4, <4>1, <4>2
    <3>8. CASE list' = list /\ pc'[t] # "unlink"
      BY <1>1, <3>1, <3>3, <3>4, <3>8
    <3>9. pc'[t] = "unlink" => remove_chunk_only(t)
      BY <1>0, Arrives
    <3> QED
      BY <3>5, <3>6, <3>7, <3>8, <3>9, Frame
  <2> QED
    BY <2>1, <2>2
<1> QED
  BY <1>2, <1>3

(* The threads of a killed process take no step. *)
LEMMA NotGone ==
  ASSUME NEW t \in Threads, allocate(t) \/ deallocate(t)
  PROVE  pc[t] # "gone"
<1>1. CASE alloc_call(t)
  BY <1>1 DEF alloc_call, Goto
<1>2. CASE read_slot(t)
  BY <1>2 DEF read_slot
<1>3. CASE clear_and_retry(t)
  BY <1>3 DEF clear_and_retry
<1>4. CASE pre_check_fails(t)
  BY <1>4 DEF pre_check_fails
<1>5. CASE pre_check_passes(t)
  BY <1>5 DEF pre_check_passes, Goto
<1>6. CASE driver_alloc(t)
  BY <1>6 DEF driver_alloc, Goto
<1>7. CASE driver_alloc_fails(t)
  BY <1>7 DEF driver_alloc_fails
<1>8. CASE alloc_lock(t)
  BY <1>8 DEF alloc_lock, Goto
<1>9. CASE post_check_undoes(t)
  BY <1>9 DEF post_check_undoes, Goto
<1>10. CASE undo(t)
  BY <1>10 DEF undo
<1>11. CASE post_check_ignored(t)
  BY <1>11 DEF post_check_ignored
<1>12. CASE post_check_passes(t)
  BY <1>12 DEF post_check_passes, Goto
<1>13. CASE entry_fails(t)
  BY <1>13 DEF entry_fails
<1>14. CASE list_add(t)
  BY <1>14 DEF list_add, Goto
<1>15. CASE account(t)
  BY <1>15 DEF account
<1>16. CASE free_call(t)
  BY <1>16 DEF free_call
<1>17. CASE remove_chunk(t)
  BY <1>17 DEF remove_chunk, Goto
<1>18. CASE remove_chunk_unknown(t)
  BY <1>18 DEF remove_chunk_unknown
<1>19. CASE settle(t)
  BY <1>19 DEF settle, Goto
<1>20. CASE driver_free(t)
  BY <1>20 DEF driver_free
<1>21. CASE release_call(t)
  BY <1>21 DEF release_call, Goto
<1>22. CASE remove_chunk_only(t)
  BY <1>22 DEF remove_chunk_only, Goto
<1>23. CASE unlink(t)
  BY <1>23 DEF unlink, Goto
<1>24. CASE remove_chunk_only_unknown(t)
  BY <1>24 DEF remove_chunk_only_unknown
<1>25. CASE deduct(t)
  BY <1>25 DEF deduct
<1> QED
  BY <1>1, <1>2, <1>3, <1>4, <1>5, <1>6, <1>7, <1>8, <1>9, <1>10, <1>11, <1>12,
     <1>13, <1>14, <1>15, <1>16, <1>17, <1>18, <1>19, <1>20, <1>21, <1>22, <1>23,
     <1>24, <1>25
  DEF allocate, deallocate

(* What the total has to be is never negative: what a thread is about to add *)
(* is in the list.                                                           *)
LEMMA LedgerNatNext ==
  ASSUME NEW p \in Procs, NEW e \in Devs, ListTypes(p)', MInv', Newest(p)', Holders(p)'
  PROVE  Ledger(p, e)' \in Nat
<1> DEFINE w == [u \in Threads |-> HandOf(u, p, e, Entering)']
           v == [u \in Threads |-> HandOf(u, p, e, Leaving)']
<1>0. IsFiniteSet(Threads) /\ Word \in Nat \ {0} /\ None \notin Threads
  BY AllocatorAssumption DEF AllocatorAssumption
<1>1. w \in [Threads -> Nat] /\ v \in [Threads -> Nat]
  <2>1. Sizes \subseteq Nat /\ 0 \in Nat
    BY <1>0, AllocatorAssumption DEF AllocatorAssumption
  <2>2. \A u \in Threads : ProcOf[u] = p => req'[u].size \in Nat
    BY <2>1 DEF ListTypes, Requests
  <2> QED
    BY <2>1, <2>2 DEF HandOf
<1>2. \A u \in Threads : w[u] # 0 => ProcOf[u] = p /\ pc'[u] = "account" /\ Map[req'[u].dev] = e /\ w[u] = req'[u].size
  BY DEF HandOf, Entering
<1>3. list'[p] \in Seq(Entry)
  BY DEF ListTypes
<1>4. \A t, u \in Threads : w[t] # 0 /\ w[u] # 0 => t = u
  <2>1. \A u \in Threads : pc'[u] = "account" => mutex'[ProcOf[u]] = u
    BY DEF MInv, MutexDiscipline, Inside
  <2> HIDE DEF w
  <2> QED
    BY <1>2, <2>1
<1>5. ASSUME NEW u \in Threads, w[u] # 0
      PROVE  list'[p] # <<>> /\ w[u] = OnDev(e)[list'[p][Len(list'[p])]]
  <2>1. ProcOf[u] = p /\ pc'[u] = "account" /\ Map[req'[u].dev] = e /\ w[u] = req'[u].size
    BY <1>2, <1>5
  <2>2. list'[p] # <<>> /\ list'[p][Len(list'[p])] = EntryOf(u)'
    BY <2>1 DEF Newest
  <2>3. EntryOf(u)' \in Entry
    BY <2>1 DEF EntryOf, Entry, Holders, Holding, ListTypes, Requests
  <2>4. OnDev(e)[EntryOf(u)'] = req'[u].size
    BY <2>1, <2>3 DEF EntryOf, OnDev
  <2> QED
    BY <2>1, <2>2, <2>4
<1>6. Ledger(p, e)' = Weight(list'[p], OnDev(e)) + SumOf(v) - SumOf(w)
  <2>1. Listed(p, e)' = Weight(list'[p], OnDev(e))
    BY <1>3, ListedIs DEF Listed
  <2>2. InHand(p, e, Leaving)' = SumOf(v) /\ InHand(p, e, Entering)' = SumOf(w)
    BY DEF InHand, HandOf
  <2> QED
    BY <2>1, <2>2 DEF Ledger
<1> HIDE DEF w, v
<1>7. SumOf(w) <= Weight(list'[p], OnDev(e)) /\ SumOf(w) \in Nat /\ Weight(list'[p], OnDev(e)) \in Nat
  BY <1>1, <1>3, <1>4, <1>5, EnteringListed
<1>8. SumOf(v) \in Nat
  BY <1>0, <1>1, SumNat
<1> QED
  BY <1>6, <1>7, <1>8

(* A total that may not exceed the limit is exact: it has not wrapped. *)
LEMMA Exact ==
  ASSUME NEW d \in Devs, Limit[d] # 0, NEW x \in Nat, x <= Limit[d]
  PROVE  x % Word = x
<1>1. Word \in Nat \ {0} /\ Limit[d] \in 0 .. Word - 1
  BY AllocatorAssumption DEF AllocatorAssumption
<1>2. x \in 0 .. Word - 1
  BY <1>1
<1> QED
  BY <1>1, <1>2, SmallMod

(* The totals stay within the limit, and only a thread that has passed        *)
(* oom_check and has the mutex lets its own grow.                            *)
LEMMA BoundStep ==
  ASSUME NoWrap, ListInv, ListInv', MInv', NoRace, NEW t \in Threads, allocate(t) \/ deallocate(t), NoRace',
         NEW p \in Procs, Newest(p)', Bounded(p), Within(p), Room(t)
  PROVE  /\ Bounded(p)' /\ Within(p)'
         /\ (ProcOf[t] = p => pc[t] # "account") =>
              \A d \in Devs : Limit[d] # 0 => used'[p][d] <= used[p][d]
<1>0. /\ Local(t) /\ Shape /\ ProcInv(p) /\ ProcInv(p)' /\ Functions /\ pc \in [Threads -> PC] /\ ~raced'[p]
      /\ up' = up
  BY RaceBack DEF ListInv, NoRace, Shape, Running, Local
<1>a. /\ Word \in Nat \ {0} /\ Sizes \subseteq Nat /\ ProcOf[t] \in Procs
      /\ \A d \in Devs : Limit[d] \in Nat
  BY AllocatorAssumption DEF AllocatorAssumption
<1>1. CASE p \in up
  <2> SUFFICES ASSUME NEW e \in Devs
               PROVE  /\ Ledger(p, e)' \in Nat
                      /\ Limit[e] # 0 =>
                           /\ Ledger(p, e)' <= Limit[e] /\ used'[p][e] \in 0 .. Limit[e]
                           /\ (ProcOf[t] = p => pc[t] # "account") => used'[p][e] <= used[p][e]
    BY <1>0, <1>1 DEF Bounded, Within
  <2>1. Ledger(p, e)' \in Nat
    BY <1>0, LedgerNatNext DEF ProcInv
  <2>2. Ledger(p, e)' = Ledger(p, e) + Due(t, p, e) /\ Due(t, p, e) \in Int /\ Ledger(p, e) \in Nat
    BY <1>0, <1>1, LedgerStep DEF ProcInv, Bounded
  <2>3. CASE Limit[e] # 0
    <3>1. used[p][e] = Ledger(p, e) /\ Ledger(p, e) <= Limit[e]
      <4>1. Ledger(p, e) <= Limit[e]
        BY <1>1, <2>3 DEF Bounded
      <4>2. used[p][e] = Ledger(p, e) % Word
        BY <1>0, <1>1 DEF ProcInv, Usage, Ledger, Leaving, Entering
      <4> QED
        BY <2>2, <2>3, <4>1, <4>2, Exact
    <3>2. /\ Due(t, p, e) <= 0 \/ (ProcOf[t] = p /\ pc[t] = "account")
          /\ Ledger(p, e)' <= Limit[e]
      <4>1. CASE p = ProcOf[t]
        <5>1. Due(t, p, e) = Rise(t, e)
          BY <1>0, <4>1, OwnDue
        <5>2. req[t].size \in Nat /\ req[t].dev \in Devs
          BY <1>0, <1>a, <4>1 DEF ProcInv, ListTypes, Requests
        <5>3. CASE pc[t] = "account" /\ e = req[t].dev
          <6>1. Rise(t, e) = req[t].size
            BY <5>2, <5>3 DEF Rise, Entering, NoWrap
          <6>2. used[p][e] + req[t].size <= Limit[e]
            BY <2>3, <4>1, <5>3 DEF Room
          <6> QED
            BY <2>2, <3>1, <4>1, <5>1, <5>3, <6>1, <6>2
        <5>4. CASE ~(pc[t] = "account" /\ e = req[t].dev)
          <6>1. Rise(t, e) <= 0
            <7>1. Map[req[t].dev] = req[t].dev
              BY <5>2 DEF NoWrap
            <7>2. Rise(t, e) = 0 \/ Rise(t, e) = 0 - req[t].size
              BY <5>4, <7>1 DEF Rise, Entering
            <7> QED
              BY <5>2, <7>2
          <6> QED
            BY <1>a, <2>2, <3>1, <5>1, <6>1
        <5> QED
          BY <5>3, <5>4
      <4>2. CASE p # ProcOf[t]
        <5>1. list'[p] = list[p]
          BY <1>0, <4>2 DEF Local
        <5>2. Weight(list[p], OnDev(e)) \in Nat
          BY <1>0, WeightNat, WeightTypes DEF ProcInv, ListTypes
        <5>3. \A places : HandOf(t, p, e, places) = 0 /\ HandOf(t, p, e, places)' = 0
          BY <4>2 DEF HandOf
        <5>4. Due(t, p, e) = 0
          BY <5>1, <5>2, <5>3 DEF Due
        <5> QED
          BY <1>a, <2>2, <3>1, <5>4
      <4> QED
        BY <4>1, <4>2
    <3>3. used'[p][e] = Ledger(p, e)'
      <4>1. used'[p][e] = Ledger(p, e)' % Word
        BY <1>0, <1>1 DEF ProcInv, Usage, Ledger, Leaving, Entering
      <4> PICK x : x = Ledger(p, e)'
        OBVIOUS
      <4>2. x % Word = x
        BY <2>1, <2>3, <3>2, Exact
      <4> QED
        BY <4>1, <4>2
    <3> QED
      BY <1>a, <2>1, <2>2, <3>1, <3>2, <3>3
  <2> QED
    BY <2>1, <2>3
<1>2. CASE p \notin up
  <2>1. ProcOf[t] # p
    <3>1. pc[t] # "gone"
      BY NotGone
    <3> QED
      BY <1>0, <1>2, <3>1 DEF Shape, Running
  <2>2. used'[p] = used[p] \/ used'[p] = [d \in Devs |-> 0]
    <3>1. CASE clear_and_retry(t)
      BY <3>1 DEF clear_and_retry
    <3>2. CASE account(t)
      BY <1>0, <1>a, <2>1, <3>2 DEF account, Functions
    <3>3. CASE settle(t)
      BY <1>0, <1>a, <2>1, <3>3 DEF settle, Functions
    <3>4. CASE deduct(t)
      BY <1>0, <1>a, <2>1, <3>4 DEF deduct, Functions
    <3> QED
      BY <3>1, <3>2, <3>3, <3>4, Frame
  <2>3. Within(p)' /\ \A d \in Devs : Limit[d] # 0 => used'[p][d] <= used[p][d]
    BY <1>a, <2>2 DEF Within
  <2> QED
    BY <1>0, <1>2, <2>3 DEF Bounded
<1> QED
  BY <1>1, <1>2

(* A thread counts for itself. *)
LEMMA CountersStep ==
  ASSUME Counters, NEW t \in Threads, allocate(t) \/ deallocate(t)
  PROVE  Counters' /\ \A u \in Threads \ {t} : sum'[u] = sum[u] /\ at'[u] = at[u]
<1>1. CASE alloc_call(t)
  BY <1>1 DEF Counters, alloc_call, StartCheck
<1>2. CASE read_slot(t)
  BY <1>2 DEF Counters, read_slot
<1>3. CASE clear_and_retry(t)
  BY <1>3 DEF Counters, clear_and_retry, StartCheck
<1>4. CASE pre_check_fails(t)
  BY <1>4 DEF Counters, pre_check_fails, Return
<1>5. CASE pre_check_passes(t)
  BY <1>5 DEF Counters, pre_check_passes
<1>6. CASE driver_alloc(t)
  BY <1>6 DEF Counters, driver_alloc
<1>7. CASE driver_alloc_fails(t)
  BY <1>7 DEF Counters, driver_alloc_fails, Return
<1>8. CASE alloc_lock(t)
  BY <1>8 DEF Counters, alloc_lock, StartCheck
<1>9. CASE post_check_undoes(t)
  BY <1>9 DEF Counters, post_check_undoes
<1>10. CASE undo(t)
  BY <1>10 DEF Counters, undo, Return
<1>11. CASE post_check_ignored(t)
  BY <1>11 DEF Counters, post_check_ignored, Return
<1>12. CASE post_check_passes(t)
  BY <1>12 DEF Counters, post_check_passes
<1>13. CASE entry_fails(t)
  BY <1>13 DEF Counters, entry_fails, Return
<1>14. CASE list_add(t)
  BY <1>14 DEF Counters, list_add
<1>15. CASE account(t)
  BY <1>15 DEF Counters, account, Return
<1>16. CASE free_call(t)
  BY <1>16 DEF Counters, free_call
<1>17. CASE remove_chunk(t)
  BY <1>17 DEF Counters, remove_chunk
<1>18. CASE remove_chunk_unknown(t)
  BY <1>18 DEF Counters, remove_chunk_unknown, Return
<1>19. CASE settle(t)
  BY <1>19 DEF Counters, settle
<1>20. CASE driver_free(t)
  BY <1>20 DEF Counters, driver_free, Return
<1>21. CASE release_call(t)
  BY <1>21 DEF Counters, release_call
<1>22. CASE remove_chunk_only(t)
  BY <1>22 DEF Counters, remove_chunk_only
<1>23. CASE unlink(t)
  BY <1>23 DEF Counters, unlink
<1>24. CASE remove_chunk_only_unknown(t)
  BY <1>24 DEF Counters, remove_chunk_only_unknown, Return
<1>25. CASE deduct(t)
  BY <1>25 DEF Counters, deduct, Return
<1> QED
  BY <1>1, <1>2, <1>3, <1>4, <1>5, <1>6, <1>7, <1>8, <1>9, <1>10, <1>11, <1>12,
     <1>13, <1>14, <1>15, <1>16, <1>17, <1>18, <1>19, <1>20, <1>21, <1>22, <1>23,
     <1>24, <1>25
  DEF allocate, deallocate

(* The shares of contexts and pools stay what they may be. *)
LEMMA OtherStep ==
  ASSUME OtherTypes, [Next]_vars
  PROVE  OtherTypes'
<1>1. ASSUME NEW t \in Threads, allocate(t) \/ deallocate(t) PROVE other' = other \/ clear_and_retry(t)
  <2>1. CASE alloc_call(t)
    BY <2>1 DEF alloc_call
  <2>2. CASE read_slot(t)
    BY <2>2 DEF read_slot
  <2>3. CASE pre_check_fails(t)
    BY <2>3 DEF pre_check_fails
  <2>4. CASE pre_check_passes(t)
    BY <2>4 DEF pre_check_passes
  <2>5. CASE driver_alloc(t)
    BY <2>5 DEF driver_alloc
  <2>6. CASE driver_alloc_fails(t)
    BY <2>6 DEF driver_alloc_fails
  <2>7. CASE alloc_lock(t)
    BY <2>7 DEF alloc_lock
  <2>8. CASE post_check_undoes(t)
    BY <2>8 DEF post_check_undoes
  <2>9. CASE undo(t)
    BY <2>9 DEF undo
  <2>10. CASE post_check_ignored(t)
    BY <2>10 DEF post_check_ignored
  <2>11. CASE post_check_passes(t)
    BY <2>11 DEF post_check_passes
  <2>12. CASE entry_fails(t)
    BY <2>12 DEF entry_fails
  <2>13. CASE list_add(t)
    BY <2>13 DEF list_add
  <2>14. CASE account(t)
    BY <2>14 DEF account
  <2>15. CASE free_call(t)
    BY <2>15 DEF free_call
  <2>16. CASE remove_chunk(t)
    BY <2>16 DEF remove_chunk
  <2>17. CASE remove_chunk_unknown(t)
    BY <2>17 DEF remove_chunk_unknown
  <2>18. CASE settle(t)
    BY <2>18 DEF settle
  <2>19. CASE driver_free(t)
    BY <2>19 DEF driver_free
  <2>20. CASE release_call(t)
    BY <2>20 DEF release_call
  <2>21. CASE remove_chunk_only(t)
    BY <2>21 DEF remove_chunk_only
  <2>22. CASE unlink(t)
    BY <2>22 DEF unlink
  <2>23. CASE remove_chunk_only_unknown(t)
    BY <2>23 DEF remove_chunk_only_unknown
  <2>24. CASE deduct(t)
    BY <2>24 DEF deduct
  <2> QED
    BY <1>1, <2>1, <2>2, <2>3, <2>4, <2>5, <2>6, <2>7, <2>8, <2>9, <2>10, <2>11, <2>12,
       <2>13, <2>14, <2>15, <2>16, <2>17, <2>18, <2>19, <2>20, <2>21, <2>22, <2>23, <2>24
    DEF allocate, deallocate
<1>2. ASSUME NEW t \in Threads, clear_and_retry(t) PROVE OtherTypes'
  <2>1. other' = [p \in Procs |-> IF p \in DeadSlots THEN [d \in Devs |-> 0] ELSE other[p]]
    BY <1>2 DEF clear_and_retry
  <2>2. [d \in Devs |-> 0] \in [Devs -> 0 .. MaxOther] /\ \A p \in Procs : other[p] \in [Devs -> 0 .. MaxOther]
    BY AllocatorAssumption DEF AllocatorAssumption, OtherTypes
  <2> QED
    BY <2>1, <2>2 DEF OtherTypes
<1>3. ASSUME NEW p \in Procs, other_use(p) PROVE OtherTypes'
  BY <1>3 DEF other_use, OtherTypes
<1>4. ASSUME NEW p \in Procs, kill(p) PROVE OtherTypes'
  BY <1>4 DEF kill, OtherTypes
<1>5. CASE UNCHANGED vars
  BY <1>5 DEF vars, OtherTypes
<1> QED
  BY <1>1, <1>2, <1>3, <1>4, <1>5 DEF Next, OtherTypes

(* A sum over some of N slots, each within the limit L. *)
LEMMA SumBound ==
  ASSUME NEW N \in Nat, NEW a \in 1 .. N, NEW L \in Nat, NEW s \in Nat, NEW x \in 0 .. L, s <= (a - 1) * L
  PROVE  s + x \in Nat /\ s + x <= ((a + 1) - 1) * L /\ s + x <= N * L /\ N * L \in Nat
<1> PICK b \in Nat : a = b + 1
  <2>1. a - 1 \in Nat /\ a = (a - 1) + 1
    OBVIOUS
  <2> QED
    BY <2>1
<1> PICK k \in Nat : N = b + 1 + k
  <2>1. N - a \in Nat /\ N = b + 1 + (N - a)
    OBVIOUS
  <2> QED
    BY <2>1
<1>1. a - 1 = b /\ (a + 1) - 1 = b + 1
  OBVIOUS
<1>2. (b + 1) * L = b * L + L /\ (b + 1 + k) * L = b * L + L + k * L
  OBVIOUS
<1>3. b * L \in Nat /\ k * L \in Nat
  OBVIOUS
<1>4. s <= b * L
  BY <1>1
<1> QED
  BY <1>1, <1>2, <1>3, <1>4

(* A check under the mutex stays right while others go on, and what it finds  *)
(* free stays free.                                                          *)
LEMMA RoomStep ==
  ASSUME NoWrap, ListInv, MInv, NoRace, NEW t \in Threads, allocate(t) \/ deallocate(t), NoRace', Counters, OtherTypes,
         \A q \in Procs : Within(q), \A q \in Procs : Within(q)',
         \A q \in Procs : q \in up /\ (ProcOf[t] = q => pc[t] # "account") =>
                            \A d \in Devs : Limit[d] # 0 => used'[q][d] <= used[q][d],
         NEW u \in Threads, Summed(u), Room(u)
  PROVE  Summed(u)' /\ Room(u)'
<1>0. /\ Local(t) /\ Shape /\ Shape' /\ pc \in [Threads -> PC] /\ ProcOf[u] \in Procs
      /\ ProcInv(ProcOf[u]) /\ ProcInv(ProcOf[u])'
  <2>1. ProcOf[u] \in Procs
    BY AllocatorAssumption DEF AllocatorAssumption
  <2>2. ListInv'
    BY ListStep DEF Next
  <2> QED
    BY <2>1, <2>2, RaceBack DEF ListInv, NoRace, Shape, Running
<1> PICK p \in Procs : p = ProcOf[u]
  BY <1>0
<1>a. /\ Word \in Nat \ {0} /\ Sizes \subseteq Nat /\ Slots \in Seq(Procs)
      /\ \E i \in 1 .. Len(Slots) : Slots[i] = p
      /\ MaxOther \in Nat
      /\ \A d \in Devs : Limit[d] \in Nat
  BY AllocatorAssumption DEF AllocatorAssumption
<1>b. /\ req[u].size \in Sizes /\ req[u].dev \in Devs /\ req[u].size \in Nat
      /\ req'[u].size \in Nat /\ req'[u].dev \in Devs /\ req'[u].size \in Sizes
  <2>1. req[u] \in Requests /\ req'[u] \in Requests
    BY <1>0 DEF ProcInv, ListTypes
  <2> QED
    BY <1>a, <2>1 DEF Requests
<1>c. /\ \A d \in Devs : Limit[d] # 0 => used[p][d] \in 0 .. Limit[d] /\ used'[p][d] \in 0 .. Limit[d]
  BY DEF Within
<1>1. CASE u # t
  <2>1. pc'[u] = pc[u] /\ req'[u] = req[u] /\ sum'[u] = sum[u] /\ at'[u] = at[u]
    BY <1>0, <1>1, CountersStep DEF Local
  <2> PICK d \in Devs : d = req[u].dev
    BY <1>b
  <2>2. CASE pc[u] \in {"post", "entry", "account"} /\ Limit[d] # 0
    <3>1. p \in up
      BY <1>0, <2>2 DEF Shape, Running
    <3>2. ProcOf[t] = p => pc[t] # "account"
      BY <1>1, <2>2, Alone DEF Inside
    <3>3. used'[p][d] <= used[p][d] /\ used'[p][d] \in Nat /\ used[p][d] \in Nat
      BY <1>a, <1>c, <2>2, <3>1, <3>2
    <3>4. Summed(u)'
      BY <2>1, <3>3 DEF Summed
    <3>5. Room(u)'
      BY <1>a, <1>b, <2>1, <3>3 DEF Room
    <3> QED
      BY <3>4, <3>5
  <2>3. CASE ~(pc[u] \in {"post", "entry", "account"} /\ Limit[d] # 0)
    BY <2>1, <2>3 DEF Summed, Room
  <2> QED
    BY <2>2, <2>3
<1>2. CASE u = t
  <2>1. CASE pc'[t] = "account"
    <3>1. pc[t] = "entry" /\ req' = req /\ used' = used
      BY <1>0, <2>1, Arrives DEF list_add, Goto
    <3> QED
      BY <1>2, <2>1, <3>1 DEF Room, Summed
  <2>2. CASE pc'[t] = "entry"
    <3>1. pc[t] = "post" /\ req' = req /\ used' = used /\ Fits(t)
      BY <1>0, <2>2, Arrives DEF post_check_passes, Goto
    <3> PICK d \in Devs : d = req[t].dev
      BY <1>2, <1>b
    <3>2. CASE Limit[d] # 0
      <4> DEFINE L == Limit[d]
                 n == req[t].size
                 s == sum[t]
                 x == used[p][d]
                 M == L + MaxOther
      <4>1. /\ at[t] \in 1 .. (Len(Slots) + 1) /\ s \in Nat /\ s <= (at[t] - 1) * M
            /\ \A i \in 1 .. Len(Slots) : i < at[t] /\ Slots[i] = p => x <= s
        BY <1>2, <3>1, <3>2 DEF Summed
      <4>2. at[t] > Len(Slots)
        BY <3>1 DEF Fits, Checked
      <4>3. at[t] - 1 = Len(Slots)
        BY <1>a, <4>1, <4>2
      <4>4. x <= s
        BY <1>a, <4>1, <4>2
      <4>5. s <= Len(Slots) * M
        BY <4>1, <4>3
      <4>6. Len(Slots) * M + n < Word
        BY <1>2, <1>b, <3>2 DEF NoWrap
      <4>7. L \in Nat /\ n \in Nat /\ x \in Nat /\ Len(Slots) * M \in Nat
        BY <1>2, <1>a, <1>b, <1>c, <3>2
      <4>8. (s + n) % Word <= L
        <5>1. (s + n) % Word \in Int
          <6> PICK k \in Nat : k = s + n
            BY <4>1, <4>7
          <6>1. k \in Int /\ Word \in Nat \ {0}
            BY <1>a
          <6>2. k % Word \in 0 .. Word - 1
            BY ONLY <6>1, RemIs
          <6> QED
            BY <6>1, <6>2
        <5> QED
          BY <3>1, <3>2, <4>7, <5>1 DEF Fits, Over
      <4> HIDE DEF L, n, s, x, M
      <4>9. s + n \in 0 .. Word - 1
        BY <1>a, <4>1, <4>5, <4>6, <4>7
      <4>10. (s + n) % Word = s + n
        <5> PICK k : k = s + n
          OBVIOUS
        <5>1. k \in 0 .. Word - 1
          BY <4>9
        <5>2. k % Word = k
          BY ONLY <1>a, <5>1, SmallMod
        <5> QED
          BY <5>2
      <4>11. x + n <= L
        BY <4>1, <4>4, <4>7, <4>8, <4>10
      <4> QED
        BY <1>2, <2>2, <3>1, <4>11 DEF Room, Summed, L, n, x
    <3>3. CASE Limit[d] = 0
      BY <1>2, <2>2, <3>1, <3>3 DEF Room, Summed
    <3> QED
      BY <3>2, <3>3
  <2>3. CASE pc'[t] = "post"
    <3>1. CASE alloc_lock(t) \/ clear_and_retry(t)
      <4>1. sum'[t] = 0 /\ at'[t] = 1
        BY <3>1 DEF Counters, alloc_lock, clear_and_retry, StartCheck
      <4>2. 1 \in 1 .. (Len(Slots) + 1) /\ \A d \in Devs : 0 <= (1 - 1) * (Limit[d] + MaxOther)
        BY <1>a
      <4> QED
        BY <1>2, <1>b, <2>3, <4>1, <4>2 DEF Summed, Room
    <3>2. CASE read_slot(t)
      <4>1. /\ pc' = pc /\ req' = req /\ used' = used /\ ~(at[t] > Len(Slots)) /\ at'[t] = at[t] + 1
            /\ sum'[t] = (sum[t] + used[Slots[at[t]]][req[t].dev] + other[Slots[at[t]]][req[t].dev]) % Word
        BY <3>2 DEF read_slot, Checked, Counters
      <4> PICK d \in Devs : d = req[t].dev
        BY <1>2, <1>b
      <4>2. CASE Limit[d] # 0
        <5> PICK L : L = Limit[d]
          OBVIOUS
        <5> PICK a : a = at[t]
          OBVIOUS
        <5> PICK s : s = sum[t]
          OBVIOUS
        <5> PICK q : q = Slots[a]
          OBVIOUS
        <5> PICK y : y = used[q][d]
          OBVIOUS
        <5> PICK z : z = other[q][d]
          OBVIOUS
        <5>x. PICK x : x = y + z
          OBVIOUS
        <5>m. PICK M : M = L + MaxOther
          OBVIOUS
        <5>1. /\ a \in 1 .. (Len(Slots) + 1) /\ s \in Nat /\ s <= (a - 1) * M
              /\ \A i \in 1 .. Len(Slots) : i < a /\ Slots[i] = p => used[p][d] <= s
          BY <1>2, <2>3, <4>1, <4>2, <5>m DEF Summed
        <5>2. a \in 1 .. Len(Slots)
          BY <1>a, <4>1, <5>1
        <5>3. q \in Procs
          BY <1>a, <5>2
        <5>4. x \in 0 .. M /\ M \in Nat /\ y <= x /\ y \in Int /\ z \in Int
          <6>1. y \in 0 .. L /\ L \in Nat
            BY <1>a, <4>2, <5>3 DEF Within
          <6>2. z \in 0 .. MaxOther /\ MaxOther \in Nat
            BY <1>a, <5>3 DEF OtherTypes
          <6> QED
            BY ONLY <5>x, <5>m, <6>1, <6>2
        <5>5. Len(Slots) \in Nat
          BY <1>a
        <5>6. s + x \in Nat /\ s + x <= ((a + 1) - 1) * M /\ s + x <= Len(Slots) * M /\ Len(Slots) * M \in Nat
          BY <5>1, <5>2, <5>4, <5>5, SumBound
        <5>7. Len(Slots) * M < Word
          <6> PICK m : m = Len(Slots) * M
            OBVIOUS
          <6> PICK r : r = req[u].size
            OBVIOUS
          <6>1. m + r < Word
            BY <1>b, <4>2, <5>m DEF NoWrap
          <6>2. r \in Nat
            BY <1>b
          <6>3. m \in Nat /\ Word \in Nat
            BY <1>a, <5>6
          <6>4. m < Word
            BY ONLY <6>1, <6>2, <6>3
          <6> QED
            BY <6>4
        <5>8. s + x \in 0 .. Word - 1
          <6> PICK m : m = Len(Slots) * M
            OBVIOUS
          <6> PICK k : k = s + x
            OBVIOUS
          <6>1. m \in Nat /\ m < Word /\ k \in Nat /\ k <= m
            BY <5>6, <5>7
          <6>2. Word \in Nat
            BY <1>a
          <6>3. k \in 0 .. Word - 1
            BY ONLY <6>1, <6>2
          <6> QED
            BY <6>3
        <5>9. sum'[t] = s + x
          <6> PICK k : k = s + x
            OBVIOUS
          <6>1. k \in 0 .. Word - 1
            BY <5>8
          <6>2. k % Word = k
            BY ONLY <1>a, <6>1, SmallMod
          <6> QED
            <7>0. s \in Nat
              BY <5>1
            <7>1. s + y + z = s + x
              BY ONLY <5>x, <5>4, <7>0
            <7> QED
              BY <4>1, <6>2, <7>1
        <5>10. sum'[t] \in Nat /\ sum'[t] <= ((a + 1) - 1) * M /\ a + 1 \in 1 .. (Len(Slots) + 1)
          BY <5>2, <5>5, <5>6, <5>9
        <5>11. ASSUME NEW i \in 1 .. Len(Slots), i < a + 1, Slots[i] = p PROVE used[p][d] <= sum'[t]
          <6>1. CASE i < a
            <7>1. used[p][d] <= s /\ used[p][d] \in Nat
              <8>1. used[p][d] <= s
                BY <5>1, <5>11, <6>1
              <8>2. used[p][d] \in Nat
                BY <1>a, <1>c, <4>2
              <8> QED
                BY <8>1, <8>2
            <7>2. used[p][d] <= s + x
              BY ONLY <5>1, <5>4, <7>1
            <7> QED
              BY ONLY <5>9, <7>2
          <6>2. CASE i = a
            <7>1. used[p][d] = y
              BY <5>11, <6>2
            <7>2. y <= s + x
              <8>1. y \in Int
                BY <7>1, <1>c, <4>2
              <8> QED
                BY ONLY <5>1, <5>4, <8>1
            <7> QED
              BY ONLY <5>9, <7>1, <7>2
          <6> QED
            BY <5>2, <5>11, <6>1, <6>2
        <5> QED
          <6>1. Room(u)'
            BY <1>2, <2>3 DEF Room
          <6>2. /\ req'[u].dev = d /\ at'[u] = a + 1 /\ sum'[u] = sum'[t]
                /\ used'[ProcOf[u]] = used[p] /\ ProcOf[u] = p
            BY <1>2, <4>1
          <6>3. /\ at'[u] \in 1 .. (Len(Slots) + 1) /\ sum'[u] \in Nat
                /\ sum'[u] <= (at'[u] - 1) * (Limit[req'[u].dev] + MaxOther)
            <7>1. Limit[req'[u].dev] + MaxOther = M
              BY <5>m, <6>2
            <7> QED
              BY ONLY <5>10, <6>2, <7>1
          <6>4. ASSUME NEW i \in 1 .. Len(Slots), i < at'[u], Slots[i] = ProcOf[u]
                PROVE  used'[ProcOf[u]][req'[u].dev] <= sum'[u]
            <7>1. i < a + 1 /\ Slots[i] = p
              BY ONLY <6>2, <6>4
            <7>2. used[p][d] <= sum'[t]
              BY ONLY <5>11, <7>1
            <7> QED
              BY <6>2, <7>2
          <6>5. Summed(u)'
            BY ONLY <6>3, <6>4 DEF Summed
          <6> QED
            BY ONLY <6>1, <6>5
      <4>3. CASE Limit[d] = 0
        BY <1>2, <2>3, <4>1, <4>3 DEF Summed, Room
      <4> QED
        BY <4>2, <4>3
    <3> QED
      BY <1>0, <2>3, <3>1, <3>2, Arrives
  <2>4. CASE pc'[t] \notin {"post", "entry", "account"}
    BY <1>2, <2>4 DEF Summed, Room
  <2> QED
    BY <2>1, <2>2, <2>3, <2>4
<1> QED
  BY <1>1, <1>2

-----------------------------------------------------------------------------
(* The theorem *)

(* Nothing is used at first, and no check is under way. *)
LEMMA LimitInit == Init => LimitInv
<1> SUFFICES ASSUME Init PROVE LimitInv
  OBVIOUS
<1>1. Counters /\ OtherTypes
  <2>1. Counters
    BY DEF Init, Counters
  <2>2. 0 \in 0 .. MaxOther
    BY AllocatorAssumption DEF AllocatorAssumption
  <2> QED
    BY <2>1, <2>2 DEF Init, OtherTypes
<1>2. \A t \in Threads : Summed(t) /\ Room(t)
  BY DEF Init, Summed, Room
<1>3. \A p \in Procs : Newest(p)
  BY DEF Init, Newest
<1>4. \A p \in Procs : Within(p)
  BY AllocatorAssumption DEF Init, Within, AllocatorAssumption
<1>5. \A p \in Procs : Bounded(p)
  <2>1. \A d \in Devs : Limit[d] \in Nat
    BY AllocatorAssumption DEF AllocatorAssumption
  <2> QED
    BY <2>1, LedgerInit DEF Bounded
<1> QED
  BY <1>1, <1>2, <1>3, <1>4, <1>5 DEF LimitInv

(* The checks of the others outlive a killed process. *)
LEMMA LimitKill ==
  ASSUME ListInv, LimitInv, NEW p \in Procs, kill(p), OtherTypes'
  PROVE  LimitInv'
<1>1. /\ raced' = raced /\ used' = used /\ up' = up \ {p} /\ list' = [list EXCEPT ![p] = <<>>]
      /\ pc' = [t \in Threads |-> IF ProcOf[t] = p THEN "gone" ELSE pc[t]]
      /\ sum' = [t \in Threads |-> IF ProcOf[t] = p THEN 0 ELSE sum[t]]
      /\ at' = [t \in Threads |-> IF ProcOf[t] = p THEN 1 ELSE at[t]]
      /\ req' = [t \in Threads |-> IF ProcOf[t] = p THEN AnyRequest ELSE req[t]]
  BY DEF kill
<1>2. Counters'
  BY <1>1 DEF Counters
<1>3. ASSUME NoRace'
      PROVE  /\ \A q \in Procs : Newest(q)' /\ Within(q)' /\ Bounded(q)'
             /\ \A t \in Threads : Summed(t)' /\ Room(t)'
  <2>1. /\ \A q \in Procs : Newest(q) /\ Within(q) /\ Bounded(q)
        /\ \A t \in Threads : Summed(t) /\ Room(t)
    BY <1>1, <1>3 DEF LimitInv, NoRace
  <2>2. \A t \in Threads : Summed(t)' /\ Room(t)'
    BY <1>1, <2>1 DEF Summed, Room
  <2>3. ASSUME NEW q \in Procs PROVE Within(q)'
    BY <1>1, <2>1 DEF Within
  <2>4. ASSUME NEW q \in Procs PROVE Newest(q)' /\ Bounded(q)'
    <3>1. CASE q = p
      BY <1>1, <3>1 DEF Newest, Bounded
    <3>2. CASE q # p
      <4>1. /\ list'[q] = list[q] /\ lost'[q] = lost[q] /\ (q \in up' <=> q \in up)
            /\ \A u \in Threads : ProcOf[u] = q => pc'[u] = pc[u] /\ hd'[u] = hd[u] /\ req'[u] = req[u]
            /\ \A e \in Devs : Ledger(q, e)' = Ledger(q, e)
        BY <3>2, KillFrame DEF ListInv
      <4>2. Newest(q)'
        BY <2>1, <4>1 DEF Newest, EntryOf
      <4>3. Bounded(q)'
        BY <2>1, <4>1 DEF Bounded
      <4> QED
        BY <4>2, <4>3
    <3> QED
      BY <3>1, <3>2
  <2> QED
    BY <2>2, <2>3, <2>4
<1> QED
  BY <1>2, <1>3 DEF LimitInv

(* Every step keeps the totals within the limits. *)
LEMMA LimitStep ==
  ASSUME NoWrap, ListInv, MInv, LimitInv, [Next]_vars
  PROVE  LimitInv'
<1>0. ListInv' /\ MInv' /\ OtherTypes'
  BY ListStep, MutexStep, OtherStep DEF LimitInv
<1>1. ASSUME NEW t \in Threads, allocate(t) \/ deallocate(t)
      PROVE  LimitInv'
  <2>1. Counters'
    BY <1>1, CountersStep DEF LimitInv
  <2>2. ASSUME NoRace'
        PROVE  /\ \A q \in Procs : Newest(q)' /\ Within(q)' /\ Bounded(q)'
               /\ \A u \in Threads : Summed(u)' /\ Room(u)'
    <3>1. NoRace
      BY <1>1, <2>2, RaceBack
    <3>2. /\ \A q \in Procs : Newest(q) /\ Within(q) /\ Bounded(q)
          /\ \A u \in Threads : Summed(u) /\ Room(u)
      BY <3>1 DEF LimitInv
    <3>3. \A q \in Procs : Newest(q)'
      BY <1>1, <2>2, <3>1, <3>2, NewestStep
    <3>4. \A q \in Procs : /\ Bounded(q)' /\ Within(q)'
                           /\ (ProcOf[t] = q => pc[t] # "account") =>
                                 \A d \in Devs : Limit[d] # 0 => used'[q][d] <= used[q][d]
      BY <1>0, <1>1, <2>2, <3>1, <3>2, <3>3, BoundStep
    <3>5. \A u \in Threads : Summed(u)' /\ Room(u)'
      BY <1>1, <2>2, <3>1, <3>2, <3>4, RoomStep DEF LimitInv
    <3> QED
      BY <3>3, <3>4, <3>5
  <2> QED
    BY <1>0, <2>1, <2>2 DEF LimitInv
<1>2. ASSUME NEW p \in Procs, kill(p)
      PROVE  LimitInv'
  BY <1>0, <1>2, LimitKill
<1>3. CASE UNCHANGED allocVars
  BY <1>0, <1>3 DEF allocVars, LimitInv, Counters, NoRace, Newest, EntryOf, Within, Bounded, Ledger, Listed, InHand,
              Summed, Room
<1> QED
  BY <1>1, <1>2, <1>3, RestStep DEF Next

(* For any processes, threads, devices, limits, sizes and handles (with the   *)
(* same index for CUDA and NVML, and no sum that wraps): as long as no        *)
(* unlocked remove_chunk_only has raced, oom_check keeps what every process   *)
(* accounts on a device with add_chunk* within the limit of the device,       *)
(* whatever the other threads and processes allocate, free or get killed      *)
(* meanwhile, and whatever contexts and pools add to the totals.              *)
THEOREM LimitHolds ==
  ASSUME NoWrap
  PROVE  Spec => []ProcWithinLimit
<1>1. Init => ListInv /\ MInv /\ LimitInv
  BY ListInit, MutexInit, LimitInit
<1>2. ListInv /\ MInv /\ LimitInv /\ [Next]_vars => (ListInv /\ MInv /\ LimitInv)'
  BY ListStep, MutexStep, LimitStep
<1>3. LimitInv => ProcWithinLimit
  <2> SUFFICES ASSUME LimitInv, NoRace, NEW p \in Procs, NEW d \in Devs, Limit[d] # 0
               PROVE  used[p][d] <= Limit[d]
    BY DEF ProcWithinLimit, NoRace
  <2>1. Within(p)
    BY DEF LimitInv
  <2>2. Limit[d] \in Nat
    BY AllocatorAssumption DEF AllocatorAssumption
  <2> QED
    BY <2>1, <2>2 DEF Within
<1> QED
  BY <1>1, <1>2, <1>3, PTL DEF Spec

-----------------------------------------------------------------------------
(* The total of all processes.  Of the checks under the mutex that were       *)
(* passed, the one that started last has counted in every slot all but what   *)
(* was admitted there by a check that was then under way.  The invariant      *)
(* speaks of this check: A are the values it has read, with the size it       *)
(* admitted in the slot of its process s, and K the time at which it started; *)
(* and of the checks under way: rank says when they started, seen what they   *)
(* have read.                                                                 *)

Checking(t, d) == pc[t] = "post" /\ req[t].dev = d
Adding(t, d) == pc[t] \in {"entry", "account"} /\ req[t].dev = d

(* The total of r, with what is about to be added to it, is at most b. *)
Covers(d, r, b) ==
  /\ used[r][d] <= b
  /\ \A u \in Threads : ProcOf[u] = r /\ Adding(u, d) => used[r][d] + req[u].size <= b

(* What r may have if a check of s has read B[r]. *)
Allowed(B, s, r) == B[r] + IF r = s THEN 0 ELSE Largest

(* A check of s that started at k and has read B[r] will not have missed more *)
(* than one allocation in r: all of it is there, and an older check in r has  *)
(* not yet added what it will admit.                                          *)
Counted(d, B, s, k, rank, r) ==
  /\ Covers(d, r, Allowed(B, s, r))
  /\ \A u \in Threads :
       ProcOf[u] = r /\ Checking(u, d) /\ rank[u] < k => used[r][d] <= B[r] /\ r # s

GhostTypes(A, s, K, rank, seen, c) ==
  /\ A \in [Procs -> Nat] /\ s \in Procs /\ c \in Nat /\ K \in 0 .. c
  /\ rank \in [Threads -> 0 .. c] /\ seen \in [Threads -> [Procs -> Nat]]

(* A check that started after K and has read the slots below at[t]. *)
Young(d, K, rank, seen, t) ==
  Checking(t, d) /\ K <= rank[t] =>
    /\ SumOf(seen[t]) <= sum[t]
    /\ \A j \in 1 .. Len(Slots) :
         /\ j < at[t] => Counted(d, seen[t], ProcOf[t], rank[t], rank, Slots[j])
         /\ ~(j < at[t]) => seen[t][Slots[j]] = 0

Certified(d, A, s, K, rank, seen, c) ==
  /\ GhostTypes(A, s, K, rank, seen, c)
  /\ SumOf(A) <= Limit[d]
  /\ \A t, u \in Threads : Checking(t, d) /\ Checking(u, d) /\ rank[t] = rank[u] => t = u
  /\ \A r \in Procs : Counted(d, A, s, K, rank, r)
  /\ \A t \in Threads : Young(d, K, rank, seen, t)

TotalInv ==
  NoRace => \A d \in Devs : Limit[d] # 0 =>
    \E A, s, K, rank, seen, c : Certified(d, A, s, K, rank, seen, c)

-----------------------------------------------------------------------------

(* The largest size is one of them. *)
LEMMA LargestIs == Largest \in Nat /\ \A n \in Sizes : n \in Nat /\ n <= Largest
<1>1. Word \in Nat \ {0} /\ Sizes \subseteq 1 .. Word - 1 /\ Sizes # {}
  BY AllocatorAssumption DEF AllocatorAssumption
<1> DEFINE S == {Word - n : n \in Sizes}
<1>2. S \subseteq Nat /\ S # {}
  <2>1. \A n \in Sizes : Word - n \in Nat
    BY <1>1
  <2> QED
    BY <1>1, <2>1
<1> HIDE DEF S
<1>3. PICK j \in S : \A k \in S : j <= k
  BY <1>2, LeastIndex
<1>4. PICK m \in Sizes : j = Word - m
  BY DEF S
<1>5. \A n \in Sizes : n <= m
  <2> TAKE n \in Sizes
  <2>1. Word - n \in S
    BY DEF S
  <2>2. Word - m <= Word - n
    BY <1>3, <1>4, <2>1
  <2> QED
    BY <1>1, <2>2
<1>6. Largest \in Sizes /\ \A n \in Sizes : n <= Largest
  BY <1>5 DEF Largest
<1> QED
  BY <1>1, <1>6

(* Every process has a slot, and the slots are finitely many. *)
LEMMA ProcsFinite == IsFiniteSet(Procs)
<1>1. /\ Slots \in Seq(Procs) /\ \A p \in Procs : \E i \in DOMAIN Slots : Slots[i] = p
  BY AllocatorAssumption DEF AllocatorAssumption
<1>2. Slots \in [1 .. Len(Slots) -> Procs] /\ DOMAIN Slots = 1 .. Len(Slots) /\ Len(Slots) \in Nat
  BY <1>1
<1>3. Slots \in Surjection(1 .. Len(Slots), Procs)
  BY <1>1, <1>2 DEF Surjection
<1>4. IsFiniteSet(1 .. Len(Slots))
  BY <1>2, FS_Interval
<1> QED
  BY <1>3, <1>4, FS_Surjection

(* Where totals only shrink and no thread of r starts to add or to check, what *)
(* a check has counted in r stays counted.                                   *)
LEMMA CountedKept ==
  ASSUME NEW d, NEW B, NEW s, NEW k, NEW rank, NEW rank2, NEW r, Counted(d, B, s, k, rank, r),
         used[r][d] \in Nat, used'[r][d] \in Nat, used'[r][d] <= used[r][d], B[r] \in Nat,
         \A u \in Threads : ProcOf[u] = r =>
           /\ Adding(u, d)' => Adding(u, d) /\ req'[u] = req[u] /\ req[u].size \in Nat
           /\ Checking(u, d)' /\ rank2[u] < k => Checking(u, d) /\ rank[u] < k
  PROVE  Counted(d, B, s, k, rank2, r)'
<1>1. Largest \in Nat
  BY LargestIs
<1>2. PICK b \in Nat : b = Allowed(B, s, r)
  BY <1>1 DEF Allowed
<1>3. Covers(d, r, b)
  BY <1>2 DEF Counted
<1>4. used'[r][d] <= b
  BY <1>3 DEF Covers
<1>5. ASSUME NEW u \in Threads, ProcOf[u] = r, Adding(u, d)' PROVE used'[r][d] + req'[u].size <= b
  <2>1. Adding(u, d) /\ req'[u] = req[u] /\ req[u].size \in Nat
    BY <1>5
  <2>2. used[r][d] + req[u].size <= b
    BY <1>3, <1>5, <2>1 DEF Covers
  <2> QED
    BY <2>1, <2>2
<1>6. Covers(d, r, b)'
  BY <1>4, <1>5 DEF Covers
<1>7. Covers(d, r, Allowed(B, s, r))'
  BY <1>2, <1>6 DEF Allowed
<1>8. ASSUME NEW u \in Threads, ProcOf[u] = r, Checking(u, d)', rank2[u] < k
      PROVE  used'[r][d] <= B[r] /\ r # s
  <2>1. Checking(u, d) /\ rank[u] < k
    BY <1>8
  <2>2. used[r][d] <= B[r] /\ r # s
    BY <1>8, <2>1 DEF Counted
  <2> QED
    BY <2>2
<1> QED
  BY <1>7, <1>8 DEF Counted

(* The types that the steps below need. *)
TotalTypes(d) ==
  /\ d \in Devs /\ Limit[d] # 0
  /\ \A r \in Procs : used[r][d] \in Nat
  /\ \A u \in Threads : req[u].size \in Sizes

(* They follow from what is already invariant. *)
LEMMA TotalTyped ==
  ASSUME ListInv, LimitInv, NoRace, NEW d \in Devs, Limit[d] # 0
  PROVE  TotalTypes(d)
<1>1. \A r \in Procs : used[r][d] \in Nat
  <2>1. \A r \in Procs : Within(r)
    BY DEF LimitInv
  <2> QED
    BY <2>1 DEF Within
<1>2. ASSUME NEW u \in Threads PROVE req[u].size \in Sizes
  <2>1. ProcOf[u] \in Procs
    BY AllocatorAssumption DEF AllocatorAssumption
  <2>2. req[u] \in Requests
    BY <2>1 DEF ListInv, NoRace, ProcInv, ListTypes
  <2> QED
    BY <2>2 DEF Requests
<1> QED
  BY <1>1, <1>2 DEF TotalTypes

(* Every process has one slot. *)
LEMMA SlotsAre ==
  /\ Len(Slots) \in Nat /\ \A j \in 1 .. Len(Slots) : Slots[j] \in Procs
  /\ \A p \in Procs : \E j \in 1 .. Len(Slots) : Slots[j] = p
  /\ \A i, j \in 1 .. Len(Slots) : Slots[i] = Slots[j] => i = j
BY AllocatorAssumption DEF AllocatorAssumption

(* Frees, kills, and steps for another device. *)
LEMMA CertifiedQuiet ==
  ASSUME NEW d, TotalTypes(d), TotalTypes(d)', NEW A, NEW s, NEW K, NEW rank, NEW seen, NEW c,
         Certified(d, A, s, K, rank, seen, c),
         \A r \in Procs : used'[r][d] <= used[r][d],
         \A u \in Threads : Adding(u, d)' => Adding(u, d) /\ req'[u] = req[u],
         \A u \in Threads : Checking(u, d)' => Checking(u, d) /\ sum'[u] = sum[u] /\ at'[u] = at[u]
  PROVE  Certified(d, A, s, K, rank, seen, c)'
<1>1. GhostTypes(A, s, K, rank, seen, c)
  BY DEF Certified
<1>2. \A u \in Threads : req[u].size \in Nat
  BY LargestIs DEF TotalTypes
<1>3. ASSUME NEW B \in [Procs -> Nat], NEW q, NEW k, NEW r \in Procs, Counted(d, B, q, k, rank, r)
      PROVE  Counted(d, B, q, k, rank, r)'
  <2>1. used[r][d] \in Nat /\ used'[r][d] \in Nat /\ B[r] \in Nat
    BY DEF TotalTypes
  <2> QED
    BY <1>2, <1>3, <2>1, CountedKept
<1>4. \A r \in Procs : Counted(d, A, s, K, rank, r)'
  BY <1>1, <1>3 DEF Certified, GhostTypes
<1>5. ASSUME NEW t \in Threads, Checking(t, d)', K <= rank[t]
      PROVE  /\ SumOf(seen[t]) <= sum'[t]
             /\ \A j \in 1 .. Len(Slots) :
                  /\ j < at'[t] => Counted(d, seen[t], ProcOf[t], rank[t], rank, Slots[j])'
                  /\ ~(j < at'[t]) => seen[t][Slots[j]] = 0
  <2>1. Checking(t, d) /\ sum'[t] = sum[t] /\ at'[t] = at[t]
    BY <1>5
  <2>2. Young(d, K, rank, seen, t)
    BY DEF Certified
  <2>3. seen[t] \in [Procs -> Nat]
    BY <1>1 DEF GhostTypes
  <2>4. ASSUME NEW j \in 1 .. Len(Slots), j < at'[t]
        PROVE  Counted(d, seen[t], ProcOf[t], rank[t], rank, Slots[j])'
    <3>1. PICK r \in Procs : r = Slots[j]
      BY SlotsAre
    <3>2. Counted(d, seen[t], ProcOf[t], rank[t], rank, r)
      BY <1>5, <2>1, <2>2, <2>4, <3>1 DEF Young
    <3>3. Counted(d, seen[t], ProcOf[t], rank[t], rank, r)'
      BY <1>3, <2>3, <3>2
    <3> QED
      BY <3>1, <3>3
  <2> QED
    BY <1>5, <2>1, <2>2, <2>4 DEF Young
<1>6. \A t \in Threads : Young(d, K, rank, seen, t)'
  BY <1>5 DEF Young
<1>7. \A t, u \in Threads : Checking(t, d)' /\ Checking(u, d)' /\ rank[t] = rank[u] => t = u
  BY DEF Certified
<1> QED
  BY <1>1, <1>4, <1>6, <1>7 DEF Certified, GhostTypes

(* The other threads do not move. *)
Still(t) == \A u \in Threads \ {t} : pc'[u] = pc[u] /\ req'[u] = req[u] /\ sum'[u] = sum[u] /\ at'[u] = at[u]

(* A check starts, or starts again. *)
LEMMA CertifiedStart ==
  ASSUME NEW d, TotalTypes(d), TotalTypes(d)', NEW A, NEW s, NEW K, NEW rank, NEW seen, NEW c,
         Certified(d, A, s, K, rank, seen, c),
         \A r \in Procs : used'[r][d] <= used[r][d],
         NEW t \in Threads, Still(t), pc'[t] = "post", sum'[t] = 0, at'[t] = 1
  PROVE  \E rank2, seen2 : Certified(d, A, s, K, rank2, seen2, c + 1)'
<1> DEFINE Z == [p \in Procs |-> 0]
<1>0. PICK rank2 : rank2 = [rank EXCEPT ![t] = c + 1]
  OBVIOUS
<1>a. PICK seen2 : seen2 = [seen EXCEPT ![t] = Z]
  OBVIOUS
<1>1. GhostTypes(A, s, K, rank, seen, c)
  BY DEF Certified
<1>2. /\ c \in Nat /\ rank \in [Threads -> 0 .. c] /\ seen \in [Threads -> [Procs -> Nat]] /\ K \in 0 .. c
      /\ rank2[t] = c + 1 /\ seen2[t] = Z
      /\ \A u \in Threads \ {t} : rank2[u] = rank[u] /\ seen2[u] = seen[u]
  BY <1>0, <1>a, <1>1 DEF GhostTypes
<1>3. GhostTypes(A, s, K, rank2, seen2, c + 1)
  <2>1. rank2 \in [Threads -> 0 .. (c + 1)]
    BY <1>0, <1>2
  <2>2. seen2 \in [Threads -> [Procs -> Nat]]
    BY <1>a, <1>2
  <2> QED
    BY <1>1, <1>2, <2>1, <2>2 DEF GhostTypes
<1>4. \A u \in Threads : req[u].size \in Nat
  BY LargestIs DEF TotalTypes
<1>5. /\ ~Adding(t, d)'
      /\ \A u \in Threads \ {t} : (Adding(u, d)' <=> Adding(u, d)) /\ (Checking(u, d)' <=> Checking(u, d)) /\ req'[u] = req[u]
  BY DEF Still, Adding, Checking
<1>6. ASSUME NEW B \in [Procs -> Nat], NEW q, NEW k \in 0 .. c, NEW r \in Procs, Counted(d, B, q, k, rank, r)
      PROVE  Counted(d, B, q, k, rank2, r)'
  <2>1. used[r][d] \in Nat /\ used'[r][d] \in Nat /\ B[r] \in Nat
    BY DEF TotalTypes
  <2>2. ~(rank2[t] < k)
    BY <1>2
  <2>3. \A u \in Threads :
          /\ Adding(u, d)' => Adding(u, d) /\ req'[u] = req[u] /\ req[u].size \in Nat
          /\ Checking(u, d)' /\ rank2[u] < k => Checking(u, d) /\ rank[u] < k
    BY <1>2, <1>4, <1>5, <2>2
  <2> QED
    BY <1>6, <2>1, <2>3, CountedKept
<1>7. \A r \in Procs : Counted(d, A, s, K, rank2, r)'
  BY <1>1, <1>6 DEF Certified, GhostTypes
<1>8. ASSUME NEW u \in Threads, Checking(u, d)', K <= rank2[u]
      PROVE  /\ SumOf(seen2[u]) <= sum'[u]
             /\ \A j \in 1 .. Len(Slots) :
                  /\ j < at'[u] => Counted(d, seen2[u], ProcOf[u], rank2[u], rank2, Slots[j])'
                  /\ ~(j < at'[u]) => seen2[u][Slots[j]] = 0
  <2>1. CASE u = t
    <3>1. SumOf(Z) = 0
      BY SumZero
    <3>2. \A j \in 1 .. Len(Slots) : ~(j < 1) /\ Z[Slots[j]] = 0
      BY SlotsAre
    <3> QED
      BY <1>2, <2>1, <3>1, <3>2
  <2>2. CASE u # t
    <3>1. /\ Checking(u, d) /\ sum'[u] = sum[u] /\ at'[u] = at[u]
          /\ rank2[u] = rank[u] /\ seen2[u] = seen[u] /\ rank[u] \in 0 .. c
      BY <1>2, <1>5, <1>8, <2>2 DEF Still
    <3>2. Young(d, K, rank, seen, u)
      BY DEF Certified
    <3>3. seen[u] \in [Procs -> Nat]
      BY <1>2
    <3>4. ASSUME NEW j \in 1 .. Len(Slots), j < at'[u]
          PROVE  Counted(d, seen[u], ProcOf[u], rank[u], rank2, Slots[j])'
      <4>1. PICK r \in Procs : r = Slots[j]
        BY SlotsAre
      <4>2. Counted(d, seen[u], ProcOf[u], rank[u], rank, r)
        BY <1>8, <3>1, <3>2, <3>4, <4>1 DEF Young
      <4>3. Counted(d, seen[u], ProcOf[u], rank[u], rank2, r)'
        BY <1>6, <3>1, <3>3, <4>2
      <4> QED
        BY <4>1, <4>3
    <3> QED
      BY <1>8, <3>1, <3>2, <3>4 DEF Young
  <2> QED
    BY <2>1, <2>2
<1>9. \A u \in Threads : Young(d, K, rank2, seen2, u)'
  BY <1>8 DEF Young
<1>10. ASSUME NEW u \in Threads, NEW v \in Threads, Checking(u, d)', Checking(v, d)', rank2[u] = rank2[v]
       PROVE  u = v
  <2>1. \A x \in Threads \ {t} : rank2[x] # rank2[t]
    BY <1>2
  <2>2. u # t /\ v # t => Checking(u, d) /\ Checking(v, d) /\ rank[u] = rank[v]
    BY <1>2, <1>5, <1>10
  <2> QED
    BY <1>10, <2>1, <2>2 DEF Certified
<1>11. SumOf(A) <= Limit[d]
  BY DEF Certified
<1>12. Certified(d, A, s, K, rank2, seen2, c + 1)'
  BY <1>3, <1>7, <1>9, <1>10, <1>11 DEF Certified, GhostTypes
<1> QED
  BY <1>12

(* A check reads one more slot. *)
LEMMA CertifiedRead ==
  ASSUME NEW d, TotalTypes(d), NEW A, NEW s, NEW K, NEW rank, NEW seen, NEW c,
         Certified(d, A, s, K, rank, seen, c),
         NEW t \in Threads, Still(t), Checking(t, d), pc' = pc, req' = req, used' = used,
         NEW a \in 1 .. Len(Slots), at[t] = a, at'[t] = a + 1,
         sum[t] \in Nat, sum'[t] \in Nat, sum[t] + used[Slots[a]][d] <= sum'[t],
         \A u \in Threads \ {t} : ProcOf[u] = ProcOf[t] => ~Adding(u, d) /\ ~Checking(u, d)
  PROVE  \E seen2 : Certified(d, A, s, K, rank, seen2, c)'
<1>0. PICK q \in Procs : q = Slots[a]
  BY SlotsAre
<1>a. PICK seen2 : seen2 = [seen EXCEPT ![t] = [seen[t] EXCEPT ![q] = used[q][d]]]
  OBVIOUS
<1>1. GhostTypes(A, s, K, rank, seen, c)
  BY DEF Certified
<1>2. /\ c \in Nat /\ rank \in [Threads -> 0 .. c] /\ seen \in [Threads -> [Procs -> Nat]]
      /\ used[q][d] \in Nat /\ seen[t] \in [Procs -> Nat] /\ ProcOf[t] \in Procs
  BY <1>1, AllocatorAssumption DEF GhostTypes, TotalTypes, AllocatorAssumption
<1>3. /\ seen2 \in [Threads -> [Procs -> Nat]] /\ seen2[t] \in [Procs -> Nat]
      /\ seen2[t][q] = used[q][d] /\ \A r \in Procs \ {q} : seen2[t][r] = seen[t][r]
      /\ \A u \in Threads \ {t} : seen2[u] = seen[u]
  BY <1>a, <1>2
<1>4. \A B, x, k, r : Counted(d, B, x, k, rank, r)' <=> Counted(d, B, x, k, rank, r)
  BY DEF Counted, Covers, Allowed, Adding, Checking
<1>5. \A u \in Threads : Checking(u, d)' <=> Checking(u, d)
  BY DEF Checking
<1>6. ASSUME NEW u \in Threads \ {t} PROVE Young(d, K, rank, seen2, u)'
  <2>1. Young(d, K, rank, seen, u)
    BY DEF Certified
  <2>2. sum'[u] = sum[u] /\ at'[u] = at[u] /\ seen2[u] = seen[u]
    BY <1>3 DEF Still
  <2> QED
    BY <1>4, <1>5, <2>1, <2>2 DEF Young
<1>7. ASSUME K <= rank[t]
      PROVE  /\ SumOf(seen2[t]) <= sum'[t]
             /\ \A j \in 1 .. Len(Slots) :
                  /\ j < a + 1 => Counted(d, seen2[t], ProcOf[t], rank[t], rank, Slots[j])
                  /\ ~(j < a + 1) => seen2[t][Slots[j]] = 0
  <2>1. /\ SumOf(seen[t]) <= sum[t]
        /\ \A j \in 1 .. Len(Slots) :
             /\ j < a => Counted(d, seen[t], ProcOf[t], rank[t], rank, Slots[j])
             /\ ~(j < a) => seen[t][Slots[j]] = 0
    BY <1>7 DEF Certified, Young
  <2>2. seen[t][q] = 0
    BY <1>0, <2>1
  <2>3. SumOf(seen2[t]) = SumOf(seen[t]) - seen[t][q] + seen2[t][q] /\ SumOf(seen[t]) \in Nat
    <3>1. PICK w \in [Procs -> Nat] : w = seen[t]
      BY <1>2
    <3>2. PICK v \in [Procs -> Nat] : v = seen2[t]
      BY <1>3
    <3>3. \A i \in Procs \ {q} : v[i] = w[i]
      BY <1>3, <3>1, <3>2
    <3>4. SumOf(v) = SumOf(w) - w[q] + v[q] /\ SumOf(w) \in Nat
      <4>1. IsFiniteSet(Procs) /\ w \in [Procs -> Nat] /\ v \in [Procs -> Nat] /\ q \in Procs
        BY ProcsFinite
      <4> QED
        BY ONLY <3>3, <4>1, SumChange
    <3> QED
      BY <3>1, <3>2, <3>4
  <2>4. SumOf(seen2[t]) <= sum'[t]
    <3>1. PICK x \in Nat : x = used[q][d]
      BY <1>2
    <3>2. SumOf(seen2[t]) = SumOf(seen[t]) + x
      BY <1>3, <2>2, <2>3, <3>1
    <3>3. sum[t] + x <= sum'[t]
      BY <1>0, <3>1
    <3> QED
      BY <2>1, <2>3, <3>2, <3>3
  <2>5. \A j \in 1 .. Len(Slots) : j # a => Slots[j] \in Procs \ {q}
    BY <1>0, SlotsAre
  <2>6. Counted(d, seen2[t], ProcOf[t], rank[t], rank, q)
    <3>1. Largest \in Nat /\ \A u \in Threads : req[u].size \in Nat /\ req[u].size <= Largest
      BY LargestIs DEF TotalTypes
    <3>2. ASSUME NEW u \in Threads, ProcOf[u] = q, Adding(u, d)
          PROVE  used[q][d] + req[u].size <= Allowed(seen2[t], ProcOf[t], q)
      <4>1. u # t
        BY <3>2 DEF Adding, Checking
      <4>2. q # ProcOf[t]
        BY <3>2, <4>1
      <4>3. Allowed(seen2[t], ProcOf[t], q) = used[q][d] + Largest
        BY <1>3, <4>2 DEF Allowed
      <4>4. used[q][d] \in Nat /\ Largest \in Nat /\ req[u].size \in Nat /\ req[u].size <= Largest
        BY <1>2, <3>1
      <4> QED
        BY ONLY <4>3, <4>4
    <3>3. used[q][d] <= Allowed(seen2[t], ProcOf[t], q)
      BY <1>2, <1>3, <3>1 DEF Allowed
    <3>4. ASSUME NEW u \in Threads, ProcOf[u] = q, Checking(u, d), rank[u] < rank[t]
          PROVE  used[q][d] <= seen2[t][q] /\ q # ProcOf[t]
      <4>1. u # t
        <5>1. rank[t] \in Nat
          BY <1>2
        <5> QED
          BY <3>4, <5>1
      <4> QED
        BY <1>2, <1>3, <3>4, <4>1
    <3> QED
      BY <3>2, <3>3, <3>4 DEF Counted, Covers
  <2>7. ASSUME NEW r \in Procs \ {q}, Counted(d, seen[t], ProcOf[t], rank[t], rank, r)
        PROVE  Counted(d, seen2[t], ProcOf[t], rank[t], rank, r)
    <3>1. seen2[t][r] = seen[t][r]
      BY <1>3
    <3>2. Allowed(seen2[t], ProcOf[t], r) = Allowed(seen[t], ProcOf[t], r)
      BY <3>1 DEF Allowed
    <3> QED
      BY <2>7, <3>1, <3>2 DEF Counted
  <2>8. ASSUME NEW j \in 1 .. Len(Slots), j < a + 1
        PROVE  Counted(d, seen2[t], ProcOf[t], rank[t], rank, Slots[j])
    <3>1. CASE j = a
      BY <1>0, <2>6, <3>1
    <3>2. CASE j # a
      <4>1. j < a
        BY <2>8, <3>2
      <4>2. Counted(d, seen[t], ProcOf[t], rank[t], rank, Slots[j])
        BY <2>1, <4>1
      <4>3. Slots[j] \in Procs \ {q}
        BY <2>5, <3>2
      <4> QED
        BY <2>7, <4>2, <4>3
    <3> QED
      BY <3>1, <3>2
  <2>9. ASSUME NEW j \in 1 .. Len(Slots), ~(j < a + 1) PROVE seen2[t][Slots[j]] = 0
    <3>1. j # a /\ ~(j < a)
      BY <2>9
    <3> QED
      BY <1>3, <2>1, <2>5, <3>1
  <2> QED
    BY <2>4, <2>8, <2>9
<1>8. Young(d, K, rank, seen2, t)'
  <2>1. ASSUME K <= rank[t]
        PROVE  /\ SumOf(seen2[t]) <= sum'[t]
               /\ \A j \in 1 .. Len(Slots) :
                    /\ j < at'[t] => Counted(d, seen2[t], ProcOf[t], rank[t], rank, Slots[j])'
                    /\ ~(j < at'[t]) => seen2[t][Slots[j]] = 0
    BY <1>4, <1>7, <2>1
  <2> QED
    BY <2>1 DEF Young
<1>9. \A u \in Threads : Young(d, K, rank, seen2, u)'
  BY <1>6, <1>8
<1>10. \A r \in Procs : Counted(d, A, s, K, rank, r)'
  BY <1>4 DEF Certified
<1>11. GhostTypes(A, s, K, rank, seen2, c)
  BY <1>1, <1>3 DEF GhostTypes
<1>12. \A u, v \in Threads : Checking(u, d)' /\ Checking(v, d)' /\ rank[u] = rank[v] => u = v
  BY <1>5 DEF Certified
<1>13. SumOf(A) <= Limit[d]
  BY DEF Certified
<1>14. Certified(d, A, s, K, rank, seen2, c)'
  BY <1>9, <1>10, <1>11, <1>12, <1>13 DEF Certified, GhostTypes
<1> QED
  BY <1>14

(* A size is added to the total. *)
LEMMA CertifiedAccount ==
  ASSUME NEW d, TotalTypes(d), TotalTypes(d)', NEW A, NEW s, NEW K, NEW rank, NEW seen, NEW c,
         Certified(d, A, s, K, rank, seen, c),
         NEW t \in Threads, Still(t), Adding(t, d), pc'[t] = "idle",
         used'[ProcOf[t]][d] = used[ProcOf[t]][d] + req[t].size,
         \A r \in Procs \ {ProcOf[t]} : used'[r][d] <= used[r][d],
         \A u \in Threads \ {t} : ProcOf[u] = ProcOf[t] => ~Adding(u, d) /\ ~Checking(u, d)
  PROVE  Certified(d, A, s, K, rank, seen, c)'
<1>1. GhostTypes(A, s, K, rank, seen, c)
  BY DEF Certified
<1>2. \A u \in Threads : req[u].size \in Nat
  BY LargestIs DEF TotalTypes
<1>3. /\ ~Adding(t, d)' /\ ~Checking(t, d)'
      /\ \A u \in Threads \ {t} : (Adding(u, d)' <=> Adding(u, d)) /\ (Checking(u, d)' <=> Checking(u, d)) /\ req'[u] = req[u]
  BY DEF Still, Adding, Checking
<1>4. ASSUME NEW B \in [Procs -> Nat], NEW q, NEW k, NEW r \in Procs, Counted(d, B, q, k, rank, r)
      PROVE  Counted(d, B, q, k, rank, r)'
  <2>1. used[r][d] \in Nat /\ used'[r][d] \in Nat /\ B[r] \in Nat
    BY DEF TotalTypes
  <2>2. CASE r # ProcOf[t]
    BY <1>2, <1>3, <1>4, <2>1, <2>2, CountedKept
  <2>3. CASE r = ProcOf[t]
    <3>1. used'[r][d] <= Allowed(B, q, r)
      BY <1>4, <2>3 DEF Counted, Covers
    <3>2. \A u \in Threads : ProcOf[u] = r => ~Adding(u, d)' /\ ~Checking(u, d)'
      BY <1>3, <2>3
    <3>3. Allowed(B, q, r)' = Allowed(B, q, r)
      BY DEF Allowed
    <3> QED
      BY <3>1, <3>2, <3>3 DEF Counted, Covers
  <2> QED
    BY <2>2, <2>3
<1>5. \A r \in Procs : Counted(d, A, s, K, rank, r)'
  BY <1>1, <1>4 DEF Certified, GhostTypes
<1>6. ASSUME NEW u \in Threads, Checking(u, d)', K <= rank[u]
      PROVE  /\ SumOf(seen[u]) <= sum'[u]
             /\ \A j \in 1 .. Len(Slots) :
                  /\ j < at'[u] => Counted(d, seen[u], ProcOf[u], rank[u], rank, Slots[j])'
                  /\ ~(j < at'[u]) => seen[u][Slots[j]] = 0
  <2>1. u # t /\ Checking(u, d)
    BY <1>3, <1>6
  <2>2. sum'[u] = sum[u] /\ at'[u] = at[u]
    BY <2>1 DEF Still
  <2>3. Young(d, K, rank, seen, u) /\ seen[u] \in [Procs -> Nat]
    BY <1>1 DEF Certified, GhostTypes
  <2>4. ASSUME NEW j \in 1 .. Len(Slots), j < at'[u]
        PROVE  Counted(d, seen[u], ProcOf[u], rank[u], rank, Slots[j])'
    <3>1. PICK r \in Procs : r = Slots[j]
      BY SlotsAre
    <3>2. Counted(d, seen[u], ProcOf[u], rank[u], rank, r)
      BY <1>6, <2>1, <2>2, <2>3, <2>4, <3>1 DEF Young
    <3>3. Counted(d, seen[u], ProcOf[u], rank[u], rank, r)'
      BY <1>4, <2>3, <3>2
    <3> QED
      BY <3>1, <3>3
  <2> QED
    BY <1>6, <2>1, <2>2, <2>3, <2>4 DEF Young
<1>7. \A u \in Threads : Young(d, K, rank, seen, u)'
  BY <1>6 DEF Young
<1>8. \A u, v \in Threads : Checking(u, d)' /\ Checking(v, d)' /\ rank[u] = rank[v] => u = v
  BY <1>3 DEF Certified
<1> QED
  BY <1>1, <1>5, <1>7, <1>8 DEF Certified, GhostTypes

(* A check is passed: by one that is not the last, or by a new last one. *)
LEMMA CertifiedPass ==
  ASSUME NEW d, TotalTypes(d), NEW A, NEW s, NEW K, NEW rank, NEW seen, NEW c,
         Certified(d, A, s, K, rank, seen, c),
         NEW t \in Threads, Still(t), Checking(t, d), pc'[t] = "entry", req' = req, used' = used,
         at[t] \in Nat, at[t] > Len(Slots), sum[t] \in Nat, sum[t] + req[t].size <= Limit[d], Limit[d] \in Nat,
         \A u \in Threads \ {t} : ProcOf[u] = ProcOf[t] => ~Adding(u, d) /\ ~Checking(u, d)
  PROVE  \E A2, s2, K2 : Certified(d, A2, s2, K2, rank, seen, c)'
<1>1. GhostTypes(A, s, K, rank, seen, c)
  BY DEF Certified
<1>2. /\ A \in [Procs -> Nat] /\ s \in Procs /\ c \in Nat /\ K \in 0 .. c
      /\ rank \in [Threads -> 0 .. c] /\ seen \in [Threads -> [Procs -> Nat]] /\ seen[t] \in [Procs -> Nat]
  BY <1>1 DEF GhostTypes
<1>3. PICK p \in Procs : p = ProcOf[t]
  BY AllocatorAssumption DEF AllocatorAssumption
<1>4. PICK n \in Nat : n = req[t].size
  BY LargestIs DEF TotalTypes
<1>5. n <= Largest /\ Largest \in Nat
  BY <1>4, LargestIs DEF TotalTypes
<1>6. /\ Adding(t, d)' /\ ~Checking(t, d)'
      /\ \A u \in Threads \ {t} : (Adding(u, d)' <=> Adding(u, d)) /\ (Checking(u, d)' <=> Checking(u, d))
  BY DEF Still, Adding, Checking
(* What other checks have counted. *)
<1>7. ASSUME NEW B \in [Procs -> Nat], NEW q, NEW k, NEW r \in Procs, Counted(d, B, q, k, rank, r),
             r = p => rank[t] < k
      PROVE  Counted(d, B, q, k, rank, r)'
  <2>1. used[r][d] \in Nat /\ B[r] \in Nat
    BY DEF TotalTypes
  <2>2. Allowed(B, q, r)' = Allowed(B, q, r)
    BY DEF Allowed
  <2>3. ASSUME NEW u \in Threads, ProcOf[u] = r, Adding(u, d)'
        PROVE  used[r][d] + req[u].size <= Allowed(B, q, r)
    <3>1. CASE u # t
      BY <1>6, <1>7, <2>3, <3>1 DEF Counted, Covers
    <3>2. CASE u = t
      <4>1. rank[t] < k /\ r = p
        BY <1>3, <1>7, <2>3, <3>2
      <4>2. used[r][d] <= B[r] /\ r # q
        BY <1>3, <1>7, <4>1 DEF Counted
      <4>3. Allowed(B, q, r) = B[r] + Largest
        BY <4>2 DEF Allowed
      <4> QED
        BY <1>4, <1>5, <2>1, <3>2, <4>2, <4>3
    <3> QED
      BY <3>1, <3>2
  <2>4. used[r][d] <= Allowed(B, q, r)
    BY <1>7 DEF Counted, Covers
  <2>5. ASSUME NEW u \in Threads, ProcOf[u] = r, Checking(u, d)', rank[u] < k
        PROVE  used[r][d] <= B[r] /\ r # q
    BY <1>6, <1>7, <2>5 DEF Counted
  <2> QED
    BY <2>2, <2>3, <2>4, <2>5 DEF Counted, Covers
<1>8. ASSUME NEW k \in 0 .. c, rank[t] <= k, K <= k, NEW u \in Threads, Checking(u, d)', k <= rank[u]
      PROVE  /\ SumOf(seen[u]) <= sum'[u]
             /\ \A j \in 1 .. Len(Slots) :
                  /\ j < at'[u] => Counted(d, seen[u], ProcOf[u], rank[u], rank, Slots[j])'
                  /\ ~(j < at'[u]) => seen[u][Slots[j]] = 0
  <2>1. u # t /\ Checking(u, d)
    BY <1>6, <1>8
  <2>2. sum'[u] = sum[u] /\ at'[u] = at[u]
    BY <2>1 DEF Still
  <2>3. rank[u] # rank[t]
    BY <2>1 DEF Certified
  <2>4. rank[u] \in Nat /\ rank[t] \in Nat /\ K \in Nat /\ seen[u] \in [Procs -> Nat]
    BY <1>2
  <2>5. rank[t] < rank[u] /\ K <= rank[u]
    BY <1>8, <2>3, <2>4
  <2>6. Young(d, K, rank, seen, u)
    BY DEF Certified
  <2>7. ASSUME NEW j \in 1 .. Len(Slots), j < at'[u]
        PROVE  Counted(d, seen[u], ProcOf[u], rank[u], rank, Slots[j])'
    <3>1. PICK r \in Procs : r = Slots[j]
      BY SlotsAre
    <3>2. Counted(d, seen[u], ProcOf[u], rank[u], rank, r)
      BY <2>1, <2>2, <2>5, <2>6, <2>7, <3>1 DEF Young
    <3>3. Counted(d, seen[u], ProcOf[u], rank[u], rank, r)'
      BY <1>7, <2>4, <2>5, <3>2
    <3> QED
      BY <3>1, <3>3
  <2> QED
    BY <2>1, <2>2, <2>5, <2>6, <2>7 DEF Young
<1>9. \A u, v \in Threads : Checking(u, d)' /\ Checking(v, d)' /\ rank[u] = rank[v] => u = v
  BY <1>6 DEF Certified
<1>10. CASE rank[t] < K
  <2>1. \A r \in Procs : Counted(d, A, s, K, rank, r)'
    BY <1>2, <1>7, <1>10 DEF Certified
  <2>2. \A u \in Threads : Young(d, K, rank, seen, u)'
    <3>1. rank[t] <= K /\ K <= K
      BY <1>2, <1>10
    <3> QED
      BY <1>2, <1>8, <3>1 DEF Young
  <2>3. SumOf(A) <= Limit[d]
    BY DEF Certified
  <2>4. Certified(d, A, s, K, rank, seen, c)'
    BY <1>1, <1>9, <2>1, <2>2, <2>3 DEF Certified, GhostTypes
  <2> QED
    BY <2>4
<1>11. CASE ~(rank[t] < K)
  <2>0. PICK k \in 0 .. c : k = rank[t]
    BY <1>2
  <2>1. K <= k /\ k \in Nat
    BY <1>2, <1>11, <2>0
  <2>2. PICK w \in [Procs -> Nat] : w = seen[t]
    BY <1>2
  <2>3. PICK B : B = [w EXCEPT ![p] = w[p] + n]
    OBVIOUS
  <2>4. B \in [Procs -> Nat] /\ B[p] = w[p] + n /\ \A r \in Procs \ {p} : B[r] = w[r]
    BY <2>3
  <2>5. /\ SumOf(w) <= sum[t]
        /\ \A r \in Procs : Counted(d, w, p, k, rank, r)
    <3>1. Young(d, K, rank, seen, t)
      BY DEF Certified
    <3>2. /\ SumOf(seen[t]) <= sum[t]
          /\ \A j \in 1 .. Len(Slots) : j < at[t] => Counted(d, seen[t], ProcOf[t], rank[t], rank, Slots[j])
      BY <2>0, <2>1, <3>1 DEF Young
    <3>3. \A j \in 1 .. Len(Slots) : j < at[t]
      BY SlotsAre
    <3>4. \A r \in Procs : \E j \in 1 .. Len(Slots) : Slots[j] = r
      BY SlotsAre
    <3>5. \A r \in Procs : Counted(d, seen[t], ProcOf[t], rank[t], rank, r)
      BY <3>2, <3>3, <3>4
    <3> QED
      BY <1>3, <2>0, <2>2, <3>2, <3>5
  <2>6. SumOf(B) <= Limit[d]
    <3>1. \A i \in Procs \ {p} : B[i] = w[i]
      BY <2>4
    <3>2. IsFiniteSet(Procs) /\ w \in [Procs -> Nat] /\ B \in [Procs -> Nat] /\ p \in Procs
      BY <2>4, ProcsFinite
    <3>3. SumOf(B) = SumOf(w) - w[p] + B[p] /\ SumOf(w) \in Nat
      BY ONLY <3>1, <3>2, SumChange
    <3>4. w[p] \in Nat /\ n \in Nat /\ B[p] = w[p] + n
      BY <2>4
    <3>5. SumOf(w) + n <= Limit[d] /\ Limit[d] \in Nat
      <4>1. sum[t] + n <= Limit[d] /\ SumOf(w) <= sum[t] /\ sum[t] \in Nat /\ SumOf(w) \in Nat
        BY <1>4, <2>5, <3>3
      <4> QED
        BY <4>1
    <3> QED
      BY ONLY <3>3, <3>4, <3>5
  <2>7. ASSUME NEW r \in Procs \ {p} PROVE Counted(d, B, p, k, rank, r)'
    <3>1. Counted(d, w, p, k, rank, r)'
      BY <1>7, <2>5, <2>7
    <3>2. B[r] = w[r]
      BY <2>4
    <3> QED
      BY <3>1, <3>2 DEF Counted, Allowed, Covers
  <2>8. Counted(d, B, p, k, rank, p)'
    <3>1. used[p][d] \in Nat /\ w[p] \in Nat
      BY DEF TotalTypes
    <3>2. used[p][d] <= w[p]
      <4>1. Covers(d, p, Allowed(w, p, p))
        BY <2>5 DEF Counted
      <4>2. Allowed(w, p, p) = w[p]
        BY <3>1 DEF Allowed
      <4> QED
        BY <4>1, <4>2 DEF Covers
    <3>3. Allowed(B, p, p)' = w[p] + n
      BY <1>4, <2>4, <3>1 DEF Allowed
    <3>4. used[p][d] <= w[p] + n /\ used[p][d] + req[t].size <= w[p] + n
      BY <1>4, <3>1, <3>2
    <3>5. \A u \in Threads : ProcOf[u] = p => (Adding(u, d)' => u = t) /\ ~Checking(u, d)'
      BY <1>3, <1>6
    <3> QED
      BY <3>3, <3>4, <3>5 DEF Counted, Covers
  <2>9. \A r \in Procs : Counted(d, B, p, k, rank, r)'
    BY <2>7, <2>8
  <2>10. \A u \in Threads : Young(d, k, rank, seen, u)'
    <3>1. rank[t] <= k
      BY <2>0, <2>1
    <3> QED
      BY <1>8, <2>1, <3>1 DEF Young
  <2>11. GhostTypes(B, p, k, rank, seen, c)
    BY <1>2, <2>4 DEF GhostTypes
  <2>12. Certified(d, B, p, k, rank, seen, c)'
    BY <1>9, <2>6, <2>9, <2>10, <2>11 DEF Certified, GhostTypes
  <2> QED
    BY <2>12
<1> QED
  BY <1>10, <1>11

-----------------------------------------------------------------------------

(* Every step of a thread. *)
LEMMA CertifiedThread ==
  ASSUME NoWrap, ListInv, ListInv', MInv, MInv', LimitInv, LimitInv', NoRace',
         NEW t \in Threads, allocate(t) \/ deallocate(t), NEW d \in Devs, Limit[d] # 0,
         NEW A, NEW s, NEW K, NEW rank, NEW seen, NEW c, Certified(d, A, s, K, rank, seen, c)
  PROVE  \E A2, s2, K2, rank2, seen2, c2 : Certified(d, A2, s2, K2, rank2, seen2, c2)'
<1>0. NoRace /\ Local(t) /\ Shape /\ Functions /\ pc \in [Threads -> PC] /\ Counters /\ OtherTypes
  BY RaceBack DEF Shape, Running, LimitInv
<1>1. /\ \A q \in Procs : Newest(q) /\ Within(q) /\ Bounded(q) /\ Newest(q)' /\ Within(q)'
      /\ Summed(t) /\ Room(t)
  BY <1>0 DEF LimitInv
<1>2. TotalTypes(d) /\ TotalTypes(d)'
  <2>1. TotalTypes(d)
    BY <1>0, TotalTyped
  <2>2. \A r \in Procs : used'[r][d] \in Nat
    BY <1>1 DEF Within
  <2>3. ASSUME NEW u \in Threads PROVE req'[u].size \in Sizes
    <3>1. ProcOf[u] \in Procs
      BY AllocatorAssumption DEF AllocatorAssumption
    <3>2. req'[u] \in Requests
      BY <3>1 DEF ListInv, NoRace, ProcInv, ListTypes
    <3> QED
      BY <3>2 DEF Requests
  <2> QED
    BY <2>1, <2>2, <2>3 DEF TotalTypes
<1>3. Still(t)
  BY <1>0, CountersStep DEF Local, Still
<1>4. \A q \in Procs : (ProcOf[t] = q => pc[t] # "account") => used'[q][d] <= used[q][d]
  BY <1>0, <1>1, BoundStep
<1>5. PICK p \in Procs : p = ProcOf[t]
  BY AllocatorAssumption DEF AllocatorAssumption
<1>6. pc[t] \in Inside =>
        \A u \in Threads \ {t} : ProcOf[u] = ProcOf[t] => ~Adding(u, d) /\ ~Checking(u, d)
  BY Alone DEF Adding, Checking, Inside
<1>7. /\ req[t].size \in Sizes /\ req[t].size \in Nat /\ req[t].dev \in Devs
      /\ Word \in Nat \ {0} /\ Limit[d] \in Nat /\ used[p][d] \in Nat
  <2>1. req[t] \in Requests
    BY <1>0, <1>5 DEF ListInv, NoRace, ProcInv, ListTypes
  <2>2. Sizes \subseteq Nat /\ Word \in Nat \ {0} /\ Limit[d] \in Nat
    BY AllocatorAssumption DEF AllocatorAssumption
  <2> QED
    BY <1>2, <2>1, <2>2 DEF Requests, TotalTypes
(* Only the thread moves, and is not about to add or to check for d unless it  *)
(* was.                                                                      *)
<1>8. ASSUME \A r \in Procs : used'[r][d] <= used[r][d],
             Adding(t, d)' => Adding(t, d) /\ req'[t] = req[t],
             Checking(t, d)' => Checking(t, d) /\ sum'[t] = sum[t] /\ at'[t] = at[t]
      PROVE  Certified(d, A, s, K, rank, seen, c)'
  <2>1. \A u \in Threads : Adding(u, d)' => Adding(u, d) /\ req'[u] = req[u]
    BY <1>3, <1>8 DEF Still, Adding
  <2>2. \A u \in Threads : Checking(u, d)' => Checking(u, d) /\ sum'[u] = sum[u] /\ at'[u] = at[u]
    BY <1>3, <1>8 DEF Still, Checking
  <2> QED
    BY <1>2, <1>8, <2>1, <2>2, CertifiedQuiet
<1>9. CASE pc[t] = "account"
  <2>1. account(t)
    BY <1>9, Frame DEF clear_and_retry, settle, deduct, Goto
  <2>2. /\ pc'[t] = "idle"
        /\ used' = [used EXCEPT ![p][req[t].dev] = (@ + req[t].size) % Word]
    <3>1. Map[req[t].dev] = req[t].dev
      BY <1>7 DEF NoWrap
    <3> QED
      BY <1>0, <1>5, <2>1, <3>1 DEF account, Return
  <2>3. \A r \in Procs \ {p} : used'[r][d] <= used[r][d]
    BY <1>4, <1>5
  <2>4. /\ used = [q \in Procs |-> used[q]] /\ used[p] = [e \in Devs |-> used[p][e]]
    <3>1. p \in up
      BY <1>0, <1>5, <1>9 DEF Shape, Running
    <3>2. used[p] \in [Devs -> 0 .. Word - 1]
      BY <1>0, <3>1 DEF ListInv, NoRace, ProcInv, Usage
    <3> QED
      BY <1>0, <3>2 DEF Functions
  <2>5. CASE req[t].dev = d
    <3>1. used'[p][d] = (used[p][d] + req[t].size) % Word
      BY <2>2, <2>4, <2>5
    <3>2. used[p][d] + req[t].size <= Limit[d]
      BY <1>1, <1>5, <1>9, <2>5 DEF Room
    <3>3. PICK x \in Nat : x = used[p][d] + req[t].size
      BY <1>7
    <3>4. x % Word = x
      BY <3>2, <3>3, Exact
    <3>5. used'[ProcOf[t]][d] = used[ProcOf[t]][d] + req[t].size
      BY <1>5, <3>1, <3>3, <3>4
    <3>6. Adding(t, d)
      BY <1>9, <2>5 DEF Adding
    <3>7. \A u \in Threads \ {t} : ProcOf[u] = ProcOf[t] => ~Adding(u, d) /\ ~Checking(u, d)
      BY <1>6, <1>9 DEF Inside
    <3>8. Certified(d, A, s, K, rank, seen, c)'
      BY <1>2, <1>3, <1>5, <2>2, <2>3, <3>5, <3>6, <3>7, CertifiedAccount
    <3> QED
      BY <3>8
  <2>6. CASE req[t].dev # d
    <3>1. used'[p][d] = used[p][d]
      BY <2>2, <2>4, <2>6
    <3>2. \A r \in Procs : used'[r][d] <= used[r][d]
      BY <1>7, <2>3, <3>1
    <3>3. ~Adding(t, d)' /\ ~Checking(t, d)'
      BY <2>2 DEF Adding, Checking
    <3>4. Certified(d, A, s, K, rank, seen, c)'
      BY <1>8, <3>2, <3>3
    <3> QED
      BY <3>4
  <2> QED
    BY <2>5, <2>6
<1>10. CASE pc[t] # "account"
  <2>1. \A r \in Procs : used'[r][d] <= used[r][d]
    BY <1>4, <1>10
  <2>2. CASE pc'[t] = "post"
    <3>1. CASE alloc_lock(t) \/ clear_and_retry(t)
      <4>1. sum'[t] = 0 /\ at'[t] = 1
        BY <1>0, <3>1 DEF Counters, alloc_lock, clear_and_retry, StartCheck
      <4> QED
        BY <1>2, <1>3, <2>1, <2>2, <4>1, CertifiedStart
    <3>2. CASE read_slot(t)
      <4>1. /\ pc' = pc /\ req' = req /\ used' = used /\ ~(at[t] > Len(Slots)) /\ at'[t] = at[t] + 1
            /\ sum'[t] = (sum[t] + used[Slots[at[t]]][req[t].dev] + other[Slots[at[t]]][req[t].dev]) % Word
        BY <1>0, <3>2 DEF read_slot, Checked, Counters
      <4>2. CASE req[t].dev = d
        <5>1. Checking(t, d)
          BY <2>2, <4>1, <4>2 DEF Checking
        <5>2. PICK a : a = at[t]
          OBVIOUS
        <5>3. PICK m : m = sum[t]
          OBVIOUS
        <5>o. MaxOther \in Nat
          BY AllocatorAssumption DEF AllocatorAssumption
        <5>4. PICK L \in Nat : L = Limit[d] + MaxOther
          BY <1>7, <5>o
        <5>5. a \in 1 .. (Len(Slots) + 1) /\ m \in Nat /\ m <= (a - 1) * L
          BY <1>1, <4>2, <5>1, <5>2, <5>3, <5>4 DEF Summed, Checking
        <5>6. Len(Slots) \in Nat
          BY SlotsAre
        <5>7. a \in 1 .. Len(Slots)
          BY <4>1, <5>2, <5>5, <5>6
        <5>8. PICK q \in Procs : q = Slots[a]
          BY <5>7, SlotsAre
        <5>y. used[q][d] \in 0 .. Limit[d] /\ other[q][d] \in 0 .. MaxOther
          BY <1>0, <1>1 DEF Within, OtherTypes
        <5>9. PICK x \in 0 .. L : x = used[q][d] + other[q][d] /\ used[q][d] <= x
          BY <1>7, <5>4, <5>o, <5>y
        <5>10. PICK k \in Nat : k = m + x /\ k <= Len(Slots) * L /\ Len(Slots) * L \in Nat
          BY <5>5, <5>6, <5>7, SumBound
        <5>11. k % Word = k
          <6>1. PICK N \in Nat : N = Len(Slots) * L
            BY <5>10
          <6>2. N + req[t].size < Word
            BY <1>7, <5>4, <6>1 DEF NoWrap
          <6>3. k \in 0 .. Word - 1
            BY <1>7, <5>10, <6>1, <6>2
          <6> QED
            BY ONLY <1>7, <6>3, SmallMod
        <5>12. sum[t] \in Nat /\ sum'[t] \in Nat /\ sum[t] + used[Slots[a]][d] <= sum'[t]
          <6>1. PICK y, z : y = used[q][d] /\ z = other[q][d]
            OBVIOUS
          <6>2. y \in Nat /\ z \in Nat /\ x = y + z /\ y <= x
            BY <5>9, <5>y, <6>1
          <6>3. sum'[t] = (m + y + z) % Word
            BY <4>1, <4>2, <5>2, <5>3, <5>8, <6>1
          <6>4. m + y + z = k
            BY ONLY <5>5, <5>10, <6>2
          <6>5. sum'[t] = k
            BY ONLY <5>11, <6>3, <6>4
          <6>6. m + y <= k
            BY ONLY <5>5, <5>10, <6>2
          <6> QED
            BY <5>2, <5>3, <5>5, <5>8, <6>1, <6>5, <6>6
        <5>13. \A u \in Threads \ {t} : ProcOf[u] = ProcOf[t] => ~Adding(u, d) /\ ~Checking(u, d)
          BY <1>6, <5>1 DEF Inside, Checking
        <5>14. at[t] = a /\ at'[t] = a + 1
          BY <4>1, <5>2
        <5>15. \E seen2 : Certified(d, A, s, K, rank, seen2, c)'
          BY <1>2, <1>3, <4>1, <5>1, <5>7, <5>12, <5>13, <5>14, CertifiedRead
        <5> QED
          BY <5>15
      <4>3. CASE req[t].dev # d
        <5>1. ~Checking(t, d)' /\ ~Adding(t, d)'
          BY <4>1, <4>3 DEF Checking, Adding
        <5>2. Certified(d, A, s, K, rank, seen, c)'
          BY <1>8, <2>1, <5>1
        <5> QED
          BY <5>2
      <4> QED
        BY <4>2, <4>3
    <3> QED
      BY <1>0, <2>2, <3>1, <3>2, Arrives
  <2>3. CASE pc'[t] = "entry"
    <3>1. pc[t] = "post" /\ req' = req /\ used' = used /\ Fits(t)
      BY <1>0, <2>3, Arrives DEF post_check_passes, Goto
    <3>2. CASE req[t].dev = d
      <4>1. Checking(t, d)
        BY <3>1, <3>2 DEF Checking
      <4>2. PICK a : a = at[t]
        OBVIOUS
      <4>3. PICK m : m = sum[t]
        OBVIOUS
      <4>4. PICK L \in Nat : L = Limit[d]
        BY <1>7
      <4>o. PICK M \in Nat : M = L + MaxOther
        BY AllocatorAssumption DEF AllocatorAssumption
      <4>5. PICK n \in Nat : n = req[t].size
        BY <1>7
      <4>6. a \in 1 .. (Len(Slots) + 1) /\ m \in Nat /\ m <= (a - 1) * M
        BY <1>1, <3>1, <3>2, <4>2, <4>3, <4>4, <4>o DEF Summed
      <4>7. a > Len(Slots) /\ Len(Slots) \in Nat
        BY <3>1, <4>2, SlotsAre DEF Fits, Checked
      <4>8. a - 1 = Len(Slots)
        BY <4>6, <4>7
      <4>9. PICK N \in Nat : N = Len(Slots) * M
        BY <4>o, <4>7
      <4>10. m <= N
        BY <4>6, <4>8, <4>9
      <4>11. N + n < Word
        BY <1>7, <4>4, <4>o, <4>5, <4>9 DEF NoWrap
      <4>12. PICK k \in 0 .. Word - 1 : k = m + n
        BY <1>7, <4>6, <4>10, <4>11
      <4>13. k % Word = k
        BY ONLY <1>7, <4>12, SmallMod
      <4>14. k <= L
        <5>1. ~(k % Word > L)
          BY <3>1, <3>2, <4>3, <4>4, <4>5, <4>12 DEF Fits, Over
        <5> QED
          BY <1>7, <4>13, <5>1
      <4>15. sum[t] \in Nat /\ sum[t] + req[t].size <= Limit[d] /\ at[t] \in Nat /\ at[t] > Len(Slots)
        BY <4>2, <4>3, <4>4, <4>5, <4>6, <4>7, <4>12, <4>14
      <4>16. \A u \in Threads \ {t} : ProcOf[u] = ProcOf[t] => ~Adding(u, d) /\ ~Checking(u, d)
        BY <1>6, <3>1 DEF Inside
      <4>17. \E A2, s2, K2 : Certified(d, A2, s2, K2, rank, seen, c)'
        BY <1>2, <1>3, <1>7, <2>3, <3>1, <4>1, <4>15, <4>16, CertifiedPass
      <4> QED
        BY <4>17
    <3>3. CASE req[t].dev # d
      <4>1. ~Checking(t, d)' /\ ~Adding(t, d)'
        BY <3>1, <3>3 DEF Checking, Adding
      <4>2. Certified(d, A, s, K, rank, seen, c)'
        BY <1>8, <2>1, <4>1
      <4> QED
        BY <4>2
    <3> QED
      BY <3>2, <3>3
  <2>4. CASE pc'[t] = "account"
    <3>1. pc[t] = "entry" /\ req' = req
      BY <1>0, <2>4, Arrives DEF list_add, Goto
    <3>2. ~Checking(t, d)' /\ (Adding(t, d)' => Adding(t, d) /\ req'[t] = req[t])
      BY <2>4, <3>1 DEF Checking, Adding
    <3>3. Certified(d, A, s, K, rank, seen, c)'
      BY <1>8, <2>1, <3>2
    <3> QED
      BY <3>3
  <2>5. CASE pc'[t] \notin {"post", "entry", "account"}
    <3>1. ~Checking(t, d)' /\ ~Adding(t, d)'
      BY <2>5 DEF Checking, Adding
    <3>2. Certified(d, A, s, K, rank, seen, c)'
      BY <1>8, <2>1, <3>1
    <3> QED
      BY <3>2
  <2> QED
    BY <2>2, <2>3, <2>4, <2>5
<1> QED
  BY <1>9, <1>10

(* Nothing is used at first, and no check is under way. *)
LEMMA TotalInit == Init => TotalInv
<1> SUFFICES ASSUME Init, NEW d \in Devs, Limit[d] # 0
             PROVE  \E A, s, K, rank, seen, c : Certified(d, A, s, K, rank, seen, c)
  BY DEF TotalInv
<1>1. PICK s : s \in Procs
  BY AllocatorAssumption DEF AllocatorAssumption
<1>2. PICK Z \in [Procs -> Nat] : Z = [p \in Procs |-> 0]
  <2>1. [p \in Procs |-> 0] \in [Procs -> Nat]
    OBVIOUS
  <2> QED
    BY <2>1, Zenon
<1>3. PICK rank \in [Threads -> 0 .. 0] : rank = [u \in Threads |-> 0]
  <2>1. [u \in Threads |-> 0] \in [Threads -> 0 .. 0]
    OBVIOUS
  <2> QED
    BY <2>1, Zenon
<1>4. PICK seen \in [Threads -> [Procs -> Nat]] : seen = [u \in Threads |-> Z]
  BY <1>2
<1>5. GhostTypes(Z, s, 0, rank, seen, 0)
  BY <1>1 DEF GhostTypes
<1>6. SumOf(Z) <= Limit[d]
  <2>1. \A p \in Procs : Z[p] = 0
    BY <1>2
  <2>2. SumOf(Z) = 0
    BY <2>1, SumZero
  <2>3. Limit[d] \in Nat
    BY AllocatorAssumption DEF AllocatorAssumption
  <2> QED
    BY <2>2, <2>3
<1>7. \A u \in Threads : ~Checking(u, d) /\ ~Adding(u, d)
  BY DEF Init, Checking, Adding
<1>8. ASSUME NEW r \in Procs PROVE Counted(d, Z, s, 0, rank, r)
  <2>1. used[r][d] = 0 /\ Z[r] = 0
    BY <1>2 DEF Init
  <2>2. used[r][d] <= Allowed(Z, s, r)
    BY <2>1, LargestIs DEF Allowed
  <2> QED
    BY <1>7, <2>2 DEF Counted, Covers
<1>9. \A u \in Threads : Young(d, 0, rank, seen, u)
  BY <1>7 DEF Young
<1>10. Certified(d, Z, s, 0, rank, seen, 0)
  BY <1>5, <1>6, <1>7, <1>8, <1>9 DEF Certified
<1> QED
  BY <1>10

(* Every step keeps a check that has counted nearly everything. *)
LEMMA TotalStep ==
  ASSUME NoWrap, ListInv, MInv, LimitInv, TotalInv, [Next]_vars
  PROVE  TotalInv'
<1>0. ListInv' /\ MInv' /\ LimitInv'
  BY ListStep, MutexStep, LimitStep
<1> SUFFICES ASSUME NoRace', NEW d \in Devs, Limit[d] # 0
             PROVE  \E A2, s2, K2, rank2, seen2, c2 : Certified(d, A2, s2, K2, rank2, seen2, c2)'
  BY DEF TotalInv
<1>1. ASSUME NEW t \in Threads, allocate(t) \/ deallocate(t)
      PROVE  \E A2, s2, K2, rank2, seen2, c2 : Certified(d, A2, s2, K2, rank2, seen2, c2)'
  <2>1. NoRace
    BY <1>1, RaceBack
  <2>2. PICK A, s, K, rank, seen, c : Certified(d, A, s, K, rank, seen, c)
    BY <2>1 DEF TotalInv
  <2> QED
    BY <1>0, <1>1, <2>2, CertifiedThread
<1>2. ASSUME NEW p \in Procs, kill(p)
      PROVE  \E A2, s2, K2, rank2, seen2, c2 : Certified(d, A2, s2, K2, rank2, seen2, c2)'
  <2>1. /\ raced' = raced /\ used' = used
        /\ pc' = [t \in Threads |-> IF ProcOf[t] = p THEN "gone" ELSE pc[t]]
        /\ sum' = [t \in Threads |-> IF ProcOf[t] = p THEN 0 ELSE sum[t]]
        /\ at' = [t \in Threads |-> IF ProcOf[t] = p THEN 1 ELSE at[t]]
        /\ req' = [t \in Threads |-> IF ProcOf[t] = p THEN AnyRequest ELSE req[t]]
    BY <1>2 DEF kill
  <2>2. NoRace
    BY <2>1 DEF NoRace
  <2>3. PICK A, s, K, rank, seen, c : Certified(d, A, s, K, rank, seen, c)
    BY <2>2 DEF TotalInv
  <2>4. TotalTypes(d)
    BY <2>2, TotalTyped
  <2>5. TotalTypes(d)'
    BY <2>1, <2>4, AnyRequestIs DEF TotalTypes, Requests
  <2>6. \A r \in Procs : used'[r][d] <= used[r][d]
    BY <2>1, <2>4 DEF TotalTypes
  <2>7. \A u \in Threads : Adding(u, d)' => Adding(u, d) /\ req'[u] = req[u]
    BY <2>1 DEF Adding
  <2>8. \A u \in Threads : Checking(u, d)' => Checking(u, d) /\ sum'[u] = sum[u] /\ at'[u] = at[u]
    BY <2>1 DEF Checking
  <2>9. Certified(d, A, s, K, rank, seen, c)'
    BY <2>3, <2>4, <2>5, <2>6, <2>7, <2>8, CertifiedQuiet
  <2> QED
    BY <2>9
<1>3. CASE UNCHANGED allocVars
  <2>1. NoRace
    BY <1>3 DEF NoRace, allocVars
  <2>2. PICK A, s, K, rank, seen, c : Certified(d, A, s, K, rank, seen, c)
    BY <2>1 DEF TotalInv
  <2>3. pc' = pc /\ req' = req /\ used' = used /\ sum' = sum /\ at' = at
    BY <1>3 DEF allocVars
  <2>4. \A B, q, k, r : Counted(d, B, q, k, rank, r)' <=> Counted(d, B, q, k, rank, r)
    BY <2>3 DEF Counted, Covers, Allowed, Adding, Checking
  <2>5. \A u \in Threads : (Checking(u, d)' <=> Checking(u, d)) /\ (Young(d, K, rank, seen, u)' <=> Young(d, K, rank, seen, u))
    BY <2>3, <2>4 DEF Young, Checking
  <2>6. Certified(d, A, s, K, rank, seen, c)'
    BY <2>2, <2>4, <2>5 DEF Certified, GhostTypes
  <2> QED
    BY <2>6
<1> QED
  BY <1>1, <1>2, <1>3, RestStep DEF Next

(* The bound. *)
LEMMA TotalBound ==
  ASSUME ListInv, LimitInv, TotalInv
  PROVE  TotalBounded
<1> SUFFICES ASSUME NoRace, NEW d \in Devs, Limit[d] # 0
             PROVE  SumOf([p \in Procs |-> used[p][d]]) <= Limit[d] + (Cardinality(Procs) - 1) * Largest
  BY DEF TotalBounded, NoRace
<1>1. PICK A, s, K, rank, seen, c : Certified(d, A, s, K, rank, seen, c)
  BY DEF TotalInv
<1>2. A \in [Procs -> Nat] /\ s \in Procs
  BY <1>1 DEF Certified, GhostTypes
<1>3. TotalTypes(d) /\ Largest \in Nat /\ Limit[d] \in Nat
  BY TotalTyped, LargestIs, AllocatorAssumption DEF AllocatorAssumption
<1>4. PICK w \in [Procs -> Nat] : w = [p \in Procs |-> used[p][d]]
  BY <1>3 DEF TotalTypes
<1>5. PICK x \in [Procs -> Nat] : x = [r \in Procs |-> IF r = s THEN 0 ELSE Largest]
  BY <1>3
<1>6. ASSUME NEW r \in Procs PROVE w[r] <= A[r] + x[r]
  <2>1. Counted(d, A, s, K, rank, r)
    BY <1>1 DEF Certified
  <2>2. used[r][d] <= Allowed(A, s, r)
    BY <2>1 DEF Counted, Covers
  <2> QED
    BY <1>4, <1>5, <2>2 DEF Allowed
<1>7. SumOf(w) <= SumOf(A) + SumOf(x) /\ SumOf(w) \in Nat /\ SumOf(A) \in Nat /\ SumOf(x) \in Nat
  BY <1>2, <1>6, ProcsFinite, SumOfTwo
<1>8. SumOf(x) = (Cardinality(Procs) - 1) * Largest
  <2>1. x[s] = 0 /\ \A r \in Procs \ {s} : x[r] = Largest
    BY <1>2, <1>5
  <2> QED
    BY <1>2, <1>3, <2>1, ProcsFinite, SumFlat
<1>9. SumOf(A) <= Limit[d]
  BY <1>1 DEF Certified
<1>10. SumOf(w) <= Limit[d] + SumOf(x)
  BY <1>3, <1>7, <1>9
<1> QED
  BY <1>4, <1>8, <1>10

(* For any processes, threads, devices, limits, sizes and handles (with the   *)
(* same index for CUDA and NVML, and no sum that wraps), however many checks  *)
(* of oom_check in different processes overlap and for however long: as long  *)
(* as no unlocked remove_chunk_only has raced, the processes together exceed  *)
(* the limit, contexts and pools apart, by at most one allocation for every   *)
(* process but one.                                                           *)
THEOREM OvershootBounded ==
  ASSUME NoWrap
  PROVE  Spec => []TotalBounded
<1>1. Init => ListInv /\ MInv /\ LimitInv /\ TotalInv
  BY ListInit, MutexInit, LimitInit, TotalInit
<1>2. ListInv /\ MInv /\ LimitInv /\ TotalInv /\ [Next]_vars => (ListInv /\ MInv /\ LimitInv /\ TotalInv)'
  BY ListStep, MutexStep, LimitStep, TotalStep
<1>3. ListInv /\ LimitInv /\ TotalInv => TotalBounded
  BY TotalBound
<1> QED
  BY <1>1, <1>2, <1>3, PTL DEF Spec
=============================================================================
