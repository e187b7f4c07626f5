--------------------------- MODULE ProcSlotsProofs ---------------------------
(***************************************************************************)
(* Proofs about ProcSlots, for any processes, any size of the table, any   *)
(* number of kicks and of reused pids.                                     *)
(***************************************************************************)
EXTENDS ProcSlots, FiniteSetTheorems, TLAPS

-----------------------------------------------------------------------------
(* The inductive invariant *)

Phases == {"new", "find", "publish", "clear", "run", "mark", "done"}

Slot == [pid : Procs \cup {NoPid}, used : Nat, odd : BOOLEAN]

Walk == [pc : {"no", "look", "copy"}, at : 0..MaxSlots, kicks : Nat]

SlotTypes ==
  /\ procs \in [Slots -> Slot]
  /\ procNum \in 0..MaxSlots
  /\ lock \in Procs \cup {NoPid}
  /\ up \in [Procs -> BOOLEAN]
  /\ ph \in [Procs -> Phases]
  /\ found \in [Procs -> Slots]
  /\ mySlot \in [Procs -> Slots \cup {NoSlot}]
  /\ walk \in [Procs -> Walk]
  /\ wr \in [Procs -> {"no", "add", "rm", "end"}]
  /\ target \in [Procs -> Slots \cup {NoSlot}]
  /\ held \in [Procs -> 0..MaxHeld]

(* Who registers has the lock; at most one process walks, and alone. *)
Exclusive ==
  /\ \A p \in Procs : ph[p] \in {"find", "publish", "clear"} <=> lock = p
  /\ \A p, q \in Procs : Walking(p) /\ Walking(q) => p = q
  /\ \A p \in Procs : Walking(p) => \/ lock = p /\ ph[p] = "clear"
                                    \/ lock = NoPid /\ ph[p] \in {"run", "mark", "done"}

(* A process that does not exist, or has no slot yet. *)
Unborn ==
  \A p \in Procs :
    /\ ~up[p] => ph[p] = "new"
    /\ ph[p] \in {"new", "find"} => mySlot[p] = NoSlot
    /\ ph[p] \notin {"run", "mark", "done"} => wr[p] = "no" /\ held[p] = 0

Copying(p) == walk[p].pc = "copy"

(* The process has a slot that nobody may take away. *)
Seated(p) == up[p] /\ ph[p] \in {"clear", "run", "mark"}

(* A slot is removed only if it is marked or of a process without a seat;    *)
(* the slot that is about to be published is the one above the last.         *)
Places ==
  \A p \in Procs :
    /\ Copying(p) =>
         /\ procNum \in Slots /\ walk[p].at <= procNum
         /\ \A q \in Procs : procs[walk[p].at].pid = q => ~Seated(q)
    /\ ph[p] = "publish" =>
         /\ mySlot[p] = procNum
         /\ procNum \in Slots
         /\ procs[procNum].pid = p
         /\ SlotsOf(p, procNum) = {}

(* Membership of Counted, without its choice of the walker. *)
Counts(i) ==
  /\ i \in Slots
  /\ IF \E p \in Procs : Copying(p)
       THEN i <= procNum /\ (i = procNum \/ \A p \in Procs : Copying(p) => walk[p].at # i)
       ELSE i < procNum

(* Every pid is in one slot at most, and that of a seated process in one. *)
Seats ==
  /\ \A i, j \in Slots :
       Counts(i) /\ Counts(j) /\ procs[i].pid = procs[j].pid /\ procs[i].pid # NoPid => i = j
  /\ \A p \in Procs : Seated(p) => \E i \in Slots : Counts(i) /\ procs[i].pid = p

(* An update that has begun stays within the bounds. *)
Updates ==
  \A p \in Procs : /\ wr[p] = "add" => held[p] < MaxHeld
                   /\ wr[p] = "rm" => held[p] > 0

TableInv == SlotTypes /\ Exclusive /\ Unborn /\ Updates /\ Places /\ Seats

(* The cached pointer leads to the slot, and the slot follows the updates.   *)
OwnPointer(p) ==
  /\ ph[p] = "publish" => procs[procNum] = FreshSlot(p)
  /\ Seated(p) =>
       \E i \in Slots : /\ mySlot[p] = i /\ Counts(i)
                        /\ procs[i].pid = p
                        /\ procs[i].used = held[p]
                        /\ procs[i].odd <=> wr[p] # "no"

Pointers == \A p \in Procs : OwnPointer(p)

(* The pointer that an update has taken is still the cached one. *)
Aims == \A p \in Procs : wr[p] # "no" => target[p] = mySlot[p]

SlotsInv == /\ Intact => TableInv
            /\ foul = {} => Pointers /\ Aims
-----------------------------------------------------------------------------
(* Steps *)

(* The history variable only grows. *)
LEMMA FoulGrows == [Next]_vars => foul \subseteq foul'
<1> SUFFICES ASSUME [Next]_vars PROVE foul \subseteq foul'
  OBVIOUS
<1>1. ASSUME NEW p \in Procs, init_lock(p) PROVE foul \subseteq foul'
  BY <1>1 DEF init_lock, Advance
<1>2. ASSUME NEW p \in Procs, init_full(p) PROVE foul \subseteq foul'
  BY <1>2 DEF init_full
<1>3. ASSUME NEW p \in Procs, init_reuse(p) PROVE foul \subseteq foul'
  BY <1>3 DEF init_reuse, Advance
<1>4. ASSUME NEW p \in Procs, init_append(p) PROVE foul \subseteq foul'
  BY <1>4 DEF init_append, Advance
<1>5. ASSUME NEW p \in Procs, init_publish(p) PROVE foul \subseteq foul'
  BY <1>5 DEF init_publish, Advance
<1>6. ASSUME NEW p \in Procs, init_unlock(p) PROVE foul \subseteq foul'
  BY <1>6 DEF init_unlock, Advance
<1>7. ASSUME NEW p \in Procs, oom_clear(p) PROVE foul \subseteq foul'
  BY <1>7 DEF oom_clear
<1>8. ASSUME NEW p \in Procs, walk_remove(p) PROVE foul \subseteq foul'
  BY <1>8 DEF walk_remove
<1>9. ASSUME NEW p \in Procs, walk_keep(p) PROVE foul \subseteq foul'
  BY <1>9 DEF walk_keep
<1>10. ASSUME NEW p \in Procs, walk_end(p) PROVE foul \subseteq foul'
  BY <1>10 DEF walk_end
<1>11. ASSUME NEW p \in Procs, walk_copy(p) PROVE foul \subseteq foul'
  BY <1>11 DEF walk_copy
<1>12. ASSUME NEW p \in Procs, NEW d \in {"add", "rm"}, usage_begin(p, d) PROVE foul \subseteq foul'
  BY <1>12 DEF usage_begin
<1>13. ASSUME NEW p \in Procs, usage_total(p) PROVE foul \subseteq foul'
  BY <1>13 DEF usage_total
<1>14. ASSUME NEW p \in Procs, usage_end(p) PROVE foul \subseteq foul'
  BY <1>14 DEF usage_end
<1>15. ASSUME NEW p \in Procs, exit_scan(p) PROVE foul \subseteq foul'
  BY <1>15 DEF exit_scan, Advance
<1>16. ASSUME NEW p \in Procs, exit_mark(p) PROVE foul \subseteq foul'
  BY <1>16 DEF exit_mark, Advance
<1>17. ASSUME NEW p \in Procs, Vanish(p) PROVE foul \subseteq foul'
  BY <1>17 DEF Vanish
<1>18. ASSUME NEW p \in Procs, restart(p) PROVE foul \subseteq foul'
  BY <1>18 DEF restart
<1>19. CASE UNCHANGED vars
  BY <1>19 DEF vars
<1> QED
  BY <1>1, <1>2, <1>3, <1>4, <1>5, <1>6, <1>7, <1>8, <1>9, <1>10, <1>11,
     <1>12, <1>13, <1>14, <1>15, <1>16, <1>17, <1>18, <1>19
  DEF Next, init_proc_slot_withlock, clear_proc_slot_nolock, gpu_device_memory_usage,
      exit_handler, exited, kill

(* A set of slots that is not empty has a least one. *)
LEMMA LeastSlot ==
  ASSUME NEW S, S \subseteq Nat, S # {}
  PROVE  \E j \in S : \A k \in S : j <= k
<1> DEFINE R == OpToRel(<, Nat)
<1>1. IsWellFoundedOn(R, Nat)
  BY NatLessThanWellFounded
<1>2. \E j \in S : \A k \in S : ~(<<k, j>> \in R)
  BY <1>1, WFMin
<1>3. PICK j \in S : \A k \in S : ~(<<k, j>> \in R)
  BY <1>2
<1>4. R = {ss \in Nat \X Nat : ss[1] < ss[2]}
  BY Zenon DEF OpToRel
<1> HIDE DEF R
<1>5. \A k \in S : ~(k < j)
  BY <1>3, <1>4
<1> QED
  BY <1>5

(* The slot that the search for the own pid finds carries that pid. *)
LEMMA FirstOwn ==
  ASSUME NEW p \in Procs, NEW n, SlotsOf(p, n) # {}
  PROVE  First(SlotsOf(p, n)) \in SlotsOf(p, n)
<1>1. SlotsOf(p, n) \subseteq Nat
  BY SlotsAssumption DEF SlotsAssumption, SlotsOf, Slots
<1>2. \E j \in SlotsOf(p, n) : \A k \in SlotsOf(p, n) : j <= k
  BY <1>1, LeastSlot
<1> QED
  BY <1>2 DEF First

(* What writing a slot, or one field of it, changes. *)
LEMMA SlotWritten ==
  ASSUME procs \in [Slots -> Slot], NEW i, NEW v \in Slot, procs' = [procs EXCEPT ![i] = v]
  PROVE  /\ procs' \in [Slots -> Slot]
         /\ \A j \in Slots : procs'[j] = IF j = i THEN v ELSE procs[j]
  OBVIOUS

(* Marking a slot changes its pid and no other slot. *)
LEMMA PidWritten ==
  ASSUME procs \in [Slots -> Slot], NEW i, procs' = [procs EXCEPT ![i].pid = NoPid]
  PROVE  /\ procs' \in [Slots -> Slot]
         /\ \A j \in Slots : /\ procs'[j].pid = IF j = i THEN NoPid ELSE procs[j].pid
                             /\ j # i => procs'[j] = procs[j]
  BY DEF Slot

(* An update of the total changes that one field, modulo the word. *)
LEMMA UsedWritten ==
  ASSUME procs \in [Slots -> Slot], NEW i, NEW d \in {1, -1},
         procs' = [procs EXCEPT ![i].used = (@ + d) % Word]
  PROVE  /\ procs' \in [Slots -> Slot]
         /\ \A j \in Slots : /\ procs'[j].pid = procs[j].pid
                             /\ procs'[j].odd = procs[j].odd
                             /\ procs'[j].used = IF j = i THEN (procs[j].used + d) % Word
                                                ELSE procs[j].used
<1>1. \A u \in Nat : (u + d) % Word \in Nat
  BY SlotsAssumption DEF SlotsAssumption
<1>2. \A j \in Slots : procs[j] \in Slot /\ procs[j].used \in Nat
  BY DEF Slot
<1>3. \A j \in Slots : [procs[j] EXCEPT !.used = (@ + d) % Word] \in Slot
  BY <1>1, <1>2, Zenon DEF Slot
<1>4. procs' \in [Slots -> Slot]
  BY <1>2, <1>3, Zenon
<1>5. \A j \in Slots : procs'[j] = IF j = i THEN [procs[j] EXCEPT !.used = (@ + d) % Word] ELSE procs[j]
  BY Zenon
<1>6. \A j \in Slots : /\ procs'[j].pid = procs[j].pid
                       /\ procs'[j].odd = procs[j].odd
  BY <1>2, <1>5, Zenon DEF Slot
<1>7. \A j \in Slots : procs'[j].used = IF j = i THEN (procs[j].used + d) % Word ELSE procs[j].used
  BY <1>2, <1>5, Zenon DEF Slot
<1> QED
  BY <1>4, <1>6, <1>7

(* A step of the seqlock flips it and changes nothing else. *)
LEMMA OddWritten ==
  ASSUME procs \in [Slots -> Slot], NEW i, procs' = [procs EXCEPT ![i].odd = ~@]
  PROVE  /\ procs' \in [Slots -> Slot]
         /\ \A j \in Slots : /\ procs'[j].pid = procs[j].pid
                             /\ procs'[j].used = procs[j].used
                             /\ procs'[j].odd <=> IF j = i THEN ~procs[j].odd ELSE procs[j].odd
<1>1. \A j \in Slots : procs[j] \in Slot
  OBVIOUS
<1>2. procs' \in [Slots -> Slot]
  BY Zenon DEF Slot
<1>3. \A j \in Slots : procs'[j] = IF j = i THEN [procs[j] EXCEPT !.odd = ~@] ELSE procs[j]
  BY Zenon
<1>4. \A j \in Slots : /\ procs'[j].pid = procs[j].pid
                       /\ procs'[j].used = procs[j].used
  BY <1>1, <1>3, Zenon DEF Slot
<1>5. \A j \in Slots : procs'[j].odd <=> IF j = i THEN ~procs[j].odd ELSE procs[j].odd
  BY <1>1, <1>3, Zenon DEF Slot
<1> QED
  BY <1>2, <1>4, <1>5

(* What init_proc_slot_withlock, oom_check and the walk store in walk. *)
LEMMA WalkTypes ==
  /\ NoWalk \in Walk /\ [NoWalk EXCEPT !.pc = "look"] \in Walk
  /\ \A w \in Walk : [w EXCEPT !.pc = "look"] \in Walk
  BY SlotsAssumption DEF SlotsAssumption, Walk, NoWalk

(* proc_num and every index stay within the table while it is intact. *)
LEMMA TypesStep ==
  ASSUME SlotTypes, Updates, Places, Intact', [Next]_vars
  PROVE  SlotTypes'
<1> USE SlotsAssumption, WalkTypes DEF SlotsAssumption, SlotTypes, Phases
<1>f. \A p \in Procs : FreshSlot(p) \in Slot
  BY Zenon DEF FreshSlot, Slot
<1>n. \A i \in Slots : i \in 0..MaxSlots /\ i + 1 \in 0..MaxSlots
  BY DEF Slots
<1>o. \A p \in Procs, n \in 0..MaxSlots : SlotsOf(p, n) # {} => First(SlotsOf(p, n)) \in Slots
  BY FirstOwn DEF SlotsOf
<1>1. ASSUME NEW p \in Procs, init_lock(p) PROVE SlotTypes'
  BY <1>1 DEF init_lock, Advance
<1>2. ASSUME NEW p \in Procs, init_full(p) PROVE SlotTypes'
  BY <1>2, PidWritten DEF init_full
<1>3. ASSUME NEW p \in Procs, init_reuse(p) PROVE SlotTypes'
  <2>1. procs' \in [Slots -> Slot]
    BY <1>3, <1>f, SlotWritten DEF init_reuse
  <2>2. walk' \in [Procs -> Walk]
    BY <1>3 DEF init_reuse
  <2> QED
    BY <1>3, <1>o, <2>1, <2>2 DEF init_reuse, Advance
<1>4. ASSUME NEW p \in Procs, init_append(p) PROVE SlotTypes'
  <2>1. procs' \in [Slots -> Slot]
    BY <1>4, <1>f, SlotWritten DEF init_append
  <2> QED
    BY <1>4, <2>1 DEF init_append, Advance
<1>5. ASSUME NEW p \in Procs, init_publish(p) PROVE SlotTypes'
  <2>1. procNum' \in 0..MaxSlots
    BY <1>5, <1>n DEF init_publish, Advance, Places
  <2>2. walk' \in [Procs -> Walk]
    BY <1>5 DEF init_publish
  <2> QED
    BY <1>5, <2>1, <2>2 DEF init_publish, Advance
<1>6. ASSUME NEW p \in Procs, init_unlock(p) PROVE SlotTypes'
  BY <1>6 DEF init_unlock, Advance
<1>7. ASSUME NEW p \in Procs, oom_clear(p) PROVE SlotTypes'
  <2>1. walk' \in [Procs -> Walk]
    BY <1>7 DEF oom_clear
  <2> QED
    BY <1>7, <2>1 DEF oom_clear
<1>8. ASSUME NEW p \in Procs, walk_remove(p) PROVE SlotTypes'
  <2>1. walk[p] \in Walk
    OBVIOUS
  <2>2. walk' \in [Procs -> Walk]
    BY <1>8, <2>1 DEF walk_remove, Walk
  <2>3. procNum' \in 0..MaxSlots
    BY <1>8, <2>1 DEF walk_remove, Walk
  <2> QED
    BY <1>8, <2>2, <2>3 DEF walk_remove
<1>9. ASSUME NEW p \in Procs, walk_keep(p) PROVE SlotTypes'
  <2>1. walk[p] \in Walk
    OBVIOUS
  <2>2. walk' \in [Procs -> Walk]
    <3>1. walk[p].at + 1 \in 0..MaxSlots
      BY <1>9, <2>1 DEF walk_keep, Walk
    <3>2. [walk[p] EXCEPT !.at = walk[p].at + 1] \in Walk
      BY <2>1, <3>1 DEF Walk
    <3>3. walk' = [walk EXCEPT ![p] = [walk[p] EXCEPT !.at = walk[p].at + 1]]
      BY <1>9 DEF walk_keep
    <3> QED
      BY <3>2, <3>3
  <2> QED
    BY <1>9, <2>2 DEF walk_keep
<1>10. ASSUME NEW p \in Procs, walk_end(p) PROVE SlotTypes'
  <2>1. walk' \in [Procs -> Walk]
    BY <1>10 DEF walk_end
  <2> QED
    BY <1>10, <2>1 DEF walk_end
<1>11. ASSUME NEW p \in Procs, walk_copy(p) PROVE SlotTypes'
  <2>1. walk' \in [Procs -> Walk]
    BY <1>11 DEF walk_copy
  <2>2. EmptySlot \in Slot
    BY Zenon DEF EmptySlot, Slot
  <2>3. procs' \in [Slots -> Slot]
    BY <1>11, <2>2 DEF walk_copy
  <2>4. walk[p].at \in Slots
    <3>1. procNum \in Slots /\ walk[p].at <= procNum
      BY <1>11 DEF walk_copy, Places, Copying
    <3>2. walk[p].at \in 0..MaxSlots
      BY DEF Walk
    <3> QED
      BY <3>1, <3>2 DEF Slots
  <2>5. mySlot' \in [Procs -> Slots \cup {NoSlot}]
    BY <1>11, <2>4 DEF walk_copy
  <2> QED
    BY <1>11, <2>1, <2>3, <2>5 DEF walk_copy
<1>12. ASSUME NEW p \in Procs, NEW d \in {"add", "rm"}, usage_begin(p, d) PROVE SlotTypes'
  <2>1. procs' \in [Slots -> Slot]
    BY <1>12, OddWritten DEF usage_begin
  <2> QED
    BY <1>12, <2>1 DEF usage_begin
<1>13. ASSUME NEW p \in Procs, usage_total(p) PROVE SlotTypes'
  <2>1. procs' \in [Slots -> Slot]
    <3>1. CASE wr[p] = "add"
      BY <1>13, <3>1, UsedWritten DEF usage_total
    <3>2. CASE wr[p] # "add"
      BY <1>13, <3>2, UsedWritten DEF usage_total
    <3> QED
      BY <3>1, <3>2
  <2>2. held' \in [Procs -> 0..MaxHeld]
    BY <1>13 DEF usage_total, Updates
  <2> QED
    BY <1>13, <2>1, <2>2 DEF usage_total
<1>14. ASSUME NEW p \in Procs, usage_end(p) PROVE SlotTypes'
  <2>1. procs' \in [Slots -> Slot]
    BY <1>14, OddWritten DEF usage_end
  <2> QED
    BY <1>14, <2>1 DEF usage_end
<1>15. ASSUME NEW p \in Procs, exit_scan(p) PROVE SlotTypes'
  <2>1. 0 \in Slots /\ MaxSlots \in 0..MaxSlots
    BY DEF Slots
  <2>2. found' \in [Procs -> Slots]
    BY <1>15, <1>o, <2>1 DEF exit_scan
  <2> QED
    BY <1>15, <2>2 DEF exit_scan, Advance
<1>16. ASSUME NEW p \in Procs, exit_mark(p) PROVE SlotTypes'
  <2>1. 0 \in Slots
    BY DEF Slots
  <2>2. procs' \in [Slots -> Slot]
    BY <1>16, PidWritten DEF exit_mark
  <2> QED
    BY <1>16, <2>1, <2>2 DEF exit_mark, Advance
<1>17. ASSUME NEW p \in Procs, Vanish(p) PROVE SlotTypes'
  <2>1. 0 \in Slots
    BY DEF Slots
  <2>2. walk' \in [Procs -> Walk]
    BY <1>17 DEF Vanish
  <2> QED
    BY <1>17, <2>1, <2>2 DEF Vanish
<1>18. ASSUME NEW p \in Procs, restart(p) PROVE SlotTypes'
  BY <1>18 DEF restart
<1>19. CASE UNCHANGED vars
  BY <1>19 DEF vars
<1> QED
  BY <1>1, <1>2, <1>3, <1>4, <1>5, <1>6, <1>7, <1>8, <1>9, <1>10, <1>11,
     <1>12, <1>13, <1>14, <1>15, <1>16, <1>17, <1>18, <1>19
  DEF Next, init_proc_slot_withlock, clear_proc_slot_nolock, gpu_device_memory_usage,
      exit_handler, exited, kill

(* Registering excludes registering, and a walk excludes both, while no      *)
(* unlocked walk has raced.                                                  *)
LEMMA ExclusiveStep ==
  ASSUME SlotTypes, Exclusive, Unborn, Intact', [Next]_vars
  PROVE  Exclusive'
<1> USE SlotsAssumption DEF SlotsAssumption, SlotTypes, Phases, NoWalk, Exclusive, Walking, Intact
<1>1. ASSUME NEW p \in Procs, init_lock(p) PROVE Exclusive'
  BY <1>1 DEF init_lock, Advance
<1>2. ASSUME NEW p \in Procs, init_full(p) PROVE Exclusive'
  BY <1>2 DEF init_full
<1>3. ASSUME NEW p \in Procs, init_reuse(p) PROVE Exclusive'
  BY <1>3 DEF init_reuse, Advance
<1>4. ASSUME NEW p \in Procs, init_append(p) PROVE Exclusive'
  BY <1>4 DEF init_append, Advance
<1>5. ASSUME NEW p \in Procs, init_publish(p) PROVE Exclusive'
  BY <1>5 DEF init_publish, Advance
<1>6. ASSUME NEW p \in Procs, init_unlock(p) PROVE Exclusive'
  BY <1>6 DEF init_unlock, Advance
<1>7. ASSUME NEW p \in Procs, oom_clear(p) PROVE Exclusive'
  BY <1>7 DEF oom_clear
<1>8. ASSUME NEW p \in Procs, walk_remove(p) PROVE Exclusive'
  BY <1>8 DEF walk_remove
<1>9. ASSUME NEW p \in Procs, walk_keep(p) PROVE Exclusive'
  BY <1>9 DEF walk_keep
<1>10. ASSUME NEW p \in Procs, walk_end(p) PROVE Exclusive'
  BY <1>10 DEF walk_end
<1>11. ASSUME NEW p \in Procs, walk_copy(p) PROVE Exclusive'
  BY <1>11 DEF walk_copy
<1>12. ASSUME NEW p \in Procs, NEW d \in {"add", "rm"}, usage_begin(p, d) PROVE Exclusive'
  BY <1>12 DEF usage_begin
<1>13. ASSUME NEW p \in Procs, usage_total(p) PROVE Exclusive'
  BY <1>13 DEF usage_total
<1>14. ASSUME NEW p \in Procs, usage_end(p) PROVE Exclusive'
  BY <1>14 DEF usage_end
<1>15. ASSUME NEW p \in Procs, exit_scan(p) PROVE Exclusive'
  BY <1>15 DEF exit_scan, Advance
<1>16. ASSUME NEW p \in Procs, exit_mark(p) PROVE Exclusive'
  BY <1>16 DEF exit_mark, Advance
<1>17. ASSUME NEW p \in Procs, Vanish(p) PROVE Exclusive'
  BY <1>17 DEF Vanish
<1>18. ASSUME NEW p \in Procs, restart(p) PROVE Exclusive'
  BY <1>18 DEF restart
<1>19. CASE UNCHANGED vars
  BY <1>19 DEF vars
<1> QED
  BY <1>1, <1>2, <1>3, <1>4, <1>5, <1>6, <1>7, <1>8, <1>9, <1>10, <1>11,
     <1>12, <1>13, <1>14, <1>15, <1>16, <1>17, <1>18, <1>19
  DEF Next, init_proc_slot_withlock, clear_proc_slot_nolock, gpu_device_memory_usage,
      exit_handler, exited, kill

(* A process before its registration has no pointer and no usage. *)
LEMMA UnbornStep ==
  ASSUME SlotTypes, Unborn, [Next]_vars
  PROVE  Unborn'
<1> USE SlotsAssumption DEF SlotsAssumption, SlotTypes, Phases, NoSlot, Unborn
<1>1. ASSUME NEW p \in Procs, init_lock(p) PROVE Unborn'
  BY <1>1 DEF init_lock, Advance
<1>2. ASSUME NEW p \in Procs, init_full(p) PROVE Unborn'
  BY <1>2 DEF init_full
<1>3. ASSUME NEW p \in Procs, init_reuse(p) PROVE Unborn'
  BY <1>3 DEF init_reuse, Advance
<1>4. ASSUME NEW p \in Procs, init_append(p) PROVE Unborn'
  BY <1>4 DEF init_append, Advance
<1>5. ASSUME NEW p \in Procs, init_publish(p) PROVE Unborn'
  BY <1>5 DEF init_publish, Advance
<1>6. ASSUME NEW p \in Procs, init_unlock(p) PROVE Unborn'
  BY <1>6 DEF init_unlock, Advance
<1>7. ASSUME NEW p \in Procs, oom_clear(p) PROVE Unborn'
  BY <1>7 DEF oom_clear
<1>8. ASSUME NEW p \in Procs, walk_remove(p) PROVE Unborn'
  BY <1>8 DEF walk_remove
<1>9. ASSUME NEW p \in Procs, walk_keep(p) PROVE Unborn'
  BY <1>9 DEF walk_keep
<1>10. ASSUME NEW p \in Procs, walk_end(p) PROVE Unborn'
  BY <1>10 DEF walk_end
<1>11. ASSUME NEW p \in Procs, walk_copy(p) PROVE Unborn'
  BY <1>11 DEF walk_copy
<1>12. ASSUME NEW p \in Procs, NEW d \in {"add", "rm"}, usage_begin(p, d) PROVE Unborn'
  BY <1>12 DEF usage_begin
<1>13. ASSUME NEW p \in Procs, usage_total(p) PROVE Unborn'
  BY <1>13 DEF usage_total
<1>14. ASSUME NEW p \in Procs, usage_end(p) PROVE Unborn'
  BY <1>14 DEF usage_end
<1>15. ASSUME NEW p \in Procs, exit_scan(p) PROVE Unborn'
  BY <1>15 DEF exit_scan, Advance
<1>16. ASSUME NEW p \in Procs, exit_mark(p) PROVE Unborn'
  BY <1>16 DEF exit_mark, Advance
<1>17. ASSUME NEW p \in Procs, Vanish(p) PROVE Unborn'
  BY <1>17 DEF Vanish
<1>18. ASSUME NEW p \in Procs, restart(p) PROVE Unborn'
  BY <1>18 DEF restart
<1>19. CASE UNCHANGED vars
  BY <1>19 DEF vars
<1> QED
  BY <1>1, <1>2, <1>3, <1>4, <1>5, <1>6, <1>7, <1>8, <1>9, <1>10, <1>11,
     <1>12, <1>13, <1>14, <1>15, <1>16, <1>17, <1>18, <1>19
  DEF Next, init_proc_slot_withlock, clear_proc_slot_nolock, gpu_device_memory_usage,
      exit_handler, exited, kill

(* An add begins below the bound and a removal above 0. *)
LEMMA UpdatesStep ==
  ASSUME SlotTypes, Updates, [Next]_vars
  PROVE  Updates'
<1> USE SlotsAssumption DEF SlotsAssumption, SlotTypes, Updates
<1>1. ASSUME NEW p \in Procs, init_lock(p) PROVE Updates'
  BY <1>1 DEF init_lock, Advance
<1>2. ASSUME NEW p \in Procs, init_full(p) PROVE Updates'
  BY <1>2 DEF init_full
<1>3. ASSUME NEW p \in Procs, init_reuse(p) PROVE Updates'
  BY <1>3 DEF init_reuse, Advance
<1>4. ASSUME NEW p \in Procs, init_append(p) PROVE Updates'
  BY <1>4 DEF init_append, Advance
<1>5. ASSUME NEW p \in Procs, init_publish(p) PROVE Updates'
  BY <1>5 DEF init_publish, Advance
<1>6. ASSUME NEW p \in Procs, init_unlock(p) PROVE Updates'
  BY <1>6 DEF init_unlock, Advance
<1>7. ASSUME NEW p \in Procs, oom_clear(p) PROVE Updates'
  BY <1>7 DEF oom_clear
<1>8. ASSUME NEW p \in Procs, walk_remove(p) PROVE Updates'
  BY <1>8 DEF walk_remove
<1>9. ASSUME NEW p \in Procs, walk_keep(p) PROVE Updates'
  BY <1>9 DEF walk_keep
<1>10. ASSUME NEW p \in Procs, walk_end(p) PROVE Updates'
  BY <1>10 DEF walk_end
<1>11. ASSUME NEW p \in Procs, walk_copy(p) PROVE Updates'
  BY <1>11 DEF walk_copy
<1>12. ASSUME NEW p \in Procs, NEW d \in {"add", "rm"}, usage_begin(p, d) PROVE Updates'
  BY <1>12 DEF usage_begin
<1>13. ASSUME NEW p \in Procs, usage_total(p) PROVE Updates'
  BY <1>13 DEF usage_total
<1>14. ASSUME NEW p \in Procs, usage_end(p) PROVE Updates'
  BY <1>14 DEF usage_end
<1>15. ASSUME NEW p \in Procs, exit_scan(p) PROVE Updates'
  BY <1>15 DEF exit_scan, Advance
<1>16. ASSUME NEW p \in Procs, exit_mark(p) PROVE Updates'
  BY <1>16 DEF exit_mark, Advance
<1>17. ASSUME NEW p \in Procs, Vanish(p) PROVE Updates'
  BY <1>17 DEF Vanish
<1>18. ASSUME NEW p \in Procs, restart(p) PROVE Updates'
  BY <1>18 DEF restart
<1>19. CASE UNCHANGED vars
  BY <1>19 DEF vars
<1> QED
  BY <1>1, <1>2, <1>3, <1>4, <1>5, <1>6, <1>7, <1>8, <1>9, <1>10, <1>11,
     <1>12, <1>13, <1>14, <1>15, <1>16, <1>17, <1>18, <1>19
  DEF Next, init_proc_slot_withlock, clear_proc_slot_nolock, gpu_device_memory_usage,
      exit_handler, exited, kill
-----------------------------------------------------------------------------
(* The table *)

(* A step that moves no slot, seats nobody and at most marks slots of those  *)
(* who have no seat.                                                         *)
Frame ==
  /\ procNum' = procNum
  /\ \A q \in Procs : /\ Copying(q)' <=> Copying(q)
                      /\ Copying(q) => walk'[q].at = walk[q].at
                      /\ Seated(q)' => Seated(q)
                      /\ ph'[q] = "publish" => ph[q] = "publish" /\ mySlot'[q] = mySlot[q]
  /\ \A i \in Slots :
       \/ procs'[i].pid = procs[i].pid
       \/ /\ procs'[i].pid = NoPid
          /\ \A q \in Procs : procs[i].pid = q => ~Seated(q)' /\ ph'[q] # "publish"

(* Such a step keeps the places and the seats. *)
LEMMA FrameKeeps ==
  ASSUME SlotTypes, Places, Seats, Frame
  PROVE  Places' /\ Seats'
<1> USE SlotsAssumption DEF SlotsAssumption
<1>t. \A q \in Procs : walk[q].at \in 0..MaxSlots
  BY DEF SlotTypes, Walk
<1>0. \A q \in Procs : Copying(q) => walk[q].at \in Slots
  BY <1>t DEF Places, Slots
<1>1. \A i \in Slots : Counts(i)' <=> Counts(i)
  BY DEF Frame, Counts
<1>2. Places'
  <2> SUFFICES ASSUME NEW p \in Procs
               PROVE  /\ Copying(p)' => /\ procNum' \in Slots /\ walk'[p].at <= procNum'
                                        /\ \A q \in Procs : procs'[walk'[p].at].pid = q => ~Seated(q)'
                      /\ ph'[p] = "publish" => /\ mySlot'[p] = procNum'
                                               /\ procNum' \in Slots
                                               /\ procs'[procNum'].pid = p
                                               /\ SlotsOf(p, procNum)' = {}
    BY DEF Places
  <2>1. ASSUME Copying(p)'
        PROVE  /\ procNum' \in Slots /\ walk'[p].at <= procNum'
               /\ \A q \in Procs : procs'[walk'[p].at].pid = q => ~Seated(q)'
    BY <1>0, <2>1 DEF Frame, Places
  <2>2. ASSUME ph'[p] = "publish"
        PROVE  /\ mySlot'[p] = procNum' /\ procNum' \in Slots /\ procs'[procNum'].pid = p
               /\ SlotsOf(p, procNum)' = {}
    BY <2>2 DEF Frame, Places, SlotsOf
  <2> QED
    BY <2>1, <2>2
<1>3. \A i, j \in Slots :
         Counts(i)' /\ Counts(j)' /\ procs'[i].pid = procs'[j].pid /\ procs'[i].pid # NoPid => i = j
  BY <1>1 DEF Frame, Seats
<1>4. \A p \in Procs : Seated(p)' => \E i \in Slots : Counts(i)' /\ procs'[i].pid = p
  BY <1>1 DEF Frame, Seats
<1> QED
  BY <1>2, <1>3, <1>4 DEF Seats

(* The copy of the last slot fills the gap, whoever owns the slot. *)
LEMMA CopyWritten ==
  ASSUME procs \in [Slots -> Slot], NEW p \in Procs, walk_copy(p), procNum \in Int
  PROVE  \A j \in Slots :
           j < procNum => procs'[j] = IF j = walk[p].at THEN procs[procNum] ELSE procs[j]
<1>1. CASE mySlot[p] = procNum
  <2>1. procs' = [[procs EXCEPT ![walk[p].at] = procs[procNum]] EXCEPT ![procNum] = EmptySlot]
    BY <1>1 DEF walk_copy
  <2> QED
    BY <2>1
<1>2. CASE mySlot[p] # procNum
  <2>1. procs' = [procs EXCEPT ![walk[p].at] = procs[procNum]]
    BY <1>2 DEF walk_copy
  <2> QED
    BY <2>1
<1> QED
  BY <1>1, <1>2

(* No step takes a slot away from a process that has one. *)
LEMMA TableStep ==
  ASSUME TableInv, Intact', [Next]_vars
  PROVE  Places' /\ Seats'
<1> USE SlotsAssumption DEF SlotsAssumption
<1> DEFINE Good == Places' /\ Seats'
<1>t. SlotTypes /\ Exclusive /\ Unborn /\ Places /\ Seats
  BY DEF TableInv
<1>u. /\ procs \in [Slots -> Slot] /\ procNum \in 0..MaxSlots /\ up \in [Procs -> BOOLEAN]
      /\ ph \in [Procs -> Phases] /\ mySlot \in [Procs -> Slots \cup {NoSlot}]
      /\ walk \in [Procs -> Walk] /\ found \in [Procs -> Slots]
      /\ \A q \in Procs : walk[q].at \in 0..MaxSlots
  BY <1>t DEF SlotTypes, Walk
<1>f. Frame => Good
  BY <1>t, FrameKeeps
<1>w. \A q \in Procs : Copying(q) => Walking(q)
  BY DEF Copying, Walking
<1>p. ASSUME NEW p \in Procs, Walking(p)
      PROVE  \A q \in Procs : ph[q] # "publish" /\ (q # p => ~Copying(q))
  BY <1>p, <1>t, <1>w DEF Exclusive
<1>r. ASSUME NEW p \in Procs, ph[p] \in {"find", "publish"}
      PROVE  \A q \in Procs : ~Copying(q) /\ (q # p => ph[q] # "publish")
  BY <1>r, <1>t, <1>w DEF Exclusive
<1> HIDE DEF Good
<1>1. ASSUME NEW p \in Procs, init_lock(p) PROVE Good
  <2>1. Frame
    BY <1>1, <1>t, <1>u DEF Frame, Copying, Seated, init_lock, Advance
  <2> QED
    BY <2>1, <1>f
<1>2. ASSUME NEW p \in Procs, init_full(p) PROVE Good
  <2> DEFINE own == SlotsOf(p, MaxSlots)
  <2>1. \A j \in Slots : \/ procs'[j].pid = procs[j].pid
                         \/ procs'[j].pid = NoPid /\ procs[j].pid = p
    <3>1. CASE own = {}
      <4>1. procs' = procs
        BY <1>2, <3>1 DEF init_full
      <4> QED
        BY <4>1
    <3>2. CASE own # {}
      <4>1. procs[First(own)].pid = p
        BY <3>2, FirstOwn DEF SlotsOf
      <4>2. procs' = [procs EXCEPT ![First(own)].pid = NoPid]
        BY <1>2, <3>2 DEF init_full
      <4> DEFINE f == First(own)
      <4> HIDE DEF own, f
      <4>3. \A j \in Slots : procs'[j].pid = IF j = f THEN NoPid ELSE procs[j].pid
        BY <1>u, <4>2, PidWritten DEF f
      <4> QED
        BY <4>1, <4>3 DEF f
    <3> QED
      BY <3>1, <3>2
  <2> HIDE DEF own
  <2>2. Frame
    BY <1>2, <1>u, <2>1 DEF Frame, Copying, Seated, init_full
  <2> QED
    BY <2>2, <1>f
<1>3. ASSUME NEW p \in Procs, init_reuse(p) PROVE Good
  <2> DEFINE f == First(SlotsOf(p, procNum))
  <2>1. f \in Slots /\ f < procNum /\ procs[f].pid = p
    BY <1>3, FirstOwn DEF init_reuse, SlotsOf
  <2>2. FreshSlot(p) \in Slot /\ FreshSlot(p).pid = p
    BY Zenon DEF FreshSlot, Slot
  <2>3. \A j \in Slots : procs'[j].pid = procs[j].pid
    BY <1>3, <1>u, <2>1, <2>2, SlotWritten DEF init_reuse
  <2> HIDE DEF f
  <2>4. \A q \in Procs : ~Copying(q) /\ ~Copying(q)'
    BY <1>3, <1>u, <1>r DEF init_reuse, Advance, Copying, NoWalk
  <2>5. \A j \in Slots : Counts(j) <=> j < procNum
    BY <2>4 DEF Counts
  <2>6. \A j \in Slots : Counts(j)' <=> j < procNum
    BY <1>3, <2>4 DEF Counts, init_reuse
  <2>7. \A q \in Procs : ph'[q] # "publish"
    BY <1>3, <1>u, <1>r DEF init_reuse, Advance
  <2>8. \A q \in Procs : Seated(q)' => q = p \/ Seated(q)
    BY <1>3, <1>u DEF init_reuse, Advance, Seated
  <2>9. Seats'
    BY <1>t, <2>1, <2>3, <2>5, <2>6, <2>8 DEF Seats
  <2> QED
    BY <2>4, <2>7, <2>9 DEF Good, Places
<1>4. ASSUME NEW p \in Procs, init_append(p) PROVE Good
  <2>2. FreshSlot(p) \in Slot /\ FreshSlot(p).pid = p
    BY Zenon DEF FreshSlot, Slot
  <2>3. \A j \in Slots : procs'[j].pid = IF j = procNum THEN p ELSE procs[j].pid
    BY <1>4, <1>u, <2>2, SlotWritten DEF init_append
  <2>4. \A q \in Procs : ~Copying(q) /\ ~Copying(q)'
    BY <1>4, <1>r DEF init_append, Advance, Copying
  <2>5. \A j \in Slots : Counts(j) <=> j < procNum
    BY <2>4 DEF Counts
  <2>6. \A j \in Slots : Counts(j)' <=> j < procNum
    BY <1>4, <2>4 DEF Counts, init_append
  <2>7. \A q \in Procs : ph'[q] = "publish" => q = p
    BY <1>4, <1>u, <1>r DEF init_append, Advance
  <2>8. \A q \in Procs : Seated(q)' => Seated(q)
    BY <1>4, <1>u DEF init_append, Advance, Seated
  <2>a. procNum \in Int /\ \A j \in Slots : j \in Int
    BY <1>u DEF Slots
  <2>9. Seats'
    BY <1>t, <2>3, <2>5, <2>6, <2>8, <2>a DEF Seats
  <2>b. SlotsOf(p, procNum)' = {}
    BY <1>4, <2>3, <2>a DEF init_append, SlotsOf
  <2>c. mySlot'[p] = procNum' /\ procNum' \in Slots /\ procs'[procNum'].pid = p
    BY <1>4, <1>u, <2>3 DEF init_append
  <2> QED
    BY <2>4, <2>7, <2>9, <2>b, <2>c DEF Good, Places
<1>5. ASSUME NEW p \in Procs, init_publish(p) PROVE Good
  <2>1. /\ procNum \in Slots /\ procs[procNum].pid = p /\ SlotsOf(p, procNum) = {}
        /\ procs' = procs /\ procNum' = procNum + 1
    BY <1>5, <1>t DEF init_publish, Advance, Places
  <2>4. \A q \in Procs : ~Copying(q) /\ ~Copying(q)'
    BY <1>5, <1>u, <1>r DEF init_publish, Advance, Copying, NoWalk
  <2>5. \A j \in Slots : Counts(j) <=> j < procNum
    BY <2>4 DEF Counts
  <2>a. \A j \in Slots : j \in Int
    BY DEF Slots
  <2>6. \A j \in Slots : Counts(j)' <=> j < procNum \/ j = procNum
    BY <2>1, <2>4, <2>a DEF Counts
  <2>7. \A q \in Procs : ph'[q] # "publish"
    BY <1>5, <1>u, <1>r DEF init_publish, Advance
  <2>8. \A q \in Procs : Seated(q)' => q = p \/ Seated(q)
    BY <1>5, <1>u DEF init_publish, Advance, Seated
  <2>b. \A j \in Slots : j < procNum => procs[j].pid # p
    BY <2>1 DEF SlotsOf
  <2>9. Seats'
    BY <1>t, <2>1, <2>5, <2>6, <2>8, <2>b DEF Seats
  <2> QED
    BY <2>4, <2>7, <2>9 DEF Good, Places
<1>6. ASSUME NEW p \in Procs, init_unlock(p) PROVE Good
  <2>1. Frame
    BY <1>6, <1>t, <1>u DEF Frame, Copying, Seated, init_unlock, Advance
  <2> QED
    BY <2>1, <1>f
<1>7. ASSUME NEW p \in Procs, oom_clear(p) PROVE Good
  <2>1. Frame
    BY <1>7, <1>t, <1>u DEF Frame, Copying, Seated, oom_clear, Walking, NoWalk
  <2> QED
    BY <2>1, <1>f
<1>8. ASSUME NEW p \in Procs, walk_remove(p) PROVE Good
  <2> DEFINE i == walk[p].at
  <2>1. /\ Walking(p) /\ ~Copying(p) /\ i \in Slots /\ i < procNum
        /\ procs' = procs /\ procNum' = procNum - 1 /\ procNum' \in Slots /\ i <= procNum'
    BY <1>8, <1>u DEF walk_remove, Walking, Copying, Slots
  <2>2. \A q \in Procs : ~Copying(q)
    BY <1>p, <2>1
  <2>3. Copying(p)' /\ walk'[p].at = i /\ \A q \in Procs : Copying(q)' => q = p
    BY <1>8, <1>u, <2>2 DEF walk_remove, Copying
  <2>4. \A q \in Procs : procs[i].pid = q => ~Seated(q)
    BY <1>8 DEF walk_remove, Marked, Kickable, Seated
  <2>5. \A j \in Slots : Counts(j) <=> j < procNum
    BY <2>2 DEF Counts
  <2>a. \A j \in Slots : j \in Int
    BY DEF Slots
  <2> HIDE DEF i
  <2>6. \A j \in Slots : Counts(j)' <=> j < procNum /\ (j = procNum - 1 \/ j # i)
    BY <1>u, <2>1, <2>3, <2>a DEF Counts
  <2>7. \A q \in Procs : ph'[q] # "publish" /\ (Seated(q)' <=> Seated(q))
    BY <1>8, <1>p, <2>1 DEF walk_remove, Seated
  <2>9. Seats'
    BY <1>t, <2>1, <2>4, <2>5, <2>6, <2>7 DEF Seats
  <2> QED
    BY <2>1, <2>3, <2>4, <2>7, <2>9 DEF Good, Places
<1>9. ASSUME NEW p \in Procs, walk_keep(p) PROVE Good
  <2>1. Frame
    BY <1>9, <1>t, <1>u DEF Frame, Copying, Seated, walk_keep, NoWalk
  <2> QED
    BY <2>1, <1>f
<1>10. ASSUME NEW p \in Procs, walk_end(p) PROVE Good
  <2>1. Frame
    BY <1>10, <1>t, <1>u DEF Frame, Copying, Seated, walk_end, NoWalk
  <2> QED
    BY <2>1, <1>f
<1>11. ASSUME NEW p \in Procs, walk_copy(p) PROVE Good
  <2> DEFINE i == walk[p].at
  <2>1. /\ Walking(p) /\ Copying(p) /\ procNum \in Slots /\ procNum' = procNum
        /\ i \in Slots /\ i <= procNum
        /\ \A q \in Procs : procs[i].pid = q => ~Seated(q)
    <3>1. Walking(p) /\ Copying(p) /\ procNum' = procNum /\ procNum \in Slots
      BY <1>11 DEF walk_copy, Walking, Copying
    <3>2. i <= procNum /\ \A q \in Procs : procs[i].pid = q => ~Seated(q)
      BY <1>t, <3>1 DEF Places
    <3> QED
      BY <1>u, <3>1, <3>2 DEF Slots
  <2>2. \A q \in Procs : ~Copying(q)'
    BY <1>11, <1>u, <1>p, <2>1 DEF walk_copy, Copying
  <2>3. \A j \in Slots : j < procNum => procs'[j] = IF j = i THEN procs[procNum] ELSE procs[j]
    BY <1>11, <1>u, CopyWritten DEF Slots
  <2>a. \A j \in Slots : j \in Int
    BY DEF Slots
  <2>5. \A j \in Slots : Counts(j) <=> j = procNum \/ (j < procNum /\ j # i)
    BY <1>p, <2>1, <2>a DEF Counts
  <2>6. \A j \in Slots : Counts(j)' <=> j < procNum
    BY <2>1, <2>2 DEF Counts
  <2>7. \A q \in Procs : ph'[q] # "publish" /\ (Seated(q)' <=> Seated(q))
    BY <1>11, <1>p, <2>1 DEF walk_copy, Seated
  <2> HIDE DEF i
  <2>8. \A j, k \in Slots :
           Counts(j)' /\ Counts(k)' /\ procs'[j].pid = procs'[k].pid /\ procs'[j].pid # NoPid => j = k
    BY <1>t, <2>1, <2>3, <2>5, <2>6, <2>a DEF Seats
  <2>9. ASSUME NEW q \in Procs, Seated(q) PROVE \E j \in Slots : Counts(j)' /\ procs'[j].pid = q
    <3>1. PICK k \in Slots : Counts(k) /\ procs[k].pid = q
      BY <1>t, <2>9 DEF Seats
    <3>2. CASE k = procNum
      <4>1. i < procNum
        BY <2>1, <2>9, <2>a, <3>1, <3>2
      <4> QED
        BY <2>1, <2>3, <2>6, <3>1, <3>2, <4>1
    <3>3. CASE k # procNum
      BY <2>3, <2>5, <2>6, <3>1, <3>3
    <3> QED
      BY <3>2, <3>3
  <2>10. Seats'
    BY <2>7, <2>8, <2>9 DEF Seats
  <2> QED
    BY <2>2, <2>7, <2>10 DEF Good, Places
<1>12. ASSUME NEW p \in Procs, NEW d \in {"add", "rm"}, usage_begin(p, d) PROVE Good
  <2>1. \A i \in Slots : procs'[i].pid = procs[i].pid
    BY <1>12, <1>u, OddWritten DEF usage_begin
  <2>2. Frame
    BY <1>12, <1>u, <2>1 DEF Frame, Copying, Seated, usage_begin
  <2> QED
    BY <2>2, <1>f
<1>13. ASSUME NEW p \in Procs, usage_total(p) PROVE Good
  <2>1. \A i \in Slots : procs'[i].pid = procs[i].pid
    <3>1. CASE wr[p] = "add"
      BY <1>13, <1>u, <3>1, UsedWritten DEF usage_total
    <3>2. CASE wr[p] # "add"
      BY <1>13, <1>u, <3>2, UsedWritten DEF usage_total
    <3> QED
      BY <3>1, <3>2
  <2>2. Frame
    BY <1>13, <1>u, <2>1 DEF Frame, Copying, Seated, usage_total
  <2> QED
    BY <2>2, <1>f
<1>14. ASSUME NEW p \in Procs, usage_end(p) PROVE Good
  <2>1. \A i \in Slots : procs'[i].pid = procs[i].pid
    BY <1>14, <1>u, OddWritten DEF usage_end
  <2>2. Frame
    BY <1>14, <1>u, <2>1 DEF Frame, Copying, Seated, usage_end
  <2> QED
    BY <2>2, <1>f
<1>15. ASSUME NEW p \in Procs, exit_scan(p) PROVE Good
  <2>1. Frame
    BY <1>15, <1>t, <1>u DEF Frame, Copying, Seated, exit_scan, Advance
  <2> QED
    BY <2>1, <1>f
<1>16. ASSUME NEW p \in Procs, exit_mark(p) PROVE Good
  <2>1. procs[found[p]].pid = p
    BY <1>16 DEF exit_mark, Intact
  <2>2. \A j \in Slots : procs'[j].pid = IF j = found[p] THEN NoPid ELSE procs[j].pid
    BY <1>16, <1>u, PidWritten DEF exit_mark
  <2>3. Frame
    BY <1>16, <1>u, <2>1, <2>2 DEF Frame, Copying, Seated, exit_mark, Advance
  <2> QED
    BY <2>3, <1>f
<1>17. ASSUME NEW p \in Procs, Vanish(p) PROVE Good
  <2>1. Frame
    BY <1>17, <1>t, <1>u DEF Frame, Copying, Seated, Vanish, Intact, NoWalk
  <2> QED
    BY <2>1, <1>f
<1>18. ASSUME NEW p \in Procs, restart(p) PROVE Good
  <2>1. Frame
    BY <1>18, <1>t, <1>u DEF Frame, Copying, Seated, restart, Unborn
  <2> QED
    BY <2>1, <1>f
<1>19. ASSUME UNCHANGED vars PROVE Good
  <2>1. Frame
    BY <1>19 DEF Frame, vars, Copying, Seated
  <2> QED
    BY <2>1, <1>f
<1>20. Good
  BY <1>1, <1>2, <1>3, <1>4, <1>5, <1>6, <1>7, <1>8, <1>9, <1>10, <1>11,
     <1>12, <1>13, <1>14, <1>15, <1>16, <1>17, <1>18, <1>19
  DEF Next, init_proc_slot_withlock, clear_proc_slot_nolock, gpu_device_memory_usage,
      exit_handler, exited, kill
<1> QED
  BY <1>20 DEF Good
-----------------------------------------------------------------------------
(* The cached pointers *)

(* A slot that has just been written for p. *)
LEMMA FreshFields ==
  ASSUME NEW p
  PROVE  FreshSlot(p).pid = p /\ FreshSlot(p).used = 0 /\ ~FreshSlot(p).odd
  BY Zenon DEF FreshSlot

(* A pointer stays right while its slot, and what it accounts, stay. *)
LEMMA PointerKept ==
  ASSUME NEW q \in Procs, OwnPointer(q), Seated(q)' => Seated(q),
         ph'[q] = "publish" => ph[q] = "publish" /\ procs'[procNum'] = procs[procNum],
         Seated(q)' => mySlot'[q] = mySlot[q] /\ held'[q] = held[q] /\ wr'[q] = wr[q],
         Seated(q)' => \A i \in Slots : mySlot[q] = i /\ Counts(i) /\ procs[i].pid = q =>
                                          procs'[i] = procs[i] /\ Counts(i)'
  PROVE  OwnPointer(q)'
<1>1. ph'[q] = "publish" => procs'[procNum'] = FreshSlot(q)
  BY DEF OwnPointer
<1>2. ASSUME Seated(q)'
      PROVE  \E i \in Slots : /\ mySlot'[q] = i /\ Counts(i)'
                              /\ procs'[i].pid = q
                              /\ procs'[i].used = held'[q]
                              /\ procs'[i].odd <=> wr'[q] # "no"
  <2>1. PICK i \in Slots : /\ mySlot[q] = i /\ Counts(i)
                           /\ procs[i].pid = q
                           /\ procs[i].used = held[q]
                           /\ procs[i].odd <=> wr[q] # "no"
    BY <1>2, Zenon DEF OwnPointer
  <2>2. procs'[i] = procs[i] /\ Counts(i)'
    BY <1>2, <2>1, Zenon
  <2>3. mySlot'[q] = i /\ held'[q] = held[q] /\ wr'[q] = wr[q]
    BY <1>2, <2>1, Zenon
  <2> QED
    BY <2>1, <2>2, <2>3, Zenon
<1> QED
  BY <1>1, <1>2, Zenon DEF OwnPointer

(* Whether a slot counts depends on proc_num and on the copying alone. *)
LEMMA CountsKept ==
  ASSUME procNum' = procNum,
         \A q \in Procs : /\ Copying(q)' <=> Copying(q)
                          /\ Copying(q) => walk'[q].at = walk[q].at
  PROVE  \A i \in Slots : Counts(i)' <=> Counts(i)
  BY DEF Counts

(* The cached pointer does not change under an update: a process that moves  *)
(* its own slot meanwhile does so with a foul event.                         *)
LEMMA AimsStep ==
  ASSUME SlotTypes, Unborn, Aims, foul' = {}, [Next]_vars
  PROVE  Aims'
<1> USE DEF SlotTypes, Aims
<1>1. ASSUME NEW p \in Procs, init_lock(p) PROVE Aims'
  BY <1>1 DEF init_lock, Advance
<1>2. ASSUME NEW p \in Procs, init_full(p) PROVE Aims'
  BY <1>2 DEF init_full
<1>3. ASSUME NEW p \in Procs, init_reuse(p) PROVE Aims'
  BY <1>3 DEF init_reuse, Advance, Unborn
<1>4. ASSUME NEW p \in Procs, init_append(p) PROVE Aims'
  BY <1>4 DEF init_append, Advance, Unborn
<1>5. ASSUME NEW p \in Procs, init_publish(p) PROVE Aims'
  BY <1>5 DEF init_publish, Advance
<1>6. ASSUME NEW p \in Procs, init_unlock(p) PROVE Aims'
  BY <1>6 DEF init_unlock, Advance
<1>7. ASSUME NEW p \in Procs, oom_clear(p) PROVE Aims'
  BY <1>7 DEF oom_clear
<1>8. ASSUME NEW p \in Procs, walk_remove(p) PROVE Aims'
  BY <1>8 DEF walk_remove
<1>9. ASSUME NEW p \in Procs, walk_keep(p) PROVE Aims'
  BY <1>9 DEF walk_keep
<1>10. ASSUME NEW p \in Procs, walk_end(p) PROVE Aims'
  BY <1>10 DEF walk_end
<1>11. ASSUME NEW p \in Procs, walk_copy(p) PROVE Aims'
  BY <1>11 DEF walk_copy
<1>12. ASSUME NEW p \in Procs, NEW d \in {"add", "rm"}, usage_begin(p, d) PROVE Aims'
  BY <1>12 DEF usage_begin
<1>13. ASSUME NEW p \in Procs, usage_total(p) PROVE Aims'
  BY <1>13 DEF usage_total
<1>14. ASSUME NEW p \in Procs, usage_end(p) PROVE Aims'
  BY <1>14 DEF usage_end
<1>15. ASSUME NEW p \in Procs, exit_scan(p) PROVE Aims'
  BY <1>15 DEF exit_scan, Advance
<1>16. ASSUME NEW p \in Procs, exit_mark(p) PROVE Aims'
  BY <1>16 DEF exit_mark, Advance
<1>17. ASSUME NEW p \in Procs, Vanish(p) PROVE Aims'
  BY <1>17 DEF Vanish
<1>18. ASSUME NEW p \in Procs, restart(p) PROVE Aims'
  BY <1>18 DEF restart
<1>19. CASE UNCHANGED vars
  BY <1>19 DEF vars
<1> QED
  BY <1>1, <1>2, <1>3, <1>4, <1>5, <1>6, <1>7, <1>8, <1>9, <1>10, <1>11,
     <1>12, <1>13, <1>14, <1>15, <1>16, <1>17, <1>18, <1>19
  DEF Next, init_proc_slot_withlock, clear_proc_slot_nolock, gpu_device_memory_usage,
      exit_handler, exited, kill

(* Until a foul event, every step keeps every pointer right. *)
LEMMA PointersStep ==
  ASSUME TableInv, Pointers, Aims, foul' = {}, [Next]_vars
  PROVE  Pointers'
<1> USE SlotsAssumption DEF SlotsAssumption
<1>t. SlotTypes /\ Exclusive /\ Unborn /\ Updates /\ Places /\ Seats
  BY DEF TableInv
<1>u. /\ procs \in [Slots -> Slot] /\ procNum \in 0..MaxSlots /\ up \in [Procs -> BOOLEAN]
      /\ ph \in [Procs -> Phases] /\ mySlot \in [Procs -> Slots \cup {NoSlot}]
      /\ walk \in [Procs -> Walk] /\ found \in [Procs -> Slots] /\ held \in [Procs -> 0..MaxHeld]
      /\ wr \in [Procs -> {"no", "add", "rm", "end"}]
      /\ \A q \in Procs : walk[q].at \in 0..MaxSlots
  BY <1>t DEF SlotTypes, Walk
<1>v. \A j \in Slots : j \in Int
  BY DEF Slots
<1>q. \A q \in Procs : OwnPointer(q)
  BY DEF Pointers
<1>s. \A q \in Procs : Seated(q) => \E i \in Slots : mySlot[q] = i /\ Counts(i) /\ procs[i].pid = q
  BY <1>q DEF OwnPointer
<1>b. \A q \in Procs : ph[q] = "publish" => procNum \in Slots /\ procs[procNum].pid = q
  BY <1>t DEF Places
<1>w. \A q \in Procs : Copying(q) => Walking(q)
  BY DEF Copying, Walking
<1>p. ASSUME NEW p \in Procs, Walking(p)
      PROVE  \A q \in Procs : ph[q] # "publish" /\ (q # p => ~Copying(q))
  BY <1>p, <1>t, <1>w DEF Exclusive
<1>r. ASSUME NEW p \in Procs, ph[p] \in {"find", "publish"}
      PROVE  \A q \in Procs : ~Copying(q) /\ (q # p => ph[q] # "publish")
  BY <1>r, <1>t, <1>w DEF Exclusive
<1>1. ASSUME NEW p \in Procs, init_lock(p) PROVE Pointers'
  <2>1. \A i \in Slots : Counts(i)' <=> Counts(i)
    BY <1>1, <1>u, CountsKept DEF Copying, NoWalk, init_lock, Advance
  <2>2. ASSUME NEW q \in Procs PROVE OwnPointer(q)'
    <3>1. /\ Seated(q)' => Seated(q)
          /\ ph'[q] = "publish" => ph[q] = "publish"
          /\ Seated(q)' => mySlot'[q] = mySlot[q] /\ held'[q] = held[q] /\ wr'[q] = wr[q]
      BY <1>1, <1>t, <1>u DEF Seated, Unborn, init_lock, Advance
    <3>2. procs' = procs /\ procNum' = procNum
      BY <1>1 DEF init_lock, Advance
    <3> QED
      BY <1>q, <1>s, <2>1, <3>1, <3>2, PointerKept
  <2> QED
    BY <2>2 DEF Pointers
<1>2. ASSUME NEW p \in Procs, init_full(p) PROVE Pointers'
  <2> DEFINE own == SlotsOf(p, MaxSlots)
  <2>1. \A i \in Slots : Counts(i)' <=> Counts(i)
    BY <1>2, CountsKept DEF Copying, init_full
  <2>2. \A j \in Slots : procs[j].pid # p => procs'[j] = procs[j]
    <3>1. CASE own = {}
      <4>1. procs' = procs
        BY <1>2, <3>1 DEF init_full
      <4> QED
        BY <4>1
    <3>2. CASE own # {}
      <4>1. procs[First(own)].pid = p
        BY <3>2, FirstOwn DEF SlotsOf
      <4>2. procs' = [procs EXCEPT ![First(own)].pid = NoPid]
        BY <1>2, <3>2 DEF init_full
      <4> DEFINE f == First(own)
      <4> HIDE DEF own, f
      <4>3. \A j \in Slots : j # f => procs'[j] = procs[j]
        BY <1>u, <4>2, PidWritten DEF f
      <4> QED
        BY <4>1, <4>3 DEF f
    <3> QED
      BY <3>1, <3>2
  <2> HIDE DEF own
  <2>9. ASSUME NEW q \in Procs PROVE OwnPointer(q)'
    <3>1. /\ Seated(q)' => Seated(q) /\ q # p
          /\ ph'[q] # "publish"
          /\ Seated(q)' => mySlot'[q] = mySlot[q] /\ held'[q] = held[q] /\ wr'[q] = wr[q]
      BY <1>2, <1>u, <1>r DEF Seated, init_full
    <3> QED
      BY <1>q, <1>s, <2>1, <2>2, <3>1, PointerKept
  <2> QED
    BY <2>9 DEF Pointers
<1>3. ASSUME NEW p \in Procs, init_reuse(p) PROVE Pointers'
  <2>1. PICK f \in Slots : f = First(SlotsOf(p, procNum)) /\ f < procNum /\ procs[f].pid = p
    BY <1>3, FirstOwn DEF init_reuse, SlotsOf
  <2>2. FreshSlot(p) \in Slot
    BY Zenon DEF FreshSlot, Slot
  <2>3. \A j \in Slots : procs'[j] = IF j = f THEN FreshSlot(p) ELSE procs[j]
    BY <1>3, <1>u, <2>1, <2>2, SlotWritten DEF init_reuse
  <2>a. mySlot'[p] = f
    BY <1>3, <1>u, <2>1 DEF init_reuse
  <2>4. \A q \in Procs : ~Copying(q) /\ ~Copying(q)'
    BY <1>3, <1>u, <1>r DEF init_reuse, Advance, Copying, NoWalk
  <2>5. \A j \in Slots : Counts(j) <=> j < procNum
    BY <2>4 DEF Counts
  <2>6. \A j \in Slots : Counts(j)' <=> j < procNum
    BY <1>3, <2>4 DEF Counts, init_reuse
  <2>9. ASSUME NEW q \in Procs PROVE OwnPointer(q)'
    <3>1. /\ Seated(q)' => q = p \/ Seated(q)
          /\ ph'[q] # "publish"
          /\ q # p => mySlot'[q] = mySlot[q]
          /\ held'[q] = held[q] /\ wr'[q] = wr[q]
      BY <1>3, <1>u, <1>r DEF init_reuse, Advance, Seated
    <3>2. CASE q # p
      BY <1>q, <1>s, <2>1, <2>3, <2>5, <2>6, <3>1, <3>2, PointerKept
    <3>3. CASE q = p
      <4>1. held[p] = 0 /\ wr[p] = "no"
        BY <1>3, <1>t DEF init_reuse, Advance, Unborn
      <4>2. procs'[f] = FreshSlot(p) /\ Counts(f)'
        BY <2>1, <2>3, <2>6
      <4>3. procs'[f].pid = p /\ procs'[f].used = 0 /\ ~procs'[f].odd
        BY <4>2, FreshFields, Zenon
      <4>4. held'[p] = 0 /\ wr'[p] = "no"
        BY <3>1, <3>3, <4>1
      <4> QED
        BY <2>1, <2>a, <3>1, <3>3, <4>2, <4>3, <4>4, Zenon DEF OwnPointer
    <3> QED
      BY <3>2, <3>3
  <2> QED
    BY <2>9 DEF Pointers
<1>4. ASSUME NEW p \in Procs, init_append(p) PROVE Pointers'
  <2>2. FreshSlot(p) \in Slot
    BY Zenon DEF FreshSlot, Slot
  <2>3. \A j \in Slots : procs'[j] = IF j = procNum THEN FreshSlot(p) ELSE procs[j]
    BY <1>4, <1>u, <2>2, SlotWritten DEF init_append
  <2>4. \A q \in Procs : ~Copying(q) /\ ~Copying(q)'
    BY <1>4, <1>r DEF init_append, Advance, Copying
  <2>5. \A j \in Slots : Counts(j) <=> j < procNum
    BY <2>4 DEF Counts
  <2>6. \A j \in Slots : Counts(j)' <=> j < procNum
    BY <1>4, <2>4 DEF Counts, init_append
  <2>9. ASSUME NEW q \in Procs PROVE OwnPointer(q)'
    <3>1. /\ Seated(q)' => Seated(q) /\ q # p
          /\ ph'[q] = "publish" => q = p
          /\ Seated(q)' => mySlot'[q] = mySlot[q] /\ held'[q] = held[q] /\ wr'[q] = wr[q]
          /\ procNum' = procNum /\ procNum \in Slots
      BY <1>4, <1>u, <1>r DEF init_append, Advance, Seated
    <3>2. CASE q # p
      <4>1. Seated(q) => mySlot[q] # procNum
        BY <1>s, <1>v, <2>5, <3>1
      <4>2. Seated(q) <=> Seated(q)'
        BY <1>4, <1>u, <3>2 DEF init_append, Advance, Seated
      <4> QED
        BY <1>q, <1>s, <2>3, <2>5, <2>6, <3>1, <3>2, <4>1, <4>2, PointerKept
    <3>3. CASE q = p
      BY <2>3, <3>1, <3>3 DEF OwnPointer
    <3> QED
      BY <3>2, <3>3
  <2> QED
    BY <2>9 DEF Pointers
<1>5. ASSUME NEW p \in Procs, init_publish(p) PROVE Pointers'
  <2>1. /\ procNum \in Slots /\ mySlot[p] = procNum /\ procs' = procs /\ procNum' = procNum + 1
        /\ mySlot' = mySlot /\ held' = held /\ wr' = wr
    BY <1>5, <1>t DEF init_publish, Advance, Places
  <2>4. \A q \in Procs : ~Copying(q) /\ ~Copying(q)'
    BY <1>5, <1>u, <1>r DEF init_publish, Advance, Copying, NoWalk
  <2>5. \A j \in Slots : Counts(j) <=> j < procNum
    BY <2>4 DEF Counts
  <2>6. \A j \in Slots : Counts(j)' <=> j < procNum \/ j = procNum
    BY <1>v, <2>1, <2>4 DEF Counts
  <2>9. ASSUME NEW q \in Procs PROVE OwnPointer(q)'
    <3>1. (Seated(q)' => q = p \/ Seated(q)) /\ ph'[q] # "publish"
      BY <1>5, <1>u, <1>r DEF init_publish, Advance, Seated
    <3>2. CASE q # p
      BY <1>q, <1>s, <2>1, <2>5, <2>6, <3>1, <3>2, PointerKept
    <3>3. CASE q = p
      <4>1. held[p] = 0 /\ wr[p] = "no"
        BY <1>5, <1>t DEF init_publish, Advance, Unborn
      <4>2. procs[procNum] = FreshSlot(p)
        BY <1>5, <1>q DEF init_publish, Advance, OwnPointer
      <4> PICK n \in Slots : n = procNum
        BY <2>1
      <4>3. procs'[n].pid = p /\ procs'[n].used = 0 /\ ~procs'[n].odd
        BY <2>1, <4>2, FreshFields, Zenon
      <4>4. held'[p] = 0 /\ wr'[p] = "no" /\ mySlot'[p] = n /\ Counts(n)'
        BY <2>1, <2>6, <4>1
      <4> QED
        BY <3>1, <3>3, <4>3, <4>4, Zenon DEF OwnPointer
    <3> QED
      BY <3>2, <3>3
  <2> QED
    BY <2>9 DEF Pointers
<1>6. ASSUME NEW p \in Procs, init_unlock(p) PROVE Pointers'
  <2>1. \A i \in Slots : Counts(i)' <=> Counts(i)
    BY <1>6, <1>u, CountsKept DEF Copying, NoWalk, init_unlock, Advance
  <2>2. ASSUME NEW q \in Procs PROVE OwnPointer(q)'
    <3>1. /\ Seated(q)' => Seated(q)
          /\ ph'[q] = "publish" => ph[q] = "publish"
          /\ Seated(q)' => mySlot'[q] = mySlot[q] /\ held'[q] = held[q] /\ wr'[q] = wr[q]
      BY <1>6, <1>t, <1>u DEF Seated, Unborn, init_unlock, Advance
    <3>2. procs' = procs /\ procNum' = procNum
      BY <1>6 DEF init_unlock, Advance
    <3> QED
      BY <1>q, <1>s, <2>1, <3>1, <3>2, PointerKept
  <2> QED
    BY <2>2 DEF Pointers
<1>7. ASSUME NEW p \in Procs, oom_clear(p) PROVE Pointers'
  <2>1. \A i \in Slots : Counts(i)' <=> Counts(i)
    BY <1>7, <1>u, CountsKept DEF Copying, NoWalk, oom_clear, Walking
  <2>2. ASSUME NEW q \in Procs PROVE OwnPointer(q)'
    <3>1. /\ Seated(q)' => Seated(q)
          /\ ph'[q] = "publish" => ph[q] = "publish"
          /\ Seated(q)' => mySlot'[q] = mySlot[q] /\ held'[q] = held[q] /\ wr'[q] = wr[q]
      BY <1>7, <1>t, <1>u DEF Seated, Unborn, oom_clear, Walking
    <3>2. procs' = procs /\ procNum' = procNum
      BY <1>7 DEF oom_clear, Walking
    <3> QED
      BY <1>q, <1>s, <2>1, <3>1, <3>2, PointerKept
  <2> QED
    BY <2>2 DEF Pointers
<1>8. ASSUME NEW p \in Procs, walk_remove(p) PROVE Pointers'
  <2> DEFINE i == walk[p].at
  <2>1. /\ Walking(p) /\ ~Copying(p) /\ i \in Slots /\ i < procNum
        /\ procs' = procs /\ procNum' = procNum - 1
    BY <1>8, <1>u DEF walk_remove, Walking, Copying, Slots
  <2>2. \A q \in Procs : ~Copying(q)
    BY <1>p, <2>1
  <2>3. Copying(p)' /\ walk'[p].at = i /\ \A q \in Procs : Copying(q)' => q = p
    BY <1>8, <1>u, <2>2 DEF walk_remove, Copying
  <2>4. \A q \in Procs : procs[i].pid = q => ~Seated(q)
    BY <1>8 DEF walk_remove, Marked, Kickable, Seated
  <2>5. \A j \in Slots : Counts(j) <=> j < procNum
    BY <2>2 DEF Counts
  <2> HIDE DEF i
  <2>6. \A j \in Slots : Counts(j)' <=> j < procNum /\ (j = procNum - 1 \/ j # i)
    BY <1>u, <1>v, <2>1, <2>3 DEF Counts
  <2>9. ASSUME NEW q \in Procs PROVE OwnPointer(q)'
    <3>1. /\ Seated(q)' <=> Seated(q)
          /\ ph'[q] # "publish"
          /\ mySlot'[q] = mySlot[q] /\ held'[q] = held[q] /\ wr'[q] = wr[q]
      BY <1>8, <1>p, <2>1 DEF walk_remove, Seated
    <3> QED
      BY <1>q, <1>s, <2>1, <2>4, <2>5, <2>6, <3>1, PointerKept
  <2> QED
    BY <2>9 DEF Pointers
<1>9. ASSUME NEW p \in Procs, walk_keep(p) PROVE Pointers'
  <2>1. \A i \in Slots : Counts(i)' <=> Counts(i)
    BY <1>9, <1>u, CountsKept DEF Copying, NoWalk, walk_keep
  <2>2. ASSUME NEW q \in Procs PROVE OwnPointer(q)'
    <3>1. /\ Seated(q)' => Seated(q)
          /\ ph'[q] = "publish" => ph[q] = "publish"
          /\ Seated(q)' => mySlot'[q] = mySlot[q] /\ held'[q] = held[q] /\ wr'[q] = wr[q]
      BY <1>9, <1>t, <1>u DEF Seated, Unborn, walk_keep
    <3>2. procs' = procs /\ procNum' = procNum
      BY <1>9 DEF walk_keep
    <3> QED
      BY <1>q, <1>s, <2>1, <3>1, <3>2, PointerKept
  <2> QED
    BY <2>2 DEF Pointers
<1>10. ASSUME NEW p \in Procs, walk_end(p) PROVE Pointers'
  <2>1. \A i \in Slots : Counts(i)' <=> Counts(i)
    BY <1>10, <1>u, CountsKept DEF Copying, NoWalk, walk_end
  <2>2. ASSUME NEW q \in Procs PROVE OwnPointer(q)'
    <3>1. /\ Seated(q)' => Seated(q)
          /\ ph'[q] = "publish" => ph[q] = "publish"
          /\ Seated(q)' => mySlot'[q] = mySlot[q] /\ held'[q] = held[q] /\ wr'[q] = wr[q]
      BY <1>10, <1>t, <1>u DEF Seated, Unborn, walk_end
    <3>2. procs' = procs /\ procNum' = procNum
      BY <1>10 DEF walk_end
    <3> QED
      BY <1>q, <1>s, <2>1, <3>1, <3>2, PointerKept
  <2> QED
    BY <2>2 DEF Pointers
<1>11. ASSUME NEW p \in Procs, walk_copy(p) PROVE Pointers'
  <2> DEFINE i == walk[p].at
  <2>1. /\ Walking(p) /\ procNum \in Slots /\ procNum' = procNum /\ i \in Slots /\ i <= procNum
        /\ \A q \in Procs : procs[i].pid = q => ~Seated(q)
    <3>1. Walking(p) /\ Copying(p) /\ procNum' = procNum /\ procNum \in Slots
      BY <1>11 DEF walk_copy, Walking, Copying
    <3>2. i <= procNum /\ \A q \in Procs : procs[i].pid = q => ~Seated(q)
      BY <1>t, <3>1 DEF Places
    <3> QED
      BY <1>u, <3>1, <3>2 DEF Slots
  <2>2. \A q \in Procs : ~Copying(q)'
    BY <1>11, <1>u, <1>p, <2>1 DEF walk_copy, Copying
  <2>3. \A j \in Slots : j < procNum => procs'[j] = IF j = i THEN procs[procNum] ELSE procs[j]
    BY <1>11, <1>u, CopyWritten DEF Slots
  <2>4. Copying(p)
    BY <1>11 DEF walk_copy, Copying
  <2>5. \A j \in Slots : Counts(j) <=> j = procNum \/ (j < procNum /\ j # i)
    BY <1>p, <1>v, <2>1, <2>4 DEF Counts
  <2>6. \A j \in Slots : Counts(j)' <=> j < procNum
    BY <2>1, <2>2 DEF Counts
  <2>7. /\ mySlot' = IF mySlot[p] = procNum THEN [mySlot EXCEPT ![p] = i] ELSE mySlot
        /\ i # procNum => \A q \in Procs \ {p} : ~(up[q] /\ mySlot[q] = procNum)
        /\ held' = held /\ wr' = wr
    BY <1>11 DEF walk_copy
  <2> HIDE DEF i
  <2>9. ASSUME NEW q \in Procs PROVE OwnPointer(q)'
    <3>1. (Seated(q)' <=> Seated(q)) /\ ph'[q] # "publish"
      BY <1>11, <1>p, <2>1 DEF walk_copy, Seated
    <3>2. CASE ~Seated(q)
      BY <3>1, <3>2 DEF OwnPointer
    <3>3. CASE Seated(q) /\ mySlot[q] # procNum
      <4>1. mySlot'[q] = mySlot[q]
        BY <1>u, <2>7, <3>3
      <4> QED
        BY <1>q, <1>s, <2>3, <2>5, <2>6, <2>7, <3>1, <3>3, <4>1, PointerKept
    <3>4. CASE Seated(q) /\ mySlot[q] = procNum
      <4>1. i # procNum
        BY <1>s, <2>1, <3>4
      <4>2. q = p
        BY <2>7, <3>4, <4>1 DEF Seated
      <4>3. mySlot'[q] = i
        BY <1>u, <2>7, <3>4, <4>2
      <4>4. i < procNum
        BY <1>v, <2>1, <4>1
      <4> PICK k \in Slots : k = i
        BY <2>1
      <4>5. procs'[k] = procs[procNum] /\ Counts(k)'
        BY <2>1, <2>3, <2>6, <4>4
      <4>6. /\ procs[procNum].pid = q
            /\ procs[procNum].used = held[q]
            /\ procs[procNum].odd <=> wr[q] # "no"
        BY <1>q, <3>4, Zenon DEF OwnPointer
      <4>7. /\ procs'[k].pid = q
            /\ procs'[k].used = held'[q]
            /\ procs'[k].odd <=> wr'[q] # "no"
        BY <2>7, <4>5, <4>6, Zenon
      <4> QED
        BY <3>1, <4>3, <4>5, <4>7, Zenon DEF OwnPointer
    <3> QED
      BY <3>2, <3>3, <3>4
  <2> QED
    BY <2>9 DEF Pointers
<1>12. ASSUME NEW p \in Procs, NEW d \in {"add", "rm"}, usage_begin(p, d) PROVE Pointers'
  <2>1. \A i \in Slots : Counts(i)' <=> Counts(i)
    BY <1>12, CountsKept DEF Copying, usage_begin
  <2>2. Seated(p)
    BY <1>12, <1>t, <1>u DEF usage_begin, Seated, Unborn, Phases
  <2>3. PICK i \in Slots : /\ mySlot[p] = i /\ Counts(i)
                           /\ procs[i].pid = p
                           /\ procs[i].used = held[p]
                           /\ procs[i].odd <=> wr[p] # "no"
    BY <1>q, <2>2, Zenon DEF OwnPointer
  <2>i. mySlot[p] = i /\ procs[i].pid = p /\ procs[i].used = held[p] /\ Counts(i)
    BY <2>3, Zenon
  <2>4. \A j \in Slots : j # mySlot[p] => procs'[j] = procs[j]
    BY <1>12, <1>u DEF usage_begin
  <2>5. /\ procs'[i].pid = procs[i].pid
        /\ procs'[i].used = procs[i].used
        /\ procs'[i].odd <=> ~procs[i].odd
    BY <1>12, <1>u, <2>i, OddWritten DEF usage_begin
  <2>9. ASSUME NEW q \in Procs PROVE OwnPointer(q)'
    <3>1. /\ Seated(q)' <=> Seated(q)
          /\ ph'[q] = ph[q] /\ procNum' = procNum /\ mySlot'[q] = mySlot[q]
          /\ q # p => held'[q] = held[q] /\ wr'[q] = wr[q]
      BY <1>12, <1>u DEF usage_begin, Seated
    <3>2. CASE q # p
      <4>1. Seated(q) => mySlot[q] # mySlot[p]
        BY <1>s, <2>2, <3>2
      <4>2. ph[q] = "publish" => procNum # mySlot[p]
        BY <1>b, <1>s, <2>2, <3>2
      <4> QED
        BY <1>b, <1>q, <1>s, <2>1, <2>4, <3>1, <3>2, <4>1, <4>2, PointerKept
    <3>3. CASE q = p
      <4>1. mySlot'[p] = i /\ procs'[i].pid = p /\ Counts(i)'
        BY <2>1, <2>i, <2>5, <3>1, <3>3
      <4>2. procs'[i].used = held'[p]
        BY <1>12, <2>i, <2>5 DEF usage_begin
      <4>3. procs'[i].odd <=> wr'[p] # "no"
        <5>2. wr[p] = "no" /\ wr'[p] # "no"
          BY <1>12, <1>u DEF usage_begin
        <5> QED
          BY <2>3, <2>5, <5>2, Zenon
      <4>4. ph'[p] # "publish"
        BY <2>2, <3>1, <3>3 DEF Seated
      <4> QED
        BY <3>1, <3>3, <4>1, <4>2, <4>3, <4>4, Zenon DEF OwnPointer
    <3> QED
      BY <3>2, <3>3
  <2> QED
    BY <2>9 DEF Pointers
<1>13. ASSUME NEW p \in Procs, usage_total(p) PROVE Pointers'
  <2>1. \A i \in Slots : Counts(i)' <=> Counts(i)
    BY <1>13, CountsKept DEF Copying, usage_total
  <2>2. Seated(p)
    BY <1>13, <1>t, <1>u DEF usage_total, Seated, Unborn, Phases
  <2>3. PICK i \in Slots : /\ mySlot[p] = i /\ Counts(i)
                           /\ procs[i].pid = p
                           /\ procs[i].used = held[p]
                           /\ procs[i].odd <=> wr[p] # "no"
    BY <1>q, <2>2, Zenon DEF OwnPointer
  <2>i. mySlot[p] = i /\ procs[i].pid = p /\ procs[i].used = held[p] /\ Counts(i)
    BY <2>3, Zenon
  <2>t. target[p] = mySlot[p]
    BY <1>13 DEF usage_total, Aims
  <2>a. PICK d \in {1, -1} : /\ d = IF wr[p] = "add" THEN 1 ELSE -1
                             /\ procs' = [procs EXCEPT ![mySlot[p]].used = (@ + d) % Word]
                             /\ held' = [held EXCEPT ![p] = @ + d]
    BY <1>13, <2>t DEF usage_total
  <2>4. \A j \in Slots : j # mySlot[p] => procs'[j] = procs[j]
    BY <1>u, <2>a
  <2>5. /\ procs'[i].pid = procs[i].pid
        /\ procs'[i].used = (procs[i].used + d) % Word
        /\ procs'[i].odd <=> procs[i].odd
    BY <1>u, <2>i, <2>a, UsedWritten
  <2>9. ASSUME NEW q \in Procs PROVE OwnPointer(q)'
    <3>1. /\ Seated(q)' <=> Seated(q)
          /\ ph'[q] = ph[q] /\ procNum' = procNum /\ mySlot'[q] = mySlot[q]
          /\ q # p => held'[q] = held[q] /\ wr'[q] = wr[q]
      BY <1>13, <1>u DEF usage_total, Seated
    <3>2. CASE q # p
      <4>1. Seated(q) => mySlot[q] # mySlot[p]
        BY <1>s, <2>2, <3>2
      <4>2. ph[q] = "publish" => procNum # mySlot[p]
        BY <1>b, <1>s, <2>2, <3>2
      <4> QED
        BY <1>b, <1>q, <1>s, <2>1, <2>4, <3>1, <3>2, <4>1, <4>2, PointerKept
    <3>3. CASE q = p
      <4>1. mySlot'[p] = i /\ procs'[i].pid = p /\ Counts(i)'
        BY <2>1, <2>i, <2>5, <3>1, <3>3
      <4>2. procs'[i].used = held'[p]
        <5>2. held[p] + d \in 0..MaxHeld /\ held'[p] = held[p] + d
          BY <1>13, <1>t, <1>u, <2>a DEF usage_total, Updates
        <5>3. (held[p] + d) % Word = held[p] + d
          BY <5>2
        <5> QED
          BY <2>i, <2>5, <5>2, <5>3
      <4>3. procs'[i].odd <=> wr'[p] # "no"
        <5>2. wr[p] # "no" /\ wr'[p] # "no"
          BY <1>13, <1>u DEF usage_total
        <5> QED
          BY <2>3, <2>5, <5>2, Zenon
      <4>4. ph'[p] # "publish"
        BY <2>2, <3>1, <3>3 DEF Seated
      <4> QED
        BY <3>1, <3>3, <4>1, <4>2, <4>3, <4>4, Zenon DEF OwnPointer
    <3> QED
      BY <3>2, <3>3
  <2> QED
    BY <2>9 DEF Pointers
<1>14. ASSUME NEW p \in Procs, usage_end(p) PROVE Pointers'
  <2>1. \A i \in Slots : Counts(i)' <=> Counts(i)
    BY <1>14, CountsKept DEF Copying, usage_end
  <2>2. Seated(p)
    BY <1>14, <1>t, <1>u DEF usage_end, Seated, Unborn, Phases
  <2>3. PICK i \in Slots : /\ mySlot[p] = i /\ Counts(i)
                           /\ procs[i].pid = p
                           /\ procs[i].used = held[p]
                           /\ procs[i].odd <=> wr[p] # "no"
    BY <1>q, <2>2, Zenon DEF OwnPointer
  <2>i. mySlot[p] = i /\ procs[i].pid = p /\ procs[i].used = held[p] /\ Counts(i)
    BY <2>3, Zenon
  <2>t. procs' = [procs EXCEPT ![mySlot[p]].odd = ~@]
    BY <1>14 DEF usage_end, Aims
  <2>4. \A j \in Slots : j # mySlot[p] => procs'[j] = procs[j]
    BY <1>u, <2>t
  <2>5. /\ procs'[i].pid = procs[i].pid
        /\ procs'[i].used = procs[i].used
        /\ procs'[i].odd <=> ~procs[i].odd
    BY <1>u, <2>i, <2>t, OddWritten
  <2>9. ASSUME NEW q \in Procs PROVE OwnPointer(q)'
    <3>1. /\ Seated(q)' <=> Seated(q)
          /\ ph'[q] = ph[q] /\ procNum' = procNum /\ mySlot'[q] = mySlot[q]
          /\ q # p => held'[q] = held[q] /\ wr'[q] = wr[q]
      BY <1>14, <1>u DEF usage_end, Seated
    <3>2. CASE q # p
      <4>1. Seated(q) => mySlot[q] # mySlot[p]
        BY <1>s, <2>2, <3>2
      <4>2. ph[q] = "publish" => procNum # mySlot[p]
        BY <1>b, <1>s, <2>2, <3>2
      <4> QED
        BY <1>b, <1>q, <1>s, <2>1, <2>4, <3>1, <3>2, <4>1, <4>2, PointerKept
    <3>3. CASE q = p
      <4>1. mySlot'[p] = i /\ procs'[i].pid = p /\ Counts(i)'
        BY <2>1, <2>i, <2>5, <3>1, <3>3
      <4>2. procs'[i].used = held'[p]
        BY <1>14, <2>i, <2>5 DEF usage_end
      <4>3. procs'[i].odd <=> wr'[p] # "no"
        <5>2. wr[p] # "no" /\ wr'[p] = "no"
          BY <1>14, <1>u DEF usage_end
        <5> QED
          BY <2>3, <2>5, <5>2, Zenon
      <4>4. ph'[p] # "publish"
        BY <2>2, <3>1, <3>3 DEF Seated
      <4> QED
        BY <3>1, <3>3, <4>1, <4>2, <4>3, <4>4, Zenon DEF OwnPointer
    <3> QED
      BY <3>2, <3>3
  <2> QED
    BY <2>9 DEF Pointers
<1>15. ASSUME NEW p \in Procs, exit_scan(p) PROVE Pointers'
  <2>1. \A i \in Slots : Counts(i)' <=> Counts(i)
    BY <1>15, <1>u, CountsKept DEF Copying, NoWalk, exit_scan, Advance
  <2>2. ASSUME NEW q \in Procs PROVE OwnPointer(q)'
    <3>1. /\ Seated(q)' => Seated(q)
          /\ ph'[q] = "publish" => ph[q] = "publish"
          /\ Seated(q)' => mySlot'[q] = mySlot[q] /\ held'[q] = held[q] /\ wr'[q] = wr[q]
      BY <1>15, <1>t, <1>u DEF Seated, Unborn, exit_scan, Advance
    <3>2. procs' = procs /\ procNum' = procNum
      BY <1>15 DEF exit_scan, Advance
    <3> QED
      BY <1>q, <1>s, <2>1, <3>1, <3>2, PointerKept
  <2> QED
    BY <2>2 DEF Pointers
<1>16. ASSUME NEW p \in Procs, exit_mark(p) PROVE Pointers'
  <2>1. \A i \in Slots : Counts(i)' <=> Counts(i)
    BY <1>16, CountsKept DEF Copying, exit_mark, Advance
  <2>2. procs[found[p]].pid = p
    BY <1>16 DEF exit_mark
  <2>3. \A j \in Slots : j # found[p] => procs'[j] = procs[j]
    BY <1>16, <1>u, PidWritten DEF exit_mark
  <2>9. ASSUME NEW q \in Procs PROVE OwnPointer(q)'
    <3>1. /\ Seated(q)' => Seated(q) /\ q # p
          /\ ph'[q] = "publish" => ph[q] = "publish" /\ q # p
          /\ mySlot'[q] = mySlot[q] /\ held'[q] = held[q] /\ wr'[q] = wr[q] /\ procNum' = procNum
      BY <1>16, <1>u DEF exit_mark, Advance, Seated
    <3>2. CASE q # p
      <4>1. Seated(q) => mySlot[q] # found[p]
        BY <1>s, <2>2, <3>2
      <4>2. ph[q] = "publish" => procNum # found[p]
        BY <1>b, <2>2, <3>2
      <4> QED
        BY <1>b, <1>q, <1>s, <2>1, <2>3, <3>1, <3>2, <4>1, <4>2, PointerKept
    <3>3. CASE q = p
      BY <3>1, <3>3 DEF OwnPointer
    <3> QED
      BY <3>2, <3>3
  <2> QED
    BY <2>9 DEF Pointers
<1>17. ASSUME NEW p \in Procs, Vanish(p) PROVE Pointers'
  <2>1. \A i \in Slots : Counts(i)' <=> Counts(i)
    BY <1>17, <1>u, CountsKept DEF Copying, NoWalk, Vanish
  <2>2. ASSUME NEW q \in Procs PROVE OwnPointer(q)'
    <3>1. /\ Seated(q)' => Seated(q)
          /\ ph'[q] = "publish" => ph[q] = "publish"
          /\ Seated(q)' => mySlot'[q] = mySlot[q] /\ held'[q] = held[q] /\ wr'[q] = wr[q]
      BY <1>17, <1>t, <1>u DEF Seated, Unborn, Vanish
    <3>2. procs' = procs /\ procNum' = procNum
      BY <1>17 DEF Vanish
    <3> QED
      BY <1>q, <1>s, <2>1, <3>1, <3>2, PointerKept
  <2> QED
    BY <2>2 DEF Pointers
<1>18. ASSUME NEW p \in Procs, restart(p) PROVE Pointers'
  <2>1. \A i \in Slots : Counts(i)' <=> Counts(i)
    BY <1>18, <1>u, CountsKept DEF Copying, NoWalk, restart
  <2>2. ASSUME NEW q \in Procs PROVE OwnPointer(q)'
    <3>1. /\ Seated(q)' => Seated(q)
          /\ ph'[q] = "publish" => ph[q] = "publish"
          /\ Seated(q)' => mySlot'[q] = mySlot[q] /\ held'[q] = held[q] /\ wr'[q] = wr[q]
      BY <1>18, <1>t, <1>u DEF Seated, Unborn, restart
    <3>2. procs' = procs /\ procNum' = procNum
      BY <1>18 DEF restart
    <3> QED
      BY <1>q, <1>s, <2>1, <3>1, <3>2, PointerKept
  <2> QED
    BY <2>2 DEF Pointers
<1>19. CASE UNCHANGED vars
  BY <1>19 DEF vars, Pointers, OwnPointer, Seated, Counts, Copying
<1> QED
  BY <1>1, <1>2, <1>3, <1>4, <1>5, <1>6, <1>7, <1>8, <1>9, <1>10, <1>11,
     <1>12, <1>13, <1>14, <1>15, <1>16, <1>17, <1>18, <1>19
  DEF Next, init_proc_slot_withlock, clear_proc_slot_nolock, gpu_device_memory_usage,
      exit_handler, exited, kill
-----------------------------------------------------------------------------
(* The invariant *)

(* The zero-filled region that try_create_shrreg leaves behind. *)
LEMMA SlotsInit == Init => SlotsInv
<1> SUFFICES ASSUME Init PROVE SlotsInv
  OBVIOUS
<1> USE SlotsAssumption DEF SlotsAssumption, Init
<1>1. EmptySlot \in Slot /\ EmptySlot.pid = NoPid
  BY Zenon DEF EmptySlot, Slot
<1>2. 0 \in Slots
  BY DEF Slots
<1>3. SlotTypes
  BY <1>1, <1>2, WalkTypes DEF SlotTypes, Phases
<1>4. \A p \in Procs : ~Walking(p) /\ ~Copying(p) /\ ~Seated(p) /\ ph[p] = "new"
  BY DEF Walking, Copying, Seated, NoWalk
<1>5. Exclusive
  BY <1>4 DEF Exclusive
<1>6. Unborn /\ Updates
  BY DEF Unborn, Updates
<1>7. Places
  BY <1>4 DEF Places
<1>8. Seats
  BY <1>1, <1>4 DEF Seats
<1>9. Pointers /\ Aims
  BY <1>4 DEF Pointers, OwnPointer, Aims, Init
<1> QED
  BY <1>3, <1>5, <1>6, <1>7, <1>8, <1>9 DEF SlotsInv, TableInv

(* The table while no race, no clobber and no torn removal has happened, and *)
(* the pointers while no foul event at all has, survive every step.          *)
LEMMA SlotsStep == SlotsInv /\ [Next]_vars => SlotsInv'
<1> SUFFICES ASSUME SlotsInv, [Next]_vars PROVE SlotsInv'
  OBVIOUS
<1>1. foul \subseteq foul'
  BY FoulGrows
<1>2. ASSUME Intact' PROVE TableInv /\ TableInv'
  <2>1. TableInv
    BY <1>1, <1>2 DEF Intact, SlotsInv
  <2>2. SlotTypes /\ Exclusive /\ Unborn /\ Updates /\ Places
    BY <2>1 DEF TableInv
  <2>3. SlotTypes' /\ Exclusive' /\ Unborn' /\ Updates'
    BY <1>2, <2>2, TypesStep, ExclusiveStep, UnbornStep, UpdatesStep
  <2>4. Places' /\ Seats'
    BY <1>2, <2>1, TableStep
  <2> QED
    BY <2>1, <2>3, <2>4 DEF TableInv
<1>3. ASSUME foul' = {} PROVE Pointers' /\ Aims'
  <2>1. foul = {} /\ Intact'
    BY <1>1, <1>3 DEF Intact
  <2>2. TableInv /\ Pointers /\ Aims
    BY <1>2, <2>1 DEF SlotsInv
  <2>3. SlotTypes /\ Unborn
    BY <2>2 DEF TableInv
  <2> QED
    BY <1>3, <2>2, <2>3, PointersStep, AimsStep
<1> QED
  BY <1>2, <1>3 DEF SlotsInv

(* The inductive invariant holds of every reachable table. *)
THEOREM SlotsInvariant == Spec => []SlotsInv
  BY SlotsInit, SlotsStep, PTL DEF Spec

(* With one walker at most, the choice in Counted is no choice. *)
LEMMA CountedIs ==
  ASSUME SlotTypes, Exclusive
  PROVE  Counted = {i \in Slots : Counts(i)}
<1> DEFINE moving == {p \in Procs : walk[p].pc = "copy"}
<1>1. CASE moving = {}
  BY <1>1 DEF Counted, Counts, Copying
<1>2. CASE moving # {}
  <2> DEFINE p == CHOOSE q \in moving : TRUE
  <2>1. p \in moving
    BY <1>2
  <2>2. Counted = {i \in Slots : i <= procNum /\ (i # walk[p].at \/ i = procNum)}
    BY <1>2, Zenon DEF Counted
  <2> HIDE DEF p
  <2>3. p \in Procs /\ Copying(p) /\ \A q \in Procs : Copying(q) => q = p
    BY <2>1 DEF Exclusive, Walking, Copying
  <2> HIDE DEF moving
  <2>4. \A i \in Slots : Counts(i) <=> i <= procNum /\ (i # walk[p].at \/ i = procNum)
    BY <2>3 DEF Counts
  <2> QED
    BY <2>2, <2>4
<1> QED
  BY <1>1, <1>2

(* clear_proc_slot_nolock, init_proc_slot_withlock and exit_handler leave    *)
(* every live process with exactly one slot that counts, through any kills,  *)
(* exits, reused pids and removals, until a removal runs unlocked next to    *)
(* another change, is cut short, or an exit marks a slot that has moved.     *)
THEOREM OneSlotEach == Spec => []RegisteredOnceUnlessRaced
<1>1. SlotsInv => RegisteredOnceUnlessRaced
  <2> SUFFICES ASSUME SlotsInv, Intact, NEW p \in Procs, up[p], ph[p] \in {"run", "mark"}
               PROVE  Cardinality({i \in Counted : procs[i].pid = p}) = 1
    BY DEF RegisteredOnceUnlessRaced, RegisteredOnce
  <2>1. SlotTypes /\ Exclusive /\ Seats
    BY DEF SlotsInv, TableInv
  <2>2. Counted = {i \in Slots : Counts(i)}
    BY <2>1, CountedIs
  <2>3. PICK k \in Slots : Counts(k) /\ procs[k].pid = p
    BY <2>1 DEF Seats, Seated
  <2>4. p # NoPid
    BY SlotsAssumption DEF SlotsAssumption
  <2>5. {i \in Counted : procs[i].pid = p} = {k}
    BY <2>1, <2>2, <2>3, <2>4 DEF Seats
  <2> QED
    BY <2>5, FS_Singleton
<1> QED
  BY <1>1, SlotsInvariant, PTL

(* region_info.my_slot leads to the slot of the process, and the slot holds  *)
(* exactly what add_ and rm_gpu_device_memory_usage have accounted, until    *)
(* one of the six foul events happens.                                       *)
THEOREM PointerLeadsToOwnSlot == Spec => []OwnSlotUnlessFoul
<1>1. SlotsInv => OwnSlotUnlessFoul
  <2> SUFFICES ASSUME SlotsInv, foul = {}, NEW p \in Procs, up[p], ph[p] = "run"
               PROVE  /\ mySlot[p] \in Counted
                      /\ procs[mySlot[p]].pid = p
                      /\ procs[mySlot[p]].used = held[p]
    BY DEF OwnSlotUnlessFoul, OwnSlot
  <2>1. SlotTypes /\ Exclusive /\ Pointers
    BY DEF SlotsInv, TableInv, Intact
  <2>2. Counted = {i \in Slots : Counts(i)}
    BY <2>1, CountedIs
  <2>3. Seated(p)
    BY DEF Seated
  <2>4. \E i \in Slots : mySlot[p] = i /\ Counts(i) /\ procs[i].pid = p /\ procs[i].used = held[p]
    BY <2>1, <2>3, Zenon DEF Pointers, OwnPointer
  <2> QED
    BY <2>2, <2>4
<1> QED
  BY <1>1, SlotsInvariant, PTL

(* A reader of the usage never spins for ever on the seqlock of a slot: it   *)
(* is odd only during a write of a live process or in the slot of one that   *)
(* has gone, until a foul event.                                             *)
THEOREM OddSlotHasWriter == Spec => []OddHasWriter
<1>1. SlotsInv => OddHasWriter
  <2> SUFFICES ASSUME SlotsInv, foul = {}, NEW i \in Counted, procs[i].odd,
                      procs[i].pid # NoPid, up[procs[i].pid], ph[procs[i].pid] = "run"
               PROVE  wr[procs[i].pid] # "no"
    BY Zenon DEF OddHasWriter
  <2>1. SlotTypes /\ Exclusive /\ Seats /\ Pointers
    BY DEF SlotsInv, TableInv, Intact
  <2>2. i \in Slots /\ Counts(i)
    BY <2>1, CountedIs
  <2>3. PICK p \in Procs : p = procs[i].pid
    BY <2>1, <2>2 DEF SlotTypes, Slot
  <2>4. Seated(p)
    BY <2>3 DEF Seated
  <2>5. PICK k \in Slots : /\ Counts(k) /\ procs[k].pid = p
                           /\ procs[k].odd <=> wr[p] # "no"
    BY <2>1, <2>4, Zenon DEF Pointers, OwnPointer
  <2>6. Counts(k) /\ procs[k].pid = p
    BY <2>5, Zenon
  <2>7. k = i
    BY <2>1, <2>2, <2>3, <2>6 DEF Seats
  <2> QED
    BY <2>3, <2>5, <2>7, Zenon
<1> QED
  BY <1>1, SlotsInvariant, PTL

-----------------------------------------------------------------------------
(* The table implements the registry *)

(* What Totals says, without its choice of the first slot. *)
TotalFacts ==
  \A p \in Procs :
    /\ \A i \in Slots : Counts(i) /\ procs[i].pid = p => Totals[p] = procs[i].used
    /\ (\A i \in Slots : ~(Counts(i) /\ procs[i].pid = p)) => Totals[p] = 0

(* No process has two slots that count, so its total is the one slot's. *)
LEMMA TotalIs == TableInv => TotalFacts
<1> SUFFICES ASSUME TableInv, NEW p \in Procs
             PROVE  /\ \A i \in Slots : Counts(i) /\ procs[i].pid = p => Totals[p] = procs[i].used
                    /\ (\A i \in Slots : ~(Counts(i) /\ procs[i].pid = p)) => Totals[p] = 0
  BY DEF TotalFacts
<1> DEFINE own == {i \in Counted : procs[i].pid = p}
<1>1. Totals[p] = IF own = {} THEN 0 ELSE procs[First(own)].used
  BY Zenon DEF Totals
<1>2. own = {i \in Slots : Counts(i) /\ procs[i].pid = p}
  BY CountedIs DEF TableInv
<1>3. p # NoPid
  BY SlotsAssumption DEF SlotsAssumption
<1> HIDE DEF own
<1>4. ASSUME NEW i \in Slots, Counts(i), procs[i].pid = p PROVE Totals[p] = procs[i].used
  <2>1. own = {i}
    BY <1>2, <1>3, <1>4 DEF TableInv, Seats
  <2>2. First(own) = i
    BY <2>1 DEF First, Slots
  <2> QED
    BY <1>1, <2>1, <2>2
<1>5. ASSUME \A i \in Slots : ~(Counts(i) /\ procs[i].pid = p) PROVE Totals[p] = 0
  BY <1>1, <1>2, <1>5
<1> QED
  BY <1>4, <1>5

(* A total stays when the slot that counts for the process, or a copy of it, *)
(* still counts and no other slot begins to.                                 *)
LEMMA TotalKept ==
  ASSUME TotalFacts, TotalFacts', NEW q \in Procs,
         \A i \in Slots : Counts(i) /\ procs[i].pid = q =>
           \E j \in Slots : Counts(j)' /\ procs'[j].pid = q /\ procs'[j].used = procs[i].used,
         \A j \in Slots : Counts(j)' /\ procs'[j].pid = q =>
           \E i \in Slots : Counts(i) /\ procs[i].pid = q
  PROVE  Totals'[q] = Totals[q]
  BY DEF TotalFacts

(* A total stays or is removed as a whole when no slot begins to count. *)
LEMMA TotalRemoved ==
  ASSUME TotalFacts, TotalFacts', NEW q \in Procs,
         \A j \in Slots : Counts(j)' /\ procs'[j].pid = q =>
           \E i \in Slots : Counts(i) /\ procs[i].pid = q /\ procs'[j].used = procs[i].used
  PROVE  Totals'[q] \in {Totals[q], 0}
  BY DEF TotalFacts

(* Steps that leave all that the registry shows as it is. *)
Quiet ==
  /\ \A i \in Slots : /\ Counts(i)' <=> Counts(i)
                      /\ procs'[i].pid = procs[i].pid
                      /\ procs'[i].used = procs[i].used
  /\ \A q \in Procs : Seated(q)' <=> Seated(q)

(* The seated processes are the live ones of the registry. *)
LEMMA JoinedIs == Joined = {q \in Procs : Seated(q)}
  BY DEF Joined, Seated

(* Such a step is a stuttering step of the registry, or one that clears      *)
(* nothing.                                                                  *)
LEMMA QuietClears ==
  ASSUME TotalFacts, TotalFacts', Quiet
  PROVE  Registry!Clear
<1>1. \A q \in Procs : Totals'[q] = Totals[q]
  BY TotalKept DEF Quiet
<1>2. Joined' = Joined
  BY DEF Quiet, Joined, Seated
<1> QED
  BY <1>1, <1>2, JoinedIs DEF Registry!Clear

(* Removing totals of processes that have no seat. *)
LEMMA UnseatedClears ==
  ASSUME \A q \in Procs : Seated(q)' <=> Seated(q),
         \A q \in Procs : Seated(q) => Totals'[q] = Totals[q],
         \A q \in Procs : Totals'[q] \in {Totals[q], 0}
  PROVE  Registry!Clear
<1>1. Joined' = Joined
  BY DEF Joined, Seated
<1> QED
  BY <1>1, JoinedIs DEF Registry!Clear

(* Every step of the table, as long as nothing foul happens, is one of the   *)
(* registry.                                                                 *)
LEMMA RegistryStep ==
  ASSUME TableInv, Pointers, Aims, TableInv', foul' = {}, Next
  PROVE  Registry!Step
<1> USE SlotsAssumption DEF SlotsAssumption
<1>t. SlotTypes /\ Exclusive /\ Unborn /\ Updates /\ Places /\ Seats
  BY DEF TableInv
<1>u. /\ procs \in [Slots -> Slot] /\ procNum \in 0..MaxSlots /\ up \in [Procs -> BOOLEAN]
      /\ ph \in [Procs -> Phases] /\ mySlot \in [Procs -> Slots \cup {NoSlot}]
      /\ walk \in [Procs -> Walk] /\ found \in [Procs -> Slots]
      /\ wr \in [Procs -> {"no", "add", "rm", "end"}]
      /\ \A q \in Procs : walk[q].at \in 0..MaxSlots
  BY <1>t DEF SlotTypes, Walk
<1>v. \A j \in Slots : j \in Int
  BY DEF Slots
<1>q. \A q \in Procs : OwnPointer(q)
  BY DEF Pointers
<1>w. \A q \in Procs : Copying(q) => Walking(q)
  BY DEF Copying, Walking
<1>p. ASSUME NEW p \in Procs, Walking(p)
      PROVE  \A q \in Procs : q # p => ~Copying(q)
  BY <1>p, <1>t, <1>w DEF Exclusive
<1>r. ASSUME NEW p \in Procs, ph[p] \in {"find", "publish"}
      PROVE  \A q \in Procs : ~Copying(q)
  BY <1>r, <1>t, <1>w DEF Exclusive
<1>a. TotalFacts
  BY TotalIs
<1>b. TotalFacts'
  BY TotalIs, PTL
<1>c. Quiet => Registry!Step
  BY <1>a, <1>b, QuietClears DEF Registry!Step
<1>1. ASSUME NEW p \in Procs, init_lock(p) PROVE Registry!Step
  <2>1. \A i \in Slots : Counts(i)' <=> Counts(i)
    BY <1>1, <1>u, CountsKept DEF Copying, init_lock, Advance
  <2>2. Quiet
    BY <1>1, <1>u, <2>1 DEF Quiet, Seated, init_lock, Advance
  <2> QED
    BY <2>2, <1>c
<1>2. ASSUME NEW p \in Procs, init_full(p) PROVE Registry!Step
  <2> DEFINE own == SlotsOf(p, MaxSlots)
  <2>1. \A i \in Slots : Counts(i)' <=> Counts(i)
    BY <1>2, CountsKept DEF Copying, init_full
  <2>2. \A j \in Slots : \/ procs'[j] = procs[j]
                         \/ procs'[j].pid = NoPid /\ procs[j].pid = p
    <3>1. CASE own = {}
      BY <1>2, <3>1 DEF init_full
    <3>2. CASE own # {}
      <4>1. procs[First(own)].pid = p
        BY <3>2, FirstOwn DEF SlotsOf
      <4>2. procs' = [procs EXCEPT ![First(own)].pid = NoPid]
        BY <1>2, <3>2 DEF init_full
      <4> DEFINE f == First(own)
      <4> HIDE DEF own, f
      <4>3. \A j \in Slots : /\ procs'[j].pid = IF j = f THEN NoPid ELSE procs[j].pid
                             /\ j # f => procs'[j] = procs[j]
        BY <1>u, <4>2, PidWritten DEF f
      <4> QED
        BY <4>1, <4>3 DEF f
    <3> QED
      BY <3>1, <3>2
  <2> HIDE DEF own
  <2>3. \A q \in Procs : (Seated(q)' <=> Seated(q)) /\ ~Seated(p)
    BY <1>2, <1>u DEF init_full, Seated
  <2>4. \A q \in Procs : Totals'[q] \in {Totals[q], 0}
    BY <1>a, <1>b, <2>1, <2>2, TotalRemoved
  <2>5. \A q \in Procs : Seated(q) => Totals'[q] = Totals[q]
    BY <1>a, <1>b, <2>1, <2>2, <2>3, TotalKept
  <2> QED
    BY <2>3, <2>4, <2>5, UnseatedClears DEF Registry!Step
<1>3. ASSUME NEW p \in Procs, init_reuse(p) PROVE Registry!Step
  <2>1. PICK f \in Slots : f = First(SlotsOf(p, procNum)) /\ f < procNum /\ procs[f].pid = p
    BY <1>3, FirstOwn DEF init_reuse, SlotsOf
  <2>2. FreshSlot(p) \in Slot
    BY Zenon DEF FreshSlot, Slot
  <2>3. \A j \in Slots : procs'[j] = IF j = f THEN FreshSlot(p) ELSE procs[j]
    BY <1>3, <1>u, <2>1, <2>2, SlotWritten DEF init_reuse
  <2>4. \A q \in Procs : ~Copying(q) /\ ~Copying(q)'
    BY <1>3, <1>u, <1>r DEF init_reuse, Advance, Copying, NoWalk
  <2>5. \A j \in Slots : Counts(j) <=> j < procNum
    BY <2>4 DEF Counts
  <2>6. \A j \in Slots : Counts(j)' <=> j < procNum
    BY <1>3, <2>4 DEF Counts, init_reuse
  <2>7. /\ p \notin Joined /\ Joined' = Joined \cup {p}
    BY <1>3, <1>u DEF init_reuse, Advance, Joined
  <2>8. procs'[f].pid = p /\ procs'[f].used = 0
    BY <2>3, FreshFields, Zenon
  <2>9. Totals'[p] = 0
    BY <1>b, <2>1, <2>6, <2>8 DEF TotalFacts
  <2>10. \A q \in Procs \ {p} : Totals'[q] = Totals[q]
    BY <1>a, <1>b, <2>1, <2>3, <2>5, <2>6, <2>8, TotalKept
  <2> QED
    BY <2>7, <2>9, <2>10 DEF Registry!Step, Registry!Join, Registry!Others
<1>4. ASSUME NEW p \in Procs, init_append(p) PROVE Registry!Step
  <2>2. FreshSlot(p) \in Slot
    BY Zenon DEF FreshSlot, Slot
  <2>3. \A j \in Slots : procs'[j] = IF j = procNum THEN FreshSlot(p) ELSE procs[j]
    BY <1>4, <1>u, <2>2, SlotWritten DEF init_append
  <2>4. \A q \in Procs : ~Copying(q) /\ ~Copying(q)'
    BY <1>4, <1>r DEF init_append, Advance, Copying
  <2>5. \A j \in Slots : Counts(j) <=> j < procNum
    BY <2>4 DEF Counts
  <2>6. \A j \in Slots : Counts(j)' <=> j < procNum
    BY <1>4, <2>4 DEF Counts, init_append
  <2>7. \A q \in Procs : Seated(q)' <=> Seated(q)
    BY <1>4, <1>u DEF init_append, Advance, Seated
  <2>8. \A q \in Procs : Totals'[q] = Totals[q]
    <3>1. \A i \in Slots : Counts(i) => i # procNum
      BY <1>u, <1>v, <2>5
    <3>2. \A i \in Slots : (Counts(i)' <=> Counts(i)) /\ (Counts(i) => procs'[i] = procs[i])
      BY <2>3, <2>5, <2>6, <3>1
    <3> QED
      BY <1>a, <1>b, <3>2, TotalKept
  <2> QED
    BY <2>7, <2>8, UnseatedClears DEF Registry!Step
<1>5. ASSUME NEW p \in Procs, init_publish(p) PROVE Registry!Step
  <2>1. procNum \in Slots /\ procs' = procs /\ procNum' = procNum + 1
    BY <1>5, <1>t DEF init_publish, Advance, Places
  <2>2. procs[procNum] = FreshSlot(p)
    BY <1>5, <1>q DEF init_publish, Advance, OwnPointer
  <2>3. procs[procNum].pid = p /\ procs[procNum].used = 0
    BY <2>2, FreshFields, Zenon
  <2>4. \A q \in Procs : ~Copying(q) /\ ~Copying(q)'
    BY <1>5, <1>u, <1>r DEF init_publish, Advance, Copying, NoWalk
  <2>5. \A j \in Slots : Counts(j) <=> j < procNum
    BY <2>4 DEF Counts
  <2>6. \A j \in Slots : Counts(j)' <=> j < procNum \/ j = procNum
    BY <1>v, <2>1, <2>4 DEF Counts
  <2>7. /\ p \notin Joined /\ Joined' = Joined \cup {p}
    BY <1>5, <1>t, <1>u DEF init_publish, Advance, Joined, Unborn
  <2>9. Totals'[p] = 0
    BY <1>b, <2>1, <2>3, <2>6 DEF TotalFacts
  <2>10. \A q \in Procs \ {p} : Totals'[q] = Totals[q]
    BY <1>a, <1>b, <2>1, <2>3, <2>5, <2>6, TotalKept
  <2> QED
    BY <2>7, <2>9, <2>10 DEF Registry!Step, Registry!Join, Registry!Others
<1>6. ASSUME NEW p \in Procs, init_unlock(p) PROVE Registry!Step
  <2>1. \A i \in Slots : Counts(i)' <=> Counts(i)
    BY <1>6, <1>u, CountsKept DEF Copying, init_unlock, Advance
  <2>2. Quiet
    BY <1>6, <1>u, <2>1 DEF Quiet, Seated, init_unlock, Advance
  <2> QED
    BY <2>2, <1>c
<1>7. ASSUME NEW p \in Procs, oom_clear(p) PROVE Registry!Step
  <2>1. \A i \in Slots : Counts(i)' <=> Counts(i)
    BY <1>7, <1>u, CountsKept DEF Copying, NoWalk, oom_clear, Walking
  <2>2. Quiet
    BY <1>7, <1>u, <2>1 DEF Quiet, Seated, oom_clear
  <2> QED
    BY <2>2, <1>c
<1>8. ASSUME NEW p \in Procs, walk_remove(p) PROVE Registry!Step
  <2> DEFINE i == walk[p].at
  <2>1. /\ Walking(p) /\ ~Copying(p) /\ i \in Slots /\ i < procNum
        /\ procs' = procs /\ procNum' = procNum - 1
    BY <1>8, <1>u DEF walk_remove, Walking, Copying, Slots
  <2>2. \A q \in Procs : ~Copying(q)
    BY <1>p, <2>1
  <2>3. Copying(p)' /\ walk'[p].at = i /\ \A q \in Procs : Copying(q)' => q = p
    BY <1>8, <1>u, <2>2 DEF walk_remove, Copying
  <2>4. \A q \in Procs : procs[i].pid = q => ~Seated(q)
    BY <1>8 DEF walk_remove, Marked, Kickable, Seated
  <2>5. \A j \in Slots : Counts(j) <=> j < procNum
    BY <2>2 DEF Counts
  <2> HIDE DEF i
  <2>6. \A j \in Slots : Counts(j)' <=> j < procNum /\ (j = procNum - 1 \/ j # i)
    BY <1>u, <1>v, <2>1, <2>3 DEF Counts
  <2>7. \A q \in Procs : Seated(q)' <=> Seated(q)
    BY <1>8 DEF walk_remove, Seated
  <2>8. \A q \in Procs : Totals'[q] \in {Totals[q], 0}
    BY <1>a, <1>b, <2>1, <2>5, <2>6, TotalRemoved
  <2>9. \A q \in Procs : Seated(q) => Totals'[q] = Totals[q]
    BY <1>a, <1>b, <2>1, <2>4, <2>5, <2>6, TotalKept
  <2> QED
    BY <2>7, <2>8, <2>9, UnseatedClears DEF Registry!Step
<1>9. ASSUME NEW p \in Procs, walk_keep(p) PROVE Registry!Step
  <2>1. \A i \in Slots : Counts(i)' <=> Counts(i)
    BY <1>9, <1>u, CountsKept DEF Copying, walk_keep
  <2>2. Quiet
    BY <1>9, <1>u, <2>1 DEF Quiet, Seated, walk_keep
  <2> QED
    BY <2>2, <1>c
<1>10. ASSUME NEW p \in Procs, walk_end(p) PROVE Registry!Step
  <2>1. \A i \in Slots : Counts(i)' <=> Counts(i)
    BY <1>10, <1>u, CountsKept DEF Copying, NoWalk, walk_end
  <2>2. Quiet
    BY <1>10, <1>u, <2>1 DEF Quiet, Seated, walk_end
  <2> QED
    BY <2>2, <1>c
<1>11. ASSUME NEW p \in Procs, walk_copy(p) PROVE Registry!Step
  <2> DEFINE i == walk[p].at
  <2>1. /\ Walking(p) /\ Copying(p) /\ procNum \in Slots /\ procNum' = procNum
        /\ i \in Slots /\ i <= procNum
        /\ \A q \in Procs : procs[i].pid = q => ~Seated(q)
    <3>1. Walking(p) /\ Copying(p) /\ procNum' = procNum /\ procNum \in Slots
      BY <1>11 DEF walk_copy, Walking, Copying
    <3>2. i <= procNum /\ \A q \in Procs : procs[i].pid = q => ~Seated(q)
      BY <1>t, <3>1 DEF Places
    <3> QED
      BY <1>u, <3>1, <3>2 DEF Slots
  <2>2. \A q \in Procs : ~Copying(q)'
    BY <1>11, <1>u, <1>p, <2>1 DEF walk_copy, Copying
  <2>3. \A j \in Slots : j < procNum => procs'[j] = IF j = i THEN procs[procNum] ELSE procs[j]
    BY <1>11, <1>u, CopyWritten DEF Slots
  <2>5. \A j \in Slots : Counts(j) <=> j = procNum \/ (j < procNum /\ j # i)
    BY <1>p, <1>v, <2>1 DEF Counts
  <2>6. \A j \in Slots : Counts(j)' <=> j < procNum
    BY <2>1, <2>2 DEF Counts
  <2>7. \A q \in Procs : Seated(q)' <=> Seated(q)
    BY <1>11 DEF walk_copy, Seated
  <2> HIDE DEF i
  <2>8. \A q \in Procs : Totals'[q] \in {Totals[q], 0}
    <3>1. ASSUME NEW q \in Procs, NEW j \in Slots, Counts(j)', procs'[j].pid = q
          PROVE  \E k \in Slots : Counts(k) /\ procs[k].pid = q /\ procs'[j].used = procs[k].used
      <4>1. CASE j = i
        BY <2>1, <2>3, <2>5, <2>6, <3>1, <4>1
      <4>2. CASE j # i
        BY <2>3, <2>5, <2>6, <3>1, <4>2
      <4> QED
        BY <4>1, <4>2
    <3> QED
      BY <1>a, <1>b, <3>1, TotalRemoved
  <2>9. ASSUME NEW q \in Procs, Seated(q) PROVE Totals'[q] = Totals[q]
    <3>1. PICK k \in Slots : Counts(k) /\ procs[k].pid = q
      BY <1>t, <2>9 DEF Seats
    <3>2. Totals[q] = procs[k].used
      BY <1>a, <3>1 DEF TotalFacts
    <3>3. CASE k = procNum
      <4>1. i < procNum
        BY <1>v, <2>1, <2>9, <3>1, <3>3
      <4> PICK g \in Slots : g = i
        BY <2>1
      <4>2. procs'[g] = procs[k] /\ Counts(g)'
        BY <2>1, <2>3, <2>6, <3>3, <4>1
      <4> QED
        BY <1>b, <3>1, <3>2, <4>2 DEF TotalFacts
    <3>4. CASE k # procNum
      <4>1. procs'[k] = procs[k] /\ Counts(k)'
        BY <2>3, <2>5, <2>6, <3>1, <3>4
      <4> QED
        BY <1>b, <3>1, <3>2, <4>1 DEF TotalFacts
    <3> QED
      BY <3>3, <3>4
  <2> QED
    BY <2>7, <2>8, <2>9, UnseatedClears DEF Registry!Step
<1>12. ASSUME NEW p \in Procs, NEW d \in {"add", "rm"}, usage_begin(p, d) PROVE Registry!Step
  <2>1. \A i \in Slots : Counts(i)' <=> Counts(i)
    BY <1>12, CountsKept DEF Copying, usage_begin
  <2>2. \A i \in Slots : procs'[i].pid = procs[i].pid /\ procs'[i].used = procs[i].used
    BY <1>12, <1>u, OddWritten DEF usage_begin
  <2>3. Quiet
    BY <1>12, <2>1, <2>2 DEF Quiet, Seated, usage_begin
  <2> QED
    BY <2>3, <1>c
<1>13. ASSUME NEW p \in Procs, usage_total(p) PROVE Registry!Step
  <2>1. \A i \in Slots : Counts(i)' <=> Counts(i)
    BY <1>13, CountsKept DEF Copying, usage_total
  <2>2. Seated(p)
    BY <1>13, <1>t, <1>u DEF usage_total, Seated, Unborn, Phases
  <2>3. \E i \in Slots : mySlot[p] = i /\ procs[i].pid = p
    BY <1>q, <2>2, Zenon DEF OwnPointer
  <2>4. PICK d \in {1, -1} : procs' = [procs EXCEPT ![mySlot[p]].used = (@ + d) % Word]
    <3>1. target[p] = mySlot[p]
      BY <1>13 DEF usage_total, Aims
    <3> QED
      BY <1>13, <3>1 DEF usage_total
  <2>5. \A j \in Slots : /\ procs'[j].pid = procs[j].pid
                         /\ j # mySlot[p] => procs'[j].used = procs[j].used
    BY <1>u, <2>4, UsedWritten
  <2>6. Joined' = Joined /\ p \in Joined
    BY <1>13, <2>2 DEF usage_total, Joined, Seated
  <2>7. \A q \in Procs \ {p} : Totals'[q] = Totals[q]
    BY <1>a, <1>b, <2>1, <2>3, <2>5, TotalKept
  <2> QED
    BY <2>6, <2>7 DEF Registry!Step, Registry!Account, Registry!Others
<1>14. ASSUME NEW p \in Procs, usage_end(p) PROVE Registry!Step
  <2>1. \A i \in Slots : Counts(i)' <=> Counts(i)
    BY <1>14, CountsKept DEF Copying, usage_end
  <2>2. \A i \in Slots : procs'[i].pid = procs[i].pid /\ procs'[i].used = procs[i].used
    BY <1>14, <1>u, OddWritten DEF usage_end
  <2>3. Quiet
    BY <1>14, <2>1, <2>2 DEF Quiet, Seated, usage_end
  <2> QED
    BY <2>3, <1>c
<1>15. ASSUME NEW p \in Procs, exit_scan(p) PROVE Registry!Step
  <2>1. \A i \in Slots : Counts(i)' <=> Counts(i)
    BY <1>15, CountsKept DEF Copying, exit_scan, Advance
  <2>2. SlotsOf(p, MaxSlots) # {}
    <3>1. Seated(p)
      BY <1>15 DEF exit_scan, Advance, Seated
    <3>2. \A i \in Slots : i < MaxSlots
      BY DEF Slots
    <3> QED
      BY <1>t, <3>1, <3>2 DEF Seats, SlotsOf
  <2>3. ph[p] = "run" /\ ph' = [ph EXCEPT ![p] = "mark"]
    BY <1>15, <2>2 DEF exit_scan, Advance
  <2>4. Quiet
    BY <1>15, <1>u, <2>1, <2>3 DEF Quiet, Seated, exit_scan
  <2> QED
    BY <2>4, <1>c
<1>16. ASSUME NEW p \in Procs, exit_mark(p) PROVE Registry!Step
  <2>1. \A i \in Slots : Counts(i)' <=> Counts(i)
    BY <1>16, CountsKept DEF Copying, exit_mark, Advance
  <2>2. procs[found[p]].pid = p
    BY <1>16 DEF exit_mark
  <2>3. \A j \in Slots : /\ procs'[j].pid = IF j = found[p] THEN NoPid ELSE procs[j].pid
                         /\ j # found[p] => procs'[j] = procs[j]
    BY <1>16, <1>u, PidWritten DEF exit_mark
  <2>4. p \in Joined /\ Joined' = Joined \ {p}
    BY <1>16, <1>u DEF exit_mark, Advance, Joined
  <2>5. Totals'[p] \in {Totals[p], 0}
    BY <1>a, <1>b, <2>1, <2>3, TotalRemoved
  <2>6. \A q \in Procs \ {p} : Totals'[q] = Totals[q]
    BY <1>a, <1>b, <2>1, <2>2, <2>3, TotalKept
  <2> QED
    BY <2>4, <2>5, <2>6 DEF Registry!Step, Registry!Leave, Registry!Others
<1>17. ASSUME NEW p \in Procs, Vanish(p) PROVE Registry!Step
  <2>1. \A i \in Slots : Counts(i)' <=> Counts(i)
    BY <1>17, <1>u, CountsKept DEF Copying, NoWalk, Vanish
  <2>2. procs' = procs /\ Joined' = Joined \ {p}
    BY <1>17, <1>u DEF Vanish, Joined
  <2>3. \A q \in Procs : Totals'[q] = Totals[q]
    BY <1>a, <1>b, <2>1, <2>2, TotalKept
  <2>4. CASE p \in Joined
    BY <2>2, <2>3, <2>4 DEF Registry!Step, Registry!Leave, Registry!Others
  <2>5. CASE p \notin Joined
    BY <2>2, <2>3, <2>5, JoinedIs DEF Registry!Step, Registry!Clear
  <2> QED
    BY <2>4, <2>5
<1>18. ASSUME NEW p \in Procs, restart(p) PROVE Registry!Step
  <2>1. \A i \in Slots : Counts(i)' <=> Counts(i)
    BY <1>18, CountsKept DEF Copying, restart
  <2>2. Quiet
    BY <1>18, <1>t, <1>u, <2>1 DEF Quiet, Seated, restart, Unborn
  <2> QED
    BY <2>2, <1>c
<1> QED
  BY <1>1, <1>2, <1>3, <1>4, <1>5, <1>6, <1>7, <1>8, <1>9, <1>10, <1>11,
     <1>12, <1>13, <1>14, <1>15, <1>16, <1>17, <1>18
  DEF Next, init_proc_slot_withlock, clear_proc_slot_nolock, gpu_device_memory_usage,
      exit_handler, exited, kill

(* The table of process slots, with its moving slots, its cached pointers    *)
(* and its removals, keeps one total per live process that no other process  *)
(* changes, as the sums of the usage take for granted, until a foul event.   *)
THEOREM TableIsRegistry == Spec => ImplementsRegistry
<1>1. Init => Registry!Init
  <2> SUFFICES ASSUME Init PROVE Registry!Init
    OBVIOUS
  <2>1. Joined = {} /\ foul = {}
    BY DEF Init, Joined
  <2>2. TotalFacts
    BY SlotsInit, TotalIs DEF SlotsInv, Intact, Init
  <2>3. \A i \in Slots : ~Counts(i)
    BY SlotsAssumption DEF SlotsAssumption, Init, Counts, Copying, NoWalk, Slots
  <2>4. Totals = [p \in Procs |-> 0]
    <3>1. \A p \in Procs : Totals[p] = 0
      BY <2>2, <2>3 DEF TotalFacts
    <3> QED
      BY <3>1, Zenon DEF Totals
  <2> QED
    BY <2>1, <2>4 DEF Registry!Init
<1>2. ASSUME SlotsInv, SlotsInv', [Next]_vars PROVE [Registry!Next]_(Registry!vars)
  <2>1. CASE UNCHANGED vars
    BY <2>1 DEF vars, Registry!vars, Joined, Totals, Counted
  <2>2. CASE Next
    <3>1. ASSUME foul' = {} PROVE foul = {} /\ Registry!Step
      <4>1. foul = {}
        BY <1>2, <3>1, FoulGrows
      <4>2. TableInv /\ Pointers /\ Aims /\ TableInv'
        BY <1>2, <3>1, <4>1 DEF SlotsInv, Intact
      <4> QED
        BY <2>2, <3>1, <4>1, <4>2, RegistryStep
    <3> QED
      BY <3>1 DEF Registry!Next
  <2> QED
    BY <1>2, <2>1, <2>2
<1> QED
  BY <1>1, <1>2, SlotsInvariant, PTL DEF Spec, ImplementsRegistry, Registry!Spec

==============================================================================
