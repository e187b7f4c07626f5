---------------------------- MODULE SymbolsProofs ----------------------------
(***************************************************************************)
(* Proofs about module Symbols: the ring dlmap, for any threads, symbols   *)
(* and size of the ring; then the lookups, for any drivers, whatever they  *)
(* lack, and any versions.                                                 *)
(***************************************************************************)
EXTENDS Symbols, SumProofs

-----------------------------------------------------------------------------
(* The inductive invariant *)

Pointers == {Null} \cup {Driver(n) : n \in NextSymbols}
Recorded == Threads \X Pointers

RingTypes ==
    /\ asked \in Seq(Recorded)
    /\ dlmap_count = Len(asked)
    /\ DOMAIN dlmap = 0 .. (DLMAP_SIZE - 1)

(* The lookup recorded as the i-th is in its place until the ring has gone   *)
(* round to it.                                                              *)
RingHolds ==
    \A i \in 1 .. Len(asked) :
        i > Len(asked) - DLMAP_SIZE => dlmap[(i - 1) % DLMAP_SIZE] = asked[i]

RingInv == RingTypes /\ RingHolds

-----------------------------------------------------------------------------
(* Places in the ring *)

(* Numbers less than a round apart have different places. *)
LEMMA PlacesDiffer ==
  ASSUME NEW S \in Nat \ {0}, NEW a \in Int, NEW b \in Int, a < b, b - a < S
  PROVE  a % S # b % S
<1> DEFINE q == a \div S
           k == b \div S
<1>1. a % S \in 0 .. S - 1 /\ q \in Int /\ a = S * q + (a % S)
  BY RemIs
<1>2. b % S \in 0 .. S - 1 /\ k \in Int /\ b = S * k + (b % S)
  BY RemIs
<1> HIDE DEF q, k
<1> SUFFICES ASSUME a % S = b % S PROVE FALSE
  OBVIOUS
<1>3. PICK r : r = a % S
  OBVIOUS
<1>4. r \in Int /\ a = S * q + r /\ b = S * k + r
  BY <1>1, <1>2, <1>3
<1> DEFINE e == k - q
<1>5. e \in Int /\ S * e = S * k - S * q /\ S * k \in Int /\ S * q \in Int
  BY <1>1, <1>2
<1>6. b - a = S * e
  BY <1>4, <1>5
<1> HIDE DEF e
<1>7. CASE e <= 0
  <2>1. S * e <= 0
    BY <1>5, <1>7
  <2> QED
    BY <1>6, <2>1
<1>8. CASE e >= 1
  <2>1. S * e >= S
    BY <1>5, <1>8
  <2> QED
    BY <1>6, <2>1
<1> QED
  BY <1>5, <1>7, <1>8

(* Every place of the ring that check_dlmap looks at is that of one of the   *)
(* last lookups, and each of these has such a place.                         *)
LEMMA PlacesAreWindow ==
  ASSUME NEW S \in Nat \ {0}, NEW n \in Nat, NEW cursor,
         cursor = IF n < S THEN n ELSE S
  PROVE  /\ \A k \in 0 .. (cursor - 1) : \E i \in 1 .. n : i > n - S /\ (i - 1) % S = k
         /\ \A i \in 1 .. n : i > n - S => (i - 1) % S \in 0 .. (cursor - 1)
<1>1. CASE n < S
  <2>1. \A i \in 1 .. n : (i - 1) % S = i - 1
    <3> TAKE i \in 1 .. n
    <3>1. PICK x : x = i - 1
      OBVIOUS
    <3>2. x \in 0 .. S - 1
      BY <1>1, <3>1
    <3>3. x % S = x
      BY <3>2, SmallMod
    <3> QED
      BY <3>1, <3>3
  <2>2. ASSUME NEW k \in 0 .. (cursor - 1)
        PROVE  \E i \in 1 .. n : i > n - S /\ (i - 1) % S = k
    <3>1. k + 1 \in 1 .. n /\ k + 1 > n - S /\ (k + 1) - 1 = k
      BY <1>1
    <3>2. ((k + 1) - 1) % S = (k + 1) - 1
      BY <2>1, <3>1
    <3> QED
      BY <3>1, <3>2
  <2>3. \A i \in 1 .. n : i - 1 \in 0 .. (cursor - 1)
    BY <1>1
  <2> QED
    BY <2>1, <2>2, <2>3
<1>2. CASE n >= S
  <2>0. cursor = S
    BY <1>2
  <2>1. ASSUME NEW k \in 0 .. (S - 1)
        PROVE  \E i \in 1 .. n : i > n - S /\ (i - 1) % S = k
    <3>1. PICK x \in Int : x = n - 1 - k
      OBVIOUS
    <3> DEFINE r == x % S
               q == x \div S
    <3>2. r \in 0 .. S - 1 /\ q \in Int /\ x = S * q + r
      BY RemIs
    <3> HIDE DEF r, q
    <3>3. S * q \in Int
      BY <3>2
    <3>4. n - r \in 1 .. n /\ n - r > n - S /\ (n - r) - 1 = S * q + k
      BY <1>2, <3>1, <3>2, <3>3
    <3>5. PICK y \in Int : y = (n - r) - 1
      BY <3>2
    <3>6. y % S \in 0 .. S - 1 /\ y \div S \in Int /\ y = S * (y \div S) + (y % S)
      BY <3>5, RemIs
    <3>7. PICK z : z = y \div S
      OBVIOUS
    <3>8. PICK s : s = y % S
      OBVIOUS
    <3>9. z \in Int /\ s \in 0 .. S - 1 /\ S * q + k = S * z + s
      BY <3>4, <3>5, <3>6, <3>7, <3>8
    <3>10. k = s
      BY <3>2, <3>9, RemUnique
    <3> QED
      BY <3>4, <3>5, <3>8, <3>10
  <2>2. ASSUME NEW i \in 1 .. n PROVE (i - 1) % S \in 0 .. (S - 1)
    <3>1. PICK x \in Int : x = i - 1
      OBVIOUS
    <3> QED
      BY <3>1, RemIs
  <2> QED
    BY <2>0, <2>1, <2>2
<1> QED
  BY <1>1, <1>2

(* check_dlmap finds exactly the lookups that the ring must remember. *)
LEMMA CheckIsWindow ==
  ASSUME RingInv, NEW t, NEW p
  PROVE  check_dlmap(t, p) <=> <<t, p>> \in Window(asked)
<1> DEFINE S == DLMAP_SIZE
           n == Len(asked)
           cursor == IF n < S THEN n ELSE S
           c == <<t, p>>
<1>1. S \in Nat \ {0} /\ n \in Nat /\ DOMAIN asked = 1 .. n /\ dlmap_count = n
  BY SymbolsAssumption DEF SymbolsAssumption, RingInv, RingTypes
<1>2. check_dlmap(t, p) <=> \E k \in 0 .. (cursor - 1) : dlmap[k] = c
  BY <1>1 DEF check_dlmap
<1>3. c \in Window(asked) <=> \E i \in 1 .. n : i > n - S /\ asked[i] = c
  BY <1>1 DEF Window
<1>4. \A i \in 1 .. n : i > n - S => dlmap[(i - 1) % S] = asked[i]
  BY DEF RingInv, RingHolds
<1> HIDE DEF S, n, c
<1>5. /\ \A k \in 0 .. (cursor - 1) : \E i \in 1 .. n : i > n - S /\ (i - 1) % S = k
      /\ \A i \in 1 .. n : i > n - S => (i - 1) % S \in 0 .. (cursor - 1)
  <2>1. PICK x : x = n
    OBVIOUS
  <2>2. PICK y : y = cursor
    OBVIOUS
  <2> HIDE DEF cursor
  <2>3. x \in Nat /\ y = IF x < S THEN x ELSE S
    BY <1>1, <2>1, <2>2 DEF cursor
  <2>4. /\ \A k \in 0 .. (y - 1) : \E i \in 1 .. x : i > x - S /\ (i - 1) % S = k
        /\ \A i \in 1 .. x : i > x - S => (i - 1) % S \in 0 .. (y - 1)
    BY <1>1, <2>3, PlacesAreWindow
  <2> QED
    BY <2>1, <2>2, <2>4
<1> HIDE DEF cursor
<1>6. ASSUME NEW k \in 0 .. (cursor - 1), dlmap[k] = c
      PROVE  \E i \in 1 .. n : i > n - S /\ asked[i] = c
  <2>1. PICK i \in 1 .. n : i > n - S /\ (i - 1) % S = k
    BY <1>5
  <2>2. dlmap[(i - 1) % S] = asked[i]
    BY <1>4, <2>1
  <2> QED
    BY <1>6, <2>1, <2>2
<1>7. ASSUME NEW i \in 1 .. n, i > n - S, asked[i] = c
      PROVE  \E k \in 0 .. (cursor - 1) : dlmap[k] = c
  BY <1>4, <1>5, <1>7
<1> QED
  BY <1>2, <1>3, <1>6, <1>7 DEF c

-----------------------------------------------------------------------------
(* Steps *)

(* The ring is empty at first. *)
LEMMA RingInit == Init => RingInv
BY DEF Init, RingInv, RingTypes, RingHolds

(* A lookup is recorded over the oldest one. *)
LEMMA RingRecords ==
  ASSUME RingInv, NEW t \in Threads, NEW n \in NextSymbols, dlsym_next(t, n)
  PROVE  RingInv'
<1> DEFINE c == <<t, next_dlsym(n)>>
<1>1. /\ dlmap' = [dlmap EXCEPT ![dlmap_count % DLMAP_SIZE] = c]
      /\ dlmap_count' = dlmap_count + 1 /\ asked' = Append(asked, c)
  BY DEF dlsym_next
<1>2. c \in Recorded
  BY DEF Recorded, Pointers, next_dlsym, real_dlsym
<1>3. /\ DLMAP_SIZE \in Nat \ {0} /\ asked \in Seq(Recorded) /\ dlmap_count = Len(asked)
      /\ DOMAIN dlmap = 0 .. (DLMAP_SIZE - 1)
  BY SymbolsAssumption DEF SymbolsAssumption, RingInv, RingTypes
<1> HIDE DEF c
<1>4. PICK m \in Nat : m = Len(asked)
  BY <1>3
<1>5. m % DLMAP_SIZE \in 0 .. (DLMAP_SIZE - 1)
  BY <1>3, RemIs
<1>6. /\ asked' \in Seq(Recorded) /\ Len(asked') = m + 1 /\ asked'[m + 1] = c
      /\ \A i \in 1 .. m : asked'[i] = asked[i]
  BY <1>1, <1>2, <1>3, <1>4
<1>7. RingTypes'
  BY <1>1, <1>3, <1>4, <1>6 DEF RingTypes
<1>8. ASSUME NEW i \in 1 .. (m + 1), i > (m + 1) - DLMAP_SIZE
      PROVE  dlmap'[(i - 1) % DLMAP_SIZE] = asked'[i]
  <2>1. CASE i = m + 1
    <3>1. i - 1 = m
      BY <2>1
    <3>2. dlmap'[m % DLMAP_SIZE] = c
      BY <1>1, <1>3, <1>4, <1>5
    <3> QED
      BY <1>6, <2>1, <3>1, <3>2
  <2>2. CASE i # m + 1
    <3>1. i \in 1 .. m /\ i > m - DLMAP_SIZE
      BY <1>3, <1>8, <2>2
    <3>2. dlmap[(i - 1) % DLMAP_SIZE] = asked[i]
      BY <1>4, <3>1 DEF RingInv, RingHolds
    <3>3. PICK x \in Int : x = i - 1
      OBVIOUS
    <3>4. x % DLMAP_SIZE # m % DLMAP_SIZE /\ x % DLMAP_SIZE \in 0 .. (DLMAP_SIZE - 1)
      <4>1. x < m /\ m - x < DLMAP_SIZE /\ m \in Int
        BY <1>3, <1>8, <3>1, <3>3
      <4> QED
        BY <1>3, <4>1, PlacesDiffer, RemIs
    <3>5. dlmap'[x % DLMAP_SIZE] = dlmap[x % DLMAP_SIZE]
      BY <1>1, <1>3, <1>4, <3>4
    <3> QED
      BY <1>6, <3>1, <3>2, <3>3, <3>5
  <2> QED
    BY <2>1, <2>2
<1>9. RingHolds'
  BY <1>6, <1>8 DEF RingHolds
<1> QED
  BY <1>7, <1>9 DEF RingInv

(* The other steps leave the ring alone. *)
LEMMA RingStep == RingInv /\ [Next]_vars => RingInv'
<1> SUFFICES ASSUME RingInv, [Next]_vars PROVE RingInv'
  OBVIOUS
<1>1. CASE UNCHANGED <<dlmap, dlmap_count, asked>>
  BY <1>1 DEF RingInv, RingTypes, RingHolds
<1>2. \/ UNCHANGED <<dlmap, dlmap_count, asked>>
      \/ \E t \in Threads, n \in NextSymbols : dlsym_next(t, n)
  BY Zenon DEF Next, vars, ringVars, api_call, watcher_start, nvml_call, fork, once_begin, once_passed, once_end,
     dlsym_next_repeated, lookup
<1> QED
  BY <1>1, <1>2, RingRecords

(* check_dlmap catches a recursion of dlsym(RTLD_NEXT) that is no longer     *)
(* than the ring, whatever other threads look up in between, and refuses no  *)
(* lookup that the ring does not hold, however often it has gone round.      *)
THEOREM RecursionIsCaught == Spec => RecursionCaught
<1>1. RingInv /\ [Next]_vars =>
        [answer' # answer =>
           LET call == <<answer'[1], answer'[2]>> IN
           IF call \in Window(asked) THEN answer'[3] = Null ELSE answer'[3] = answer'[2]]_vars
  <2> SUFFICES ASSUME RingInv, Next, answer' # answer
               PROVE  IF <<answer'[1], answer'[2]>> \in Window(asked)
                      THEN answer'[3] = Null ELSE answer'[3] = answer'[2]
    OBVIOUS
  <2>1. PICK t \in Threads, n \in NextSymbols : dlsym_next(t, n) \/ dlsym_next_repeated(t, n)
    BY Zenon DEF Next, ringVars, api_call, watcher_start, nvml_call, fork, once_begin, once_passed, once_end, lookup
  <2>2. PICK p : p = next_dlsym(n)
    OBVIOUS
  <2>3. check_dlmap(t, p) <=> <<t, p>> \in Window(asked)
    BY CheckIsWindow
  <2>4. CASE dlsym_next(t, n)
    <3>1. answer' = <<t, p, p>> /\ ~check_dlmap(t, p)
      BY <2>2, <2>4 DEF dlsym_next
    <3> QED
      BY <2>3, <3>1
  <2>5. CASE dlsym_next_repeated(t, n)
    <3>1. answer' = <<t, p, Null>> /\ check_dlmap(t, p)
      BY <2>2, <2>5 DEF dlsym_next_repeated
    <3> QED
      BY <2>3, <3>1
  <2> QED
    BY <2>1, <2>4, <2>5
<1>2. Init => RingInv
  BY RingInit
<1>3. RingInv /\ [Next]_vars => RingInv'
  BY RingStep
<1> QED
  BY <1>1, <1>2, <1>3, PTL DEF Spec, RecursionCaught

-----------------------------------------------------------------------------
(* The tables *)

(* FirstFound is NULL, or the first pointer that is not. *)
LEMMA FirstFoundIs ==
  ASSUME NEW n \in Nat, NEW ptrs, DOMAIN ptrs = 1 .. n
  PROVE  \/ FirstFound(ptrs) = Null /\ \A i \in 1 .. n : ptrs[i] = Null
         \/ \E i \in 1 .. n : /\ FirstFound(ptrs) = ptrs[i] /\ ptrs[i] # Null
                              /\ \A j \in 1 .. n : j < i => ptrs[j] = Null
<1> DEFINE found == {i \in DOMAIN ptrs : ptrs[i] # Null}
<1>1. CASE found = {}
  BY <1>1 DEF FirstFound
<1>2. CASE found # {}
  <2>1. found \subseteq Nat /\ found \subseteq 1 .. n
    OBVIOUS
  <2>2. FirstFound(ptrs) = ptrs[CHOOSE i \in found : \A j \in found : i <= j]
    BY <1>2 DEF FirstFound
  <2>3. PICK i : i = CHOOSE k \in found : \A j \in found : k <= j
    OBVIOUS
  <2>4. i \in found /\ \A j \in found : i <= j
    <3> HIDE DEF found
    <3>1. \E k \in found : \A j \in found : k <= j
      BY <1>2, <2>1, LeastIndex
    <3> QED
      BY <2>3, <3>1
  <2> QED
    BY <2>1, <2>2, <2>3, <2>4
<1> QED
  BY <1>1, <1>2

(* A row holds the driver's function of its name, or if there is none that   *)
(* of an earlier version, or NULL.                                           *)
LEMMA RowHolds ==
  ASSUME NEW n \in CudaNames
  PROVE  /\ n \notin lacks => load_cuda_libraries(n) = Driver(n)
         /\ \/ load_cuda_libraries(n) = Null
            \/ load_cuda_libraries(n) = Driver(n)
            \/ n \in lacks /\ \E m : load_cuda_libraries(n) = Driver(m) /\ Base(m) = Base(n) /\ VersionOf(m) < VersionOf(n)
<1> DEFINE V == VersionOf(n)
           prior == [k \in 1 .. (V - 1) |-> real_dlsym(Base(n) \o Suffix[V - k])]
           rest == IF linked THEN prior ELSE <<>>
           ptrs == <<real_dlsym(n)>> \o rest
<1>1. V \in 1 .. 4
  BY DEF VersionOf
<1>2. load_cuda_libraries(n) = FirstFound(ptrs)
  <2>1. prior_function[n] = [k \in 1 .. (V - 1) |-> Base(n) \o Suffix[V - k]]
    BY DEF prior_function
  <2>2. [k \in DOMAIN prior_function[n] |-> real_dlsym(prior_function[n][k])] = prior
    BY <2>1
  <2> QED
    BY <2>2 DEF load_cuda_libraries
<1>3. \A k \in 1 .. (V - 1) :
        LET m == Base(n) \o Suffix[V - k] IN Base(m) = Base(n) /\ VersionOf(m) < V
  <2> TAKE k \in 1 .. (V - 1)
  <2>1. V - k \in 1 .. (V - 1)
    BY <1>1
  <2>2. Base(Base(n) \o Suffix[V - k]) = Base(n) /\ VersionOf(Base(n) \o Suffix[V - k]) = V - k
    BY <2>1, PriorAssumption DEF PriorAssumption
  <2> QED
    BY <1>1, <2>1, <2>2
<1>4. \E l \in Nat : /\ DOMAIN ptrs = 1 .. (l + 1) /\ l <= V - 1
                     /\ ptrs[1] = real_dlsym(n)
                     /\ \A j \in 2 .. (l + 1) : ptrs[j] = real_dlsym(Base(n) \o Suffix[V - (j - 1)])
  <2> HIDE DEF V
  <2>1. CASE linked
    <3>1. prior \in Seq({prior[k] : k \in 1 .. (V - 1)}) /\ Len(prior) = V - 1
      <4>1. PICK m \in Nat : m = V - 1
        BY <1>1
      <4>2. PICK f : f = prior
        OBVIOUS
      <4>3. f \in [1 .. m -> {f[k] : k \in 1 .. m}]
        BY <4>1, <4>2
      <4>4. f \in Seq({f[k] : k \in 1 .. m}) /\ Len(f) = m
        BY <4>3
      <4> QED
        BY <4>1, <4>2, <4>4
    <3>2. DOMAIN ptrs = 1 .. ((V - 1) + 1) /\ ptrs[1] = real_dlsym(n)
      BY <1>1, <2>1, <3>1
    <3>3. \A j \in 2 .. ((V - 1) + 1) : ptrs[j] = prior[j - 1]
      BY <1>1, <2>1, <3>1
    <3>4. V - 1 \in Nat /\ \A j \in 2 .. ((V - 1) + 1) : j - 1 \in 1 .. (V - 1)
      BY <1>1
    <3> QED
      BY <3>2, <3>3, <3>4
  <2>2. CASE ~linked
    <3>1. ptrs = <<real_dlsym(n)>>
      BY <2>2
    <3>2. DOMAIN ptrs = 1 .. (0 + 1) /\ 0 <= V - 1 /\ ptrs[1] = real_dlsym(n)
      BY <1>1, <3>1
    <3>3. \A j \in 2 .. (0 + 1) : ptrs[j] = real_dlsym(Base(n) \o Suffix[V - (j - 1)])
      OBVIOUS
    <3> QED
      BY <3>2, <3>3
  <2> QED
    BY <2>1, <2>2
<1> HIDE DEF ptrs
<1>5. PICK l \in Nat : /\ DOMAIN ptrs = 1 .. (l + 1) /\ l <= V - 1
                       /\ ptrs[1] = real_dlsym(n)
                       /\ \A j \in 2 .. (l + 1) : ptrs[j] = real_dlsym(Base(n) \o Suffix[V - (j - 1)])
  BY <1>4
<1>6. \/ FirstFound(ptrs) = Null /\ \A j \in 1 .. (l + 1) : ptrs[j] = Null
      \/ \E j \in 1 .. (l + 1) : /\ FirstFound(ptrs) = ptrs[j] /\ ptrs[j] # Null
                                 /\ \A k \in 1 .. (l + 1) : k < j => ptrs[k] = Null
  <2>1. l + 1 \in Nat
    OBVIOUS
  <2> QED
    BY <1>5, <2>1, FirstFoundIs
<1>7. 1 \in 1 .. (l + 1)
  OBVIOUS
<1>8. \A m : real_dlsym(m) = Null \/ real_dlsym(m) = Driver(m)
  BY DEF real_dlsym
<1>9. Driver(n) # Null /\ (n \notin lacks => real_dlsym(n) = Driver(n)) /\ (n \in lacks => real_dlsym(n) = Null)
  BY DEF Driver, Null, real_dlsym
<1> HIDE DEF V
<1>10. n \notin lacks => FirstFound(ptrs) = Driver(n)
  <2> SUFFICES ASSUME n \notin lacks PROVE FirstFound(ptrs) = Driver(n)
    OBVIOUS
  <2>1. ptrs[1] # Null /\ ptrs[1] = Driver(n)
    BY <1>5, <1>9
  <2>2. PICK j \in 1 .. (l + 1) : FirstFound(ptrs) = ptrs[j] /\ \A k \in 1 .. (l + 1) : k < j => ptrs[k] = Null
    BY <1>6, <1>7, <2>1
  <2>3. j = 1
    BY <1>7, <2>1, <2>2
  <2> QED
    BY <2>1, <2>2, <2>3
<1>11. ASSUME n \in lacks, FirstFound(ptrs) # Null
       PROVE  \E m : FirstFound(ptrs) = Driver(m) /\ Base(m) = Base(n) /\ VersionOf(m) < V
  <2>1. PICK j \in 1 .. (l + 1) : FirstFound(ptrs) = ptrs[j] /\ ptrs[j] # Null
    BY <1>6, <1>11
  <2>2. j # 1
    BY <1>5, <1>9, <1>11, <2>1
  <2>3. j \in 2 .. (l + 1) /\ j - 1 \in 1 .. (V - 1)
    BY <1>1, <1>5, <2>2
  <2>4. PICK m : m = Base(n) \o Suffix[V - (j - 1)]
    OBVIOUS
  <2>5. ptrs[j] = real_dlsym(m)
    BY <1>5, <2>3, <2>4
  <2>6. Base(m) = Base(n) /\ VersionOf(m) < V
    BY <1>3, <2>3, <2>4
  <2> QED
    BY <1>8, <2>1, <2>5, <2>6
<1> QED
  BY <1>2, <1>10, <1>11 DEF V

(* A wrapper calls the row of its name, and a name is hooked if its row is   *)
(* not NULL.                                                                 *)
LEMMA CallsOwnRow ==
  ASSUME pre = "done", NEW n \in CudaWrappers
  PROVE  n \in CudaNames /\ CUDA_OVERRIDE_CALL(n) = load_cuda_libraries(n)
<1>1. n \in CudaNames /\ n # "nvmlInit" /\ n # "nvmlDeviceGetCount"
  BY TablesAssumption DEF TablesAssumption
<1>2. Forward(n) = n
  BY <1>1 DEF Forward
<1> QED
  BY <1>1, <1>2 DEF CUDA_OVERRIDE_CALL

(* What __dlsym_hook_section answers. *)
LEMMA HookIs ==
  ASSUME NEW n
  PROVE  /\ __dlsym_hook_section(n) = Null \/ __dlsym_hook_section(n) = Vgpu(n)
         /\ __dlsym_hook_section(n) # Null => n \in CudaHooks /\ pre = "done" /\ CUDA_OVERRIDE_CALL(n) # Null
         /\ n \in CudaHooks /\ pre = "done" /\ n \notin lacks => __dlsym_hook_section(n) = Vgpu(n)
<1>1. Vgpu(n) # Null /\ Driver(n) # Null
  BY DEF Vgpu, Driver, Null
<1>2. ASSUME n \in CudaHooks, pre = "done"
      PROVE  /\ CUDA_OVERRIDE_CALL(n) = load_cuda_libraries(n)
             /\ n \notin lacks => load_cuda_libraries(n) = Driver(n)
  <2>1. n \in CudaWrappers
    BY <1>2, TablesAssumption DEF TablesAssumption
  <2>2. n \in CudaNames /\ CUDA_OVERRIDE_CALL(n) = load_cuda_libraries(n)
    BY <1>2, <2>1, CallsOwnRow
  <2> QED
    BY <2>2, RowHolds
<1> QED
  BY <1>1, <1>2 DEF __dlsym_hook_section

(* What find_symbols_in_table_by_cudaversion answers is the wrapper of one   *)
(* of the names it tries.                                                    *)
LEMMA TableAnswers ==
  ASSUME NEW n, NEW v
  PROVE  LET own == find_symbols_in_table_by_cudaversion(n, v) IN
         own = Null \/ \E m : own = Vgpu(m) /\ own = __dlsym_hook_section(m)
<1>1. find_symbols_in_table(n) = Null \/ \E m : find_symbols_in_table(n) = __dlsym_hook_section(m)
  <2>1. PICK ptrs : ptrs = <<__dlsym_hook_section(n \o "_v3"), __dlsym_hook_section(n \o "_v2"),
                             __dlsym_hook_section(n)>>
    OBVIOUS
  <2>2. DOMAIN ptrs = 1 .. 3 /\ \A i \in 1 .. 3 : \E m : ptrs[i] = __dlsym_hook_section(m)
    BY <2>1
  <2>3. FirstFound(ptrs) = Null \/ \E i \in 1 .. 3 : FirstFound(ptrs) = ptrs[i]
    BY <2>2, FirstFoundIs
  <2> QED
    BY <2>1, <2>2, <2>3 DEF find_symbols_in_table
<1>2. \A m : __dlsym_hook_section(m) = Null \/ __dlsym_hook_section(m) = Vgpu(m)
  BY HookIs
<1> QED
  BY <1>1, <1>2 DEF find_symbols_in_table_by_cudaversion

(* find_symbols_in_table prefers _v3, then _v2. *)
LEMMA TableFinds ==
  ASSUME NEW n, ~Starts(n, "cuGraph")
  PROVE  find_symbols_in_table(n) =
           IF __dlsym_hook_section(n \o "_v3") # Null THEN __dlsym_hook_section(n \o "_v3")
           ELSE IF __dlsym_hook_section(n \o "_v2") # Null THEN __dlsym_hook_section(n \o "_v2")
           ELSE __dlsym_hook_section(n)
<1>1. PICK ptrs : ptrs = <<__dlsym_hook_section(n \o "_v3"), __dlsym_hook_section(n \o "_v2"),
                           __dlsym_hook_section(n)>>
  OBVIOUS
<1>2. DOMAIN ptrs = 1 .. 3 /\ find_symbols_in_table(n) = FirstFound(ptrs)
  BY <1>1 DEF find_symbols_in_table
<1>3. \/ FirstFound(ptrs) = Null /\ \A i \in 1 .. 3 : ptrs[i] = Null
      \/ \E i \in 1 .. 3 : /\ FirstFound(ptrs) = ptrs[i] /\ ptrs[i] # Null
                           /\ \A j \in 1 .. 3 : j < i => ptrs[j] = Null
  BY <1>2, FirstFoundIs
<1>4. FirstFound(ptrs) = IF ptrs[1] # Null THEN ptrs[1] ELSE IF ptrs[2] # Null THEN ptrs[2] ELSE ptrs[3]
  BY <1>3
<1> QED
  BY <1>1, <1>2, <1>4

(* What the driver offers to a caller built for version v. *)
Offers(m, v) == m \in Known /\ m \notin lacks /\ (m \in DOMAIN Since => Since[m] <= v)

TwoVersions(n) == n \o "" = n /\ {n \o "_v3", n \o "_v4"} \cap Known = {}

(* The driver's answer for a function of at most two versions. *)
LEMMA DriverFinds ==
  ASSUME NEW n, NEW v, TwoVersions(n)
  PROVE  driver_proc(n, v) = IF Offers(n \o "_v2", v) THEN Driver(n \o "_v2")
                             ELSE IF Offers(n, v) THEN Driver(n) ELSE Null
<1>1. PICK ptrs : ptrs = [i \in 1 .. 4 |-> IF Offers(n \o Suffix[5 - i], v) THEN Driver(n \o Suffix[5 - i]) ELSE Null]
  OBVIOUS
<1>2. DOMAIN ptrs = 1 .. 4 /\ driver_proc(n, v) = FirstFound(ptrs)
  BY <1>1 DEF driver_proc, Offers
<1>3. \/ FirstFound(ptrs) = Null /\ \A i \in 1 .. 4 : ptrs[i] = Null
      \/ \E i \in 1 .. 4 : /\ FirstFound(ptrs) = ptrs[i] /\ ptrs[i] # Null
                           /\ \A j \in 1 .. 4 : j < i => ptrs[j] = Null
  BY <1>2, FirstFoundIs
<1>4. \A i \in 1 .. 4 : ptrs[i] = IF Offers(n \o Suffix[5 - i], v) THEN Driver(n \o Suffix[5 - i]) ELSE Null
  BY <1>1
<1>5. ptrs[1] = Null /\ ptrs[2] = Null
  <2>1. 5 - 1 = 4 /\ 5 - 2 = 3
    OBVIOUS
  <2>2. Suffix[4] = "_v4" /\ Suffix[3] = "_v3"
    BY DEF Suffix
  <2>3. ~Offers(n \o Suffix[4], v) /\ ~Offers(n \o Suffix[3], v)
    BY <2>2 DEF Offers, TwoVersions
  <2> QED
    BY <1>4, <2>1, <2>3
<1>6. /\ ptrs[3] = IF Offers(n \o "_v2", v) THEN Driver(n \o "_v2") ELSE Null
      /\ ptrs[4] = IF Offers(n, v) THEN Driver(n) ELSE Null
  <2>1. 5 - 3 = 2 /\ 5 - 4 = 1
    OBVIOUS
  <2>2. Suffix[2] = "_v2" /\ Suffix[1] = ""
    BY DEF Suffix
  <2>3. /\ ptrs[3] = IF Offers(n \o Suffix[2], v) THEN Driver(n \o Suffix[2]) ELSE Null
        /\ ptrs[4] = IF Offers(n \o Suffix[1], v) THEN Driver(n \o Suffix[1]) ELSE Null
    BY <1>4, <2>1
  <2>4. n \o "" = n
    BY DEF TwoVersions
  <2> QED
    BY <2>2, <2>3, <2>4
<1>7. FirstFound(ptrs) = IF ptrs[3] # Null THEN ptrs[3] ELSE ptrs[4]
  <2>1. \A i \in 1 .. 4 : i = 1 \/ i = 2 \/ i = 3 \/ i = 4
    OBVIOUS
  <2>2. 3 < 4 /\ 3 \in 1 .. 4 /\ 4 \in 1 .. 4
    OBVIOUS
  <2> QED
    BY <1>3, <1>5, <2>1, <2>2
<1>8. Driver(n \o "_v2") # Null
  BY DEF Driver, Null
<1> QED
  BY <1>2, <1>6, <1>7, <1>8

-----------------------------------------------------------------------------
(* The lookup functions the application can hold *)

(* An RTLD_NEXT lookup has answered with a lookup function of the driver.    *)
NextGaveDriver == linked /\ \E i \in DOMAIN asked, n \in Lookups : asked[i][2] = Driver(n)

HandIs ==
    /\ hand \subseteq LookupNames \cup {"dlsym", "driver"}
    /\ "driver" \in hand => NextGaveDriver

(* A table lookup of a lookup function yields a wrapper of one, unless the   *)
(* driver has no version of it either.                                       *)
LEMMA LookupsAreHooked ==
  ASSUME pre = "done", NEW n \in Lookups, NEW v
  PROVE  LET own == find_symbols_in_table_by_cudaversion(n, v) IN
         \/ \E m \in Lookups : own = Vgpu(m)
         \/ own = Null /\ driver_proc(n, v) = Null
<1>1. /\ n \in CudaHooks /\ n \notin MultiVersion /\ ~Starts(n, "cuGraph")
      /\ Lookups \subseteq CudaHooks /\ TwoVersions(n)
  BY LookupsAssumption DEF LookupsAssumption, TwoVersions
<1>2. CudaHooks \subseteq Known
  BY TablesAssumption DEF TablesAssumption, Known
<1>3. n \o "_v2" \in Lookups \/ n \o "_v2" \notin Known
  BY LookupsAssumption DEF LookupsAssumption, Lookups
<1>4. find_symbols_in_table_by_cudaversion(n, v) = find_symbols_in_table(n)
  <2>1. get_real_func_name(n, v) = ""
    BY SMT, <1>1 DEF get_real_func_name, InFuncMap
  <2> QED
    BY <2>1 DEF find_symbols_in_table_by_cudaversion
<1>5. __dlsym_hook_section(n \o "_v3") = Null
  <2>1. n \o "_v3" \notin Known
    BY <1>1 DEF TwoVersions
  <2> QED
    BY <1>2, <2>1, HookIs
<1>6. find_symbols_in_table(n) = IF __dlsym_hook_section(n \o "_v2") # Null
                                 THEN __dlsym_hook_section(n \o "_v2") ELSE __dlsym_hook_section(n)
  BY <1>1, <1>5, TableFinds
<1>7. driver_proc(n, v) = IF Offers(n \o "_v2", v) THEN Driver(n \o "_v2")
                          ELSE IF Offers(n, v) THEN Driver(n) ELSE Null
  BY <1>1, DriverFinds
<1>8. CASE find_symbols_in_table(n) # Null
  <2>1. \A m : __dlsym_hook_section(m) # Null => m \in CudaHooks /\ __dlsym_hook_section(m) = Vgpu(m)
    BY HookIs
  <2> QED
    BY <1>2, <1>3, <1>4, <1>6, <1>8, <2>1
<1>9. CASE find_symbols_in_table(n) = Null
  <2>1. \A m : Vgpu(m) # Null
    BY DEF Vgpu, Null
  <2>2. \A m \in Lookups : __dlsym_hook_section(m) = Null => m \in lacks
    BY <1>1, <2>1, HookIs
  <2>3. n \in lacks /\ (n \o "_v2" \in Lookups => n \o "_v2" \in lacks)
    BY <1>6, <1>9, <2>2
  <2>4. ~Offers(n, v) /\ ~Offers(n \o "_v2", v)
    BY <1>3, <2>3 DEF Offers
  <2> QED
    BY <1>4, <1>7, <1>9, <2>4
<1> QED
  BY <1>8, <1>9

(* A lookup adds a wrapper to what the application holds. *)
LEMMA HandStep == RingInv /\ HandIs /\ [Next]_vars => HandIs'
<1> SUFFICES ASSUME RingInv, HandIs, [Next]_vars PROVE HandIs'
  OBVIOUS
<1>1. \/ UNCHANGED <<hand, asked, linked>>
      \/ \E t \in Threads, n \in NextSymbols : dlsym_next(t, n)
      \/ \E f \in LookupNames \cup {"dlsym"}, n \in Lookups, v \in Versions : lookup(f, n, v)
  BY Zenon DEF Next, vars, lookupVars, ringVars, api_call, watcher_start, nvml_call, fork, once_begin, once_passed,
     once_end, dlsym_next_repeated
<1>2. ASSUME NEW f \in LookupNames \cup {"dlsym"}, NEW n \in Lookups, NEW v \in Versions, lookup(f, n, v)
      PROVE  HandIs'
  <2>1. PICK p : p = Answer(f, n, v)
    OBVIOUS
  <2>2. /\ f \in hand
        /\ NeedsPreInit(n) => pre = "done"
        /\ p # Null /\ hand' = hand \cup {IF p[1] = "driver" THEN "driver" ELSE p[2]}
    BY <1>2, <2>1 DEF lookup
  <2>3. n \in CudaHooks /\ n \in CudaWrappers /\ Starts(n, "cu")
    BY LookupsAssumption, TablesAssumption DEF LookupsAssumption, TablesAssumption
  <2>4. pre = "done"
    BY <2>2, <2>3 DEF NeedsPreInit, Lookups
  <2>5. \E m \in LookupNames : p = Vgpu(m)
    <3>1. CASE f = "dlsym"
      <4>1. p = Vgpu(n)
        BY <2>1, <2>3, <3>1 DEF Answer, dlsym
      <4> QED
        BY <4>1 DEF LookupNames
    <3>2. CASE f # "dlsym" /\ n = f
      <4>1. p = Vgpu("_" \o f)
        BY <2>1, <2>2, <3>2 DEF Answer, cuGetProcAddress
      <4> QED
        BY <3>2, <4>1 DEF LookupNames
    <3>3. CASE f # "dlsym" /\ n # f
      <4>1. PICK own : own = find_symbols_in_table_by_cudaversion(n, v)
        OBVIOUS
      <4>2. p = IF own # Null THEN own ELSE driver_proc(n, v)
        BY <2>1, <3>3, <4>1 DEF Answer, cuGetProcAddress
      <4>3. \/ \E m \in Lookups : own = Vgpu(m)
            \/ own = Null /\ driver_proc(n, v) = Null
        BY <2>4, <4>1, LookupsAreHooked
      <4>4. \E m \in Lookups : p = Vgpu(m)
        <5>1. \A m : Vgpu(m) # Null
          BY DEF Vgpu, Null
        <5> QED
          BY <2>2, <4>2, <4>3, <5>1
      <4> QED
        BY <4>4 DEF LookupNames
    <3> QED
      BY <3>1, <3>2, <3>3
  <2>6. p[1] = "vgpu" /\ p[2] \in LookupNames
    BY <2>5 DEF Vgpu
  <2>7. hand' = hand \cup {p[2]} /\ p[2] # "driver"
    <3>1. LookupNames = Lookups \cup {"_cuGetProcAddress", "_cuGetProcAddress_v2"}
      BY Zenon, LookupsAssumption DEF LookupsAssumption
    <3> QED
      BY <2>2, <2>6, <3>1 DEF Lookups
  <2>8. asked' = asked /\ linked' = linked
    BY <1>2 DEF lookup, lookupVars, ringVars
  <2> QED
    BY <2>6, <2>7, <2>8 DEF HandIs, NextGaveDriver
<1>3. ASSUME NEW t \in Threads, NEW n \in NextSymbols, dlsym_next(t, n)
      PROVE  HandIs'
  <2>1. PICK p : p = next_dlsym(n)
    OBVIOUS
  <2>2. PICK a : a = asked
    OBVIOUS
  <2>3. /\ asked' = Append(a, <<t, p>>) /\ linked' = linked
        /\ hand' = hand \cup {"driver" : m \in {k \in Lookups : p = Driver(k)}}
    BY <1>3, <2>1, <2>2 DEF dlsym_next, lookupVars
  <2>4. a \in Seq(Recorded) /\ asked' \in Seq(Recorded)
    <3>1. RingInv'
      BY <1>3, RingRecords
    <3> QED
      BY <2>2, <3>1 DEF RingInv, RingTypes
  <2>5. /\ DOMAIN asked' = 1 .. (Len(a) + 1) /\ Len(a) \in Nat /\ DOMAIN a = 1 .. Len(a)
        /\ asked'[Len(a) + 1] = <<t, p>>
        /\ \A i \in DOMAIN a : asked'[i] = a[i]
    BY <2>3, <2>4
  <2>6. NextGaveDriver => NextGaveDriver'
    <3>1. \A i \in DOMAIN a : i \in DOMAIN asked'
      BY <2>5
    <3> QED
      BY <2>2, <2>3, <2>5, <3>1 DEF NextGaveDriver
  <2>7. ASSUME NEW k \in Lookups, p = Driver(k) PROVE NextGaveDriver'
    <3>1. linked
      <4>1. \A i, j : Driver(i) # Null /\ (Driver(i) = Driver(j) => i = j)
        BY DEF Driver, Null
      <4>2. p = Null \/ (p = Driver(n) /\ (n \in Known => linked))
        <5>1. CASE n \in Known /\ ~linked
          <6>1. next_dlsym(n) = Null
            BY Zenon, <5>1 DEF next_dlsym
          <6> QED
            BY Zenon, <2>1, <6>1
        <5>2. CASE ~(n \in Known /\ ~linked)
          <6>1. p = real_dlsym(n)
            BY Zenon, <2>1, <5>2 DEF next_dlsym
          <6>2. p = Null \/ p = Driver(n)
            BY <6>1 DEF real_dlsym
          <6> QED
            BY Zenon, <5>2, <6>2
        <5> QED
          BY Zenon, <5>1, <5>2
      <4>3. k \in Known
        BY LookupsAssumption, TablesAssumption DEF LookupsAssumption, TablesAssumption, Known
      <4> QED
        BY <2>7, <4>1, <4>2, <4>3
    <3>2. Len(a) + 1 \in DOMAIN asked' /\ asked'[Len(a) + 1][2] = Driver(k)
      BY <2>5, <2>7
    <3> QED
      BY <2>3, <3>1, <3>2 DEF NextGaveDriver
  <2> QED
    BY <2>3, <2>6, <2>7 DEF HandIs
<1>4. CASE UNCHANGED <<hand, asked, linked>>
  BY <1>4 DEF HandIs, NextGaveDriver
<1> QED
  BY <1>1, <1>2, <1>3, <1>4

LEMMA HandAlways == Spec => []HandIs
<1>1. Init => HandIs
  BY DEF Init, HandIs
<1> QED
  BY <1>1, RingInit, RingStep, HandStep, PTL DEF Spec

-----------------------------------------------------------------------------
(* Theorems about lookups *)

(* The owners of pointers. *)
LEMMA PointersDiffer ==
  \A m : /\ Vgpu(m)[1] = "vgpu" /\ Vgpu(m)[2] = m /\ Vgpu(m) # Null
         /\ Driver(m)[1] # "vgpu" /\ Driver(m) # Null /\ Null[1] # "vgpu"
BY DEF Vgpu, Driver, Null

(* What a lookup by CUDA version answers for its own name. *)
LEMMA AnswerForOwn ==
  ASSUME NEW f, f # "dlsym", NEW v
  PROVE  Answer(f, f, v) = Vgpu("_" \o f) \/ Answer(f, f, v) = Null
<1>1. CASE driver_proc(f, v) # Null
  BY Zenon, <1>1 DEF Answer, cuGetProcAddress
<1>2. CASE driver_proc(f, v) = Null
  BY Zenon, <1>2 DEF Answer, cuGetProcAddress
<1> QED
  BY Zenon, <1>1, <1>2

(* The same for another name. *)
LEMMA AnswerForOther ==
  ASSUME NEW f, f # "dlsym", NEW n, n # f, NEW v
  PROVE  LET own == find_symbols_in_table_by_cudaversion(n, v) IN
         Answer(f, n, v) = IF own # Null THEN own ELSE driver_proc(n, v)
<1>1. PICK own : own = find_symbols_in_table_by_cudaversion(n, v)
  OBVIOUS
<1>2. CASE own # Null
  <2>1. Answer(f, n, v) = own
    BY Zenon, <1>1, <1>2 DEF Answer, cuGetProcAddress
  <2> QED
    BY <1>1, <1>2, <2>1
<1>3. CASE own = Null
  <2>1. Answer(f, n, v) = driver_proc(n, v)
    BY Zenon, <1>1, <1>3 DEF Answer, cuGetProcAddress
  <2> QED
    BY <1>1, <1>3, <2>1
<1> QED
  BY <1>2, <1>3

(* However the application chains its lookups and however old its driver is, *)
(* dlsym with a handle and the intercepted cuGetProcAddress give it no       *)
(* pointer to a driver function that libvgpu wraps and the driver has, the   *)
(* graph functions excepted, and it gets the driver's own cuGetProcAddress   *)
(* only through dlsym(RTLD_NEXT) with libcuda linked.                        *)
THEOREM NoLookupBypasses == Spec => []NoBypass
<1>1. HandIs => NoBypass
  <2> SUFFICES ASSUME HandIs PROVE NoBypass
    OBVIOUS
  <2>1. "driver" \in hand => linked /\ \E i \in DOMAIN asked, n \in Lookups : asked[i][2] = Driver(n)
    BY DEF HandIs, NextGaveDriver
  <2>2. ASSUME pre = "done", NEW f \in hand \ {"driver"}, NEW n \in CudaHooks, NEW v \in Versions,
               n \notin lacks, ~(f # "dlsym" /\ Starts(n, "cuGraph"))
        PROVE  Answer(f, n, v)[1] # "driver"
    <3>1. n \in CudaWrappers /\ Starts(n, "cu")
      BY TablesAssumption DEF TablesAssumption
    <3>2. \A m : Vgpu(m)[1] # "driver" /\ Null[1] # "driver" /\ Vgpu(m) # Null
      BY DEF Vgpu, Null
    <3>3. CASE f = "dlsym"
      <4>1. Answer(f, n, v) = Vgpu(n)
        BY <3>1, <3>3 DEF Answer, dlsym
      <4> QED
        BY <3>2, <4>1
    <3>4. CASE f # "dlsym" /\ n = f
      <4>1. PICK a : a = Answer(f, n, v)
        OBVIOUS
      <4>2. PICK m : m = "_" \o f
        BY Zenon
      <4>3. a = Vgpu(m) \/ a = Null
        BY Zenon, <3>4, <4>1, <4>2, AnswerForOwn
      <4> QED
        BY <3>2, <4>1, <4>3
    <3>5. CASE f # "dlsym" /\ n # f
      <4>1. PICK own : own = find_symbols_in_table_by_cudaversion(n, v)
        OBVIOUS
      <4>2. ~Starts(n, "cuGraph")
        BY <2>2, <3>5
      <4>3. n \notin MultiVersion
        BY Zenon, <4>2, VersionsAssumption DEF VersionsAssumption
      <4>4. get_real_func_name(n, v) = ""
        BY SMT, <4>3 DEF get_real_func_name, InFuncMap
      <4>5. own = find_symbols_in_table(n)
        BY Zenon, <4>1, <4>4 DEF find_symbols_in_table_by_cudaversion
      <4>6. __dlsym_hook_section(n) = Vgpu(n)
        BY <2>2, HookIs
      <4>7. own # Null
        BY <3>2, <4>2, <4>5, <4>6, TableFinds
      <4>8. \E m : own = Vgpu(m)
        BY <4>1, <4>7, TableAnswers
      <4>9. Answer(f, n, v) = own
        BY <3>5, <4>1, <4>7, AnswerForOther
      <4> QED
        BY <3>2, <4>8, <4>9
    <3> QED
      BY <3>3, <3>4, <3>5
  <2> QED
    BY <2>1, <2>2 DEF NoBypass
<1> QED
  BY <1>1, HandAlways, PTL

(* The driver answers with a function of its own or with NULL. *)
LEMMA DriverAnswers ==
  ASSUME NEW n, NEW v
  PROVE  driver_proc(n, v) = Null \/ \E m : driver_proc(n, v) = Driver(m)
<1>1. PICK ptrs : ptrs = [i \in 1 .. 4 |-> IF Offers(n \o Suffix[5 - i], v) THEN Driver(n \o Suffix[5 - i]) ELSE Null]
  OBVIOUS
<1>2. DOMAIN ptrs = 1 .. 4 /\ driver_proc(n, v) = FirstFound(ptrs)
  BY <1>1 DEF driver_proc, Offers
<1>3. \A i \in 1 .. 4 : ptrs[i] = Null \/ \E m : ptrs[i] = Driver(m)
  BY <1>1
<1>4. FirstFound(ptrs) = Null \/ \E i \in 1 .. 4 : FirstFound(ptrs) = ptrs[i]
  BY <1>2, FirstFoundIs
<1> QED
  BY <1>2, <1>3, <1>4

(* A function found by a lookup by CUDA version can be called: the table     *)
(* entry its wrapper goes through is not NULL, on any driver.  dlsym does    *)
(* not look at the table, and hands out a wrapper with a NULL entry exactly  *)
(* where the driver lacks the function.                                      *)
THEOREM NoCallThroughNull == Spec => []NoNullCall
<1>0. ASSUME NEW n \in NvmlWrappers, nvml = "done", NVML_OVERRIDE_CALL(n) = Null
      PROVE  {n, n \o "_v2"} \cap lacks # {}
  <2>1. PICK m : m = Forward(n)
    OBVIOUS
  <2>2. m \in {n, n \o "_v2"}
    BY <2>1, TablesAssumption DEF TablesAssumption
  <2>3. m \in lacks
    BY <1>0, <2>1 DEF NVML_OVERRIDE_CALL, load_nvml_libraries, real_dlsym, Driver, Null
  <2> QED
    BY <2>2, <2>3
<1>1. HandIs => NoNullCall
  <2> SUFFICES ASSUME HandIs, pre = "done", NEW f \in hand \ {"driver"}, NEW n \in Known, NEW v \in Versions, NEW p,
                      p = Answer(f, n, v), p[1] = "vgpu", p[2] \in CudaWrappers, CUDA_OVERRIDE_CALL(p[2]) = Null
               PROVE  f = "dlsym" /\ n \in lacks
    BY <1>0 DEF NoNullCall
  <2>1. \A m : /\ Vgpu(m)[1] = "vgpu" /\ Vgpu(m)[2] = m /\ Vgpu(m) # Null
               /\ Driver(m)[1] # "vgpu" /\ Driver(m) # Null /\ Null[1] # "vgpu"
    BY PointersDiffer
  <2>2. CASE f = "dlsym"
    <3>1. p = Vgpu(n) \/ p = Null \/ p = Driver(n)
      BY <2>2 DEF Answer, dlsym, real_dlsym
    <3>2. p[2] = n
      BY <2>1, <3>1
    <3>4. n \in CudaNames /\ CUDA_OVERRIDE_CALL(n) = load_cuda_libraries(n)
      BY <3>2, CallsOwnRow
    <3>5. n \notin lacks => CUDA_OVERRIDE_CALL(n) = Driver(n)
      BY <3>4, RowHolds
    <3> QED
      BY <2>1, <2>2, <3>2, <3>5
  <2>3. CASE f # "dlsym" /\ n = f
    <3>1. f \in LookupNames \cap Known
      BY <2>3 DEF HandIs
    <3>2. "_" \o f \notin CudaWrappers
      <4>1. LookupNames \cap Known = Lookups /\ \A g \in Lookups : "_" \o g \in LookupNames \ Lookups
        BY Zenon, LookupsAssumption DEF LookupsAssumption
      <4>2. f \in Lookups
        BY Zenon, <3>1, <4>1
      <4>3. "_" \o f \in LookupNames \ Lookups
        BY Zenon, <4>1, <4>2
      <4>4. PICK m : m = "_" \o f
        BY Zenon
      <4>5. m \notin Known
        BY Zenon, <4>1, <4>3, <4>4
      <4>6. CudaWrappers \subseteq Known
        BY TablesAssumption DEF TablesAssumption, Known
      <4> QED
        BY Zenon, <4>4, <4>5, <4>6
    <3>3. PICK m : m = "_" \o f
      BY Zenon
    <3>4. p = Vgpu(m) \/ p = Null
      BY Zenon, <2>3, <3>3, AnswerForOwn
    <3> QED
      <4>1. m \notin CudaWrappers
        BY Zenon, <3>2, <3>3
      <4> QED
        BY <2>1, <3>4, <4>1
  <2>4. CASE f # "dlsym" /\ n # f
    <3>1. PICK own : own = find_symbols_in_table_by_cudaversion(n, v)
      OBVIOUS
    <3>2. p = IF own # Null THEN own ELSE driver_proc(n, v)
      BY <2>4, <3>1, AnswerForOther
    <3>3. own # Null
      <4> SUFFICES ASSUME own = Null PROVE FALSE
        OBVIOUS
      <4>1. p = Null \/ \E m : p = Driver(m)
        BY <3>2, DriverAnswers
      <4> QED
        BY <2>1, <4>1
    <3>4. PICK m : own = Vgpu(m) /\ own = __dlsym_hook_section(m)
      BY <3>1, <3>3, TableAnswers
    <3>5. CUDA_OVERRIDE_CALL(m) # Null
      BY <3>3, <3>4, HookIs
    <3>6. p[2] = m
      BY <2>1, <3>2, <3>3, <3>4
    <3> QED
      BY <3>5, <3>6
  <2> QED
    BY <2>2, <2>3, <2>4
<1> QED
  BY <1>1, HandAlways, PTL

(* A function of g_func_map is answered in the version asked for, or the     *)
(* driver answers itself.                                                    *)
LEMMA MultiVersionAsked ==
  ASSUME NEW n, NEW v \in Nat, InFuncMap(n, v),
         NEW own, own = find_symbols_in_table_by_cudaversion(n, v), own # Null
  PROVE  own = Vgpu(n \o "_v2") /\ (n \o "_v2" \in lacks \/ driver_proc(n, v) = Driver(n \o "_v2"))
<1>0. n \in MultiVersion
  BY SMT DEF InFuncMap
<1>1. /\ n \notin CudaHooks /\ n \o "_v2" \in CudaHooks /\ TwoVersions(n) /\ "" \notin Known
  BY Zenon, <1>0, VersionsAssumption DEF VersionsAssumption, TwoVersions
<1>2. CudaHooks \subseteq Known
  BY TablesAssumption DEF TablesAssumption, Known
<1>3. n # ""
  BY <1>0 DEF MultiVersion
<1>4. PICK m : m = n \o "_v2"
  OBVIOUS
<1>5. m # "" /\ m \in CudaHooks /\ m \in Known
  BY <1>1, <1>2, <1>4
<1>6. \/ get_real_func_name(n, v) = n
      \/ get_real_func_name(n, v) = m /\ (m \in DOMAIN Since => Since[m] <= v)
  <2>1. m \in DOMAIN Since => Since[m] \in Nat /\ Since[m] <= 12000
    BY SMT, <1>0, <1>4, SinceAssumption DEF SinceAssumption
  <2>2. get_real_func_name(n, v) = IF v <= 11999 THEN n ELSE m
    BY SMT, <1>4 DEF get_real_func_name
  <2> QED
    BY SMT, <2>1, <2>2
<1>7. CASE get_real_func_name(n, v) = n
  <2>1. own = __dlsym_hook_section(n)
    BY <1>3, <1>7 DEF find_symbols_in_table_by_cudaversion
  <2> QED
    BY <1>1, <2>1, HookIs
<1>8. CASE get_real_func_name(n, v) = m /\ (m \in DOMAIN Since => Since[m] <= v)
  <2>1. own = __dlsym_hook_section(m)
    BY <1>5, <1>8 DEF find_symbols_in_table_by_cudaversion
  <2>2. own = Vgpu(m)
    BY <2>1, HookIs
  <2>3. m \notin lacks => Offers(m, v)
    BY <1>5, <1>8 DEF Offers
  <2>4. driver_proc(n, v) = IF Offers(m, v) THEN Driver(m) ELSE IF Offers(n, v) THEN Driver(n) ELSE Null
    BY <1>1, <1>4, DriverFinds
  <2> QED
    BY <1>4, <2>2, <2>3, <2>4
<1> QED
  BY <1>6, <1>7, <1>8

(* Of the other functions but those of Unmapped, libvgpu wraps the version   *)
(* that the driver answers with.                                             *)
LEMMA OneVersionAsked ==
  ASSUME NEW n \in Mapped, NEW v, ~Starts(n, "cuGraph"), find_symbols_in_table(n) # Null
  PROVE  \E m : find_symbols_in_table(n) = Vgpu(m) /\ (m \in lacks \/ driver_proc(n, v) = Driver(m))
<1>1. PICK m : m = n \o "_v2"
  OBVIOUS
<1>2. /\ TwoVersions(n) /\ n \o "_v3" \notin Known
      /\ m \in Known => n \notin CudaHooks
  BY Zenon, <1>1, VersionsAssumption DEF VersionsAssumption, TwoVersions
<1>3. CudaHooks \subseteq Known
  BY TablesAssumption DEF TablesAssumption, Known
<1>4. __dlsym_hook_section(n \o "_v3") = Null
  BY <1>2, <1>3, HookIs
<1>5. find_symbols_in_table(n) = IF __dlsym_hook_section(m) # Null THEN __dlsym_hook_section(m) ELSE __dlsym_hook_section(n)
  BY <1>1, <1>4, TableFinds
<1>6. driver_proc(n, v) = IF Offers(m, v) THEN Driver(m) ELSE IF Offers(n, v) THEN Driver(n) ELSE Null
  BY <1>1, <1>2, DriverFinds
<1>7. ASSUME NEW k \in {n, m}, k \in Known
      PROVE  k \notin DOMAIN Since
  <2>1. Base(k) = n /\ ~Starts(k, "cuGraph")
    <3>1. \A j \in {n, n \o "_v2"} \cap Known : Base(j) = n /\ (Starts(j, "cuGraph") <=> Starts(n, "cuGraph"))
      BY Zenon, VersionsAssumption DEF VersionsAssumption
    <3> QED
      BY Zenon, <1>1, <1>7, <3>1
  <2>2. Base(k) \notin Unmapped
    BY <2>1 DEF Mapped
  <2> QED
    BY <2>1, <2>2, SinceAssumption DEF SinceAssumption
<1>8. CASE __dlsym_hook_section(m) # Null
  <2>1. m \in Known /\ __dlsym_hook_section(m) = Vgpu(m)
    BY <1>3, <1>8, HookIs
  <2>2. m \notin lacks => Offers(m, v)
    BY <1>7, <2>1 DEF Offers
  <2> QED
    BY <1>5, <1>6, <1>8, <2>1, <2>2
<1>9. CASE __dlsym_hook_section(m) = Null
  <2>1. __dlsym_hook_section(n) # Null
    BY <1>5, <1>9
  <2>2. n \in CudaHooks /\ n \in Known /\ __dlsym_hook_section(n) = Vgpu(n)
    BY <1>3, <2>1, HookIs
  <2>3. ~Offers(m, v)
    BY <1>2, <2>2 DEF Offers
  <2>4. n \notin lacks => Offers(n, v)
    BY <1>7, <2>2 DEF Offers
  <2> QED
    BY <1>5, <1>6, <1>9, <2>2, <2>3, <2>4
<1> QED
  BY <1>8, <1>9

(* Whatever driver is installed and whatever version the caller was built    *)
(* for, a lookup by CUDA version answers with the wrapper of that version of *)
(* the function that the driver would have answered with, unless the driver  *)
(* lacks what the wrapper is named for; the names of Unmapped excepted.      *)
THEOREM VersionAskedIsAnswered == Spec => []VersionAsked
<1>1. HandIs => VersionAsked
  <2> SUFFICES ASSUME HandIs, pre = "done", NEW f \in hand \ {"dlsym", "driver"}, NEW n \in Mapped, NEW v \in Versions,
                      driver_proc(n, v) # Null
               PROVE  Answer(f, n, v)[2] = driver_proc(n, v)[2] \/ Answer(f, n, v)[2] \in lacks
    BY DEF VersionAsked
  <2>1. n # f /\ f # "dlsym"
    <3>1. Mapped \cap LookupNames = {}
      BY Zenon, VersionsAssumption DEF VersionsAssumption
    <3> QED
      BY <3>1 DEF HandIs
  <2>2. PICK own : own = find_symbols_in_table_by_cudaversion(n, v)
    OBVIOUS
  <2>3. Answer(f, n, v) = IF own # Null THEN own ELSE driver_proc(n, v)
    BY <2>1, <2>2, AnswerForOther
  <2>4. CASE own = Null
    BY <2>3, <2>4
  <2>5. CASE own # Null
    <3>1. \E m : own = Vgpu(m) /\ (m \in lacks \/ driver_proc(n, v) = Driver(m))
      <4>1. CASE InFuncMap(n, v)
        <5>1. v \in Nat
          BY SMT, SinceAssumption DEF SinceAssumption
        <5> QED
          BY <2>2, <2>5, <4>1, <5>1, MultiVersionAsked
      <4>2. CASE ~InFuncMap(n, v)
        <5>1. get_real_func_name(n, v) = ""
          BY SMT, <4>2 DEF get_real_func_name
        <5>2. own = find_symbols_in_table(n)
          BY <2>2, <5>1 DEF find_symbols_in_table_by_cudaversion
        <5>3. ~Starts(n, "cuGraph")
          BY <2>5, <5>2 DEF find_symbols_in_table
        <5> QED
          BY <2>5, <5>2, <5>3, OneVersionAsked
      <4> QED
        BY <4>1, <4>2
    <3>2. \A m : Vgpu(m)[2] = m /\ Driver(m)[2] = m
      BY DEF Vgpu, Driver
    <3> QED
      BY <2>3, <2>5, <3>1, <3>2
  <2> QED
    BY <2>4, <2>5
<1> QED
  BY <1>1, HandAlways, PTL
-----------------------------------------------------------------------------
(* The initialisers *)

(* What a thread may still have to do, and how deep in the nesting of the    *)
(* initialisers it is: an initialiser passes flags of a higher level only.   *)
Items == {Once(f) : f \in Flags} \cup {End(f) : f \in Flags} \cup {Nvml}

Level == [f \in Flags |-> CASE f = "post_cuinit_flag" -> 1
                            [] f \in {"init_status", "dl_load_lock"} -> 3
                            [] OTHER -> 2]

LevelOf(i) == IF i = Nvml THEN 4 ELSE Level[i[2]]

Inner(f) == {i \in Items : i[1] # "end" /\ LevelOf(i) > Level[f]}

(* Whatever comes before the end of an initialiser belongs to it. *)
Nested(s) ==
    /\ s \in Seq(Items)
    /\ \A i, j \in 1 .. Len(s) : i < j /\ s[j][1] = "end" => LevelOf(s[i]) > LevelOf(s[j])

Ends(s, f) == \E j \in 1 .. Len(s) : s[j] = End(f)

(* A thread that is in an initialiser still has to end it. *)
OnceOk(o, c) ==
    /\ DOMAIN o = Flags
    /\ DOMAIN c = Threads
    /\ \A t \in Threads : Nested(c[t])
    /\ \A f \in Flags : o[f] \in Threads => Ends(c[o[f]], f)

OnceInv == OnceOk(once, calls)

(* The kinds of items and their levels. *)
LEMMA ItemsAre ==
  /\ \A f \in Flags : /\ Level[f] \in 1 .. 3
                      /\ Once(f) \in Items /\ LevelOf(Once(f)) = Level[f] /\ Once(f)[1] # "end" /\ Once(f)[2] = f
                      /\ End(f) \in Items /\ LevelOf(End(f)) = Level[f] /\ End(f)[1] = "end" /\ End(f)[2] = f
  /\ \A f, g : Once(f) # End(g) /\ Nvml # Once(f) /\ Nvml # End(f)
  /\ Nvml \in Items /\ LevelOf(Nvml) = 4 /\ Nvml[1] # "end"
  /\ \A i \in Items : LevelOf(i) \in 1 .. 4
<1>1. \A f \in Flags : Level[f] \in 1 .. 3
  BY DEF Level
<1>2. \A f, g : /\ Once(f) # End(g) /\ Nvml # Once(f) /\ Nvml # End(f)
                /\ Once(f)[1] # "end" /\ Once(f)[2] = f /\ End(f)[1] = "end" /\ End(f)[2] = f /\ Nvml[1] # "end"
  BY DEF Once, End, Nvml
<1>3. \A f \in Flags : LevelOf(Once(f)) = Level[f] /\ LevelOf(End(f)) = Level[f]
  BY <1>2 DEF LevelOf
<1>4. LevelOf(Nvml) = 4
  BY DEF LevelOf
<1>5. /\ \A f \in Flags : Once(f) \in Items /\ End(f) \in Items
      /\ Nvml \in Items
  BY DEF Items
<1>6. \A i \in Items : LevelOf(i) \in 1 .. 4
  BY <1>1, <1>3, <1>4 DEF Items
<1> QED
  BY <1>1, <1>2, <1>3, <1>4, <1>5, <1>6

(* What an initialiser does is inner to it. *)
LEMMA BodyIsInner ==
  ASSUME NEW f \in Flags, NEW locked \in BOOLEAN
  PROVE  Body(f, locked) \in Seq(Inner(f))
<1>1. /\ Level["post_cuinit_flag"] = 1 /\ Level["pre_cuinit_flag"] = 2
      /\ Level["init_virtual_map_pre_flag"] = 2 /\ Level["init_virtual_map_post_flag"] = 2
      /\ Level["init_status"] = 3 /\ Level["dl_load_lock"] = 3
  BY DEF Level, Flags
<1>2. ASSUME NEW g \in Flags, NEW h \in Flags, Level[g] > Level[h]
      PROVE  Once(g) \in Inner(h)
  BY <1>2, ItemsAre DEF Inner
<1>3. \A h \in Flags : Nvml \in Inner(h)
  BY ItemsAre DEF Inner
<1>4. nvmlInit \in Seq(Inner("post_cuinit_flag"))
  <2>1. /\ Once("init_virtual_map_pre_flag") \in Inner("post_cuinit_flag")
        /\ Once("init_virtual_map_post_flag") \in Inner("post_cuinit_flag")
        /\ Nvml \in Inner("post_cuinit_flag")
    BY <1>1, <1>2, <1>3 DEF Flags
  <2> QED
    BY <2>1 DEF nvmlInit
<1>5. <<Nvml, Once("init_status")>> \in Seq(Inner("post_cuinit_flag")) /\ <<Nvml>> \in Seq(Inner("post_cuinit_flag"))
  <2>1. Once("init_status") \in Inner("post_cuinit_flag") /\ Nvml \in Inner("post_cuinit_flag")
    BY <1>1, <1>2, <1>3 DEF Flags
  <2> QED
    BY <2>1
<1>6. CASE f = "post_cuinit_flag"
  <2>1. set_task_pid \in Seq(Inner(f)) /\ init_utilization_watcher \in Seq(Inner(f))
    <3>1. PICK S : S = Inner(f)
      OBVIOUS
    <3>2. nvmlInit \in Seq(S) /\ <<Nvml, Once("init_status")>> \in Seq(S) /\ <<Nvml>> \in Seq(S)
      BY <1>4, <1>5, <1>6, <3>1
    <3>3. \A a, b \in Seq(S) : a \o b \in Seq(S)
      OBVIOUS
    <3> QED
      BY <3>1, <3>2, <3>3 DEF set_task_pid, init_utilization_watcher
  <2>2. PICK S : S = Inner(f)
    OBVIOUS
  <2>3. \A a, b \in Seq(S) : a \o b \in Seq(S)
    OBVIOUS
  <2>4. (IF locked THEN set_task_pid ELSE <<>>) \in Seq(S)
    BY <2>1, <2>2
  <2> QED
    BY <1>6, <2>1, <2>2, <2>3, <2>4 DEF Body, postInit
<1>7. CASE f = "pre_cuinit_flag"
  <2>1. Once("dl_load_lock") \in Inner(f) /\ Once("init_status") \in Inner(f)
    BY <1>1, <1>2, <1>7 DEF Flags
  <2> QED
    BY <1>7, <2>1 DEF Body, preInit
<1>8. CASE f = "init_virtual_map_pre_flag"
  <2>1. Once("dl_load_lock") \in Inner(f) /\ Once("init_status") \in Inner(f)
    BY <1>1, <1>2, <1>8 DEF Flags
  <2> QED
    BY <1>8, <2>1 DEF Body, nvml_preInit
<1>9. CASE f = "init_virtual_map_post_flag"
  BY <1>3, <1>9 DEF Body, nvml_postInit
<1>10. CASE f = "dl_load_lock"
  <2>1. ~NeedsPreInit("cuGetExportTable")
    BY DEF NeedsPreInit
  <2>2. constructors = <<>>
    BY <2>1 DEF constructors
  <2> QED
    BY <1>10, <2>2 DEF Body
<1>11. CASE f = "init_status"
  BY <1>11 DEF Body
<1> QED
  BY <1>6, <1>7, <1>8, <1>9, <1>10, <1>11 DEF Flags

(* Concatenation, by elements. *)
LEMMA ConcatIs ==
  \A q, u \in Seq(Items) :
    /\ q \o u \in Seq(Items) /\ Len(q \o u) = Len(q) + Len(u)
    /\ \A i \in 1 .. Len(q) : (q \o u)[i] = q[i]
    /\ \A i \in 1 .. Len(u) : (q \o u)[Len(q) + i] = u[i]
<1> TAKE q, u \in Seq(Items)
<1>1. q \o u \in Seq(Items) /\ Len(q \o u) = Len(q) + Len(u)
  OBVIOUS
<1>2. \A i \in 1 .. Len(q) : (q \o u)[i] = q[i]
  OBVIOUS
<1>3. ASSUME NEW i \in 1 .. Len(u) PROVE (q \o u)[Len(q) + i] = u[i]
  <2>1. PICK k : k = Len(q) + i
    OBVIOUS
  <2>2. k \in 1 .. (Len(q) + Len(u)) /\ ~(k <= Len(q)) /\ k - Len(q) = i
    BY <2>1
  <2>3. (q \o u)[k] = u[k - Len(q)]
    BY <2>2
  <2> QED
    BY <2>1, <2>2, <2>3
<1> QED
  BY <1>1, <1>2, <1>3

(* What a thread that was to do s has to do when it begins the initialiser of f. *)
Begun(f, b, s) == b \o <<End(f)>> \o Tail(s)

Spliced(r, f, b, s) ==
    /\ r \in Seq(Items) /\ Len(r) = Len(b) + Len(s)
    /\ \A i \in 1 .. Len(b) : r[i] = b[i] /\ b[i] \in Inner(f)
    /\ r[Len(b) + 1] = End(f)
    /\ \A i \in 2 .. Len(s) : r[Len(b) + i] = s[i]

LEMMA BegunIs ==
  ASSUME NEW f \in Flags, NEW s \in Seq(Items), NEW b \in Seq(Inner(f)), s # <<>>
  PROVE  Spliced(Begun(f, b, s), f, b, s)
<1>r. PICK r : r = Begun(f, b, s)
  OBVIOUS
<1>1. b \in Seq(Items) /\ End(f) \in Items /\ Tail(s) \in Seq(Items)
  BY ItemsAre DEF Inner
<1>2. Len(s) \in Nat /\ Len(s) > 0 /\ Len(Tail(s)) = Len(s) - 1 /\ \A i \in 1 .. (Len(s) - 1) : Tail(s)[i] = s[i + 1]
  OBVIOUS
<1>3. PICK u \in Seq(Items) : u = Tail(s)
  BY <1>1
<1>4. PICK e \in Items : e = End(f)
  BY <1>1
<1>5. PICK q : q = b \o <<e>>
  OBVIOUS
<1>6. /\ q \in Seq(Items) /\ Len(q) = Len(b) + 1 /\ q[Len(b) + 1] = e
      /\ \A i \in 1 .. Len(b) : q[i] = b[i]
  BY <1>1, <1>4, <1>5
<1>7. r = q \o u
  BY <1>3, <1>4, <1>5, <1>r DEF Begun
<1>8. /\ r \in Seq(Items) /\ Len(r) = Len(b) + 1 + Len(u) /\ Len(b) \in Nat
      /\ \A i \in 1 .. (Len(b) + 1) : r[i] = q[i]
      /\ \A i \in 1 .. Len(u) : r[Len(b) + 1 + i] = u[i]
  <2>1. PICK n \in Nat : n = Len(b)
    BY <1>1
  <2>2. PICK l \in Nat : l = Len(u)
    OBVIOUS
  <2>3. Len(q) = n + 1
    BY <1>6, <2>1
  <2>0. q \in Seq(Items) /\ u \in Seq(Items)
    BY <1>6
  <2>c. /\ q \o u \in Seq(Items) /\ Len(q \o u) = Len(q) + Len(u)
        /\ \A i \in 1 .. Len(q) : (q \o u)[i] = q[i]
        /\ \A i \in 1 .. Len(u) : (q \o u)[Len(q) + i] = u[i]
    BY ONLY <2>0, ConcatIs, Zenon
  <2>d. /\ r \in Seq(Items) /\ Len(r) = Len(q) + Len(u)
        /\ \A i \in 1 .. Len(q) : r[i] = q[i]
        /\ \A i \in 1 .. Len(u) : r[Len(q) + i] = u[i]
    BY ONLY <1>7, <2>c, Zenon
  <2>4. /\ r \in Seq(Items) /\ Len(r) = n + 1 + l
        /\ \A i \in 1 .. (n + 1) : r[i] = q[i]
    BY ONLY <2>d, <2>2, <2>3, Zenon
  <2>5. \A i \in 1 .. l : r[n + 1 + i] = u[i]
    BY ONLY <2>d, <2>2, <2>3, Zenon
  <2> QED
    BY <2>1, <2>2, <2>4, <2>5
<1>9. ASSUME NEW i \in 2 .. Len(s) PROVE r[Len(b) + i] = s[i]
  <2>1. i - 1 \in 1 .. Len(u) /\ u[i - 1] = s[i] /\ Len(b) + 1 + (i - 1) = Len(b) + i
    BY <1>2, <1>3, <1>8
  <2> QED
    BY <1>8, <2>1
<1>10. \A i \in 1 .. Len(b) : b[i] \in Inner(f)
  OBVIOUS
<1>11. Len(b) + 1 + Len(u) = Len(b) + Len(s)
  BY <1>2, <1>3, <1>8
<1>12. Spliced(r, f, b, s)
  BY <1>4, <1>6, <1>8, <1>9, <1>10, <1>11 DEF Spliced
<1> QED
  BY <1>r, <1>12

(* Beginning an initialiser. *)
LEMMA NestedBegins ==
  ASSUME NEW f \in Flags, NEW s, Nested(s), s # <<>>, Head(s) = Once(f), NEW b \in Seq(Inner(f)),
         NEW r, r = Begun(f, b, s)
  PROVE  Nested(r) /\ Ends(r, f) /\ \A g \in Flags : Ends(s, g) => Ends(r, g)
<1>1. s \in Seq(Items) /\ Len(s) \in Nat /\ Len(s) >= 1 /\ s[1] = Once(f)
  BY DEF Nested
<1>2. PICK m \in Nat : m = Len(b)
  OBVIOUS
<1>3. /\ r \in Seq(Items) /\ Len(r) = m + Len(s)
      /\ \A i \in 1 .. m : r[i] \in Inner(f)
      /\ r[m + 1] = End(f)
      /\ \A i \in 2 .. Len(s) : r[m + i] = s[i]
  <2>1. /\ r \in Seq(Items) /\ Len(r) = Len(b) + Len(s)
        /\ \A i \in 1 .. Len(b) : r[i] = b[i] /\ b[i] \in Inner(f)
        /\ r[Len(b) + 1] = End(f)
        /\ \A i \in 2 .. Len(s) : r[Len(b) + i] = s[i]
    <3>1. Spliced(Begun(f, b, s), f, b, s)
      BY <1>1, BegunIs
    <3> QED
      BY <3>1 DEF Spliced
  <2>2. \A i \in 1 .. Len(b) : r[i] \in Inner(f)
    BY <2>1
  <2> QED
    BY <1>2, <2>1, <2>2
<1>4. ASSUME NEW i \in 1 .. Len(r), NEW j \in 1 .. Len(r), i < j, r[j][1] = "end"
      PROVE  LevelOf(r[i]) > LevelOf(r[j])
  <2>1. \A k \in 1 .. m : r[k][1] # "end" /\ LevelOf(r[k]) > Level[f] /\ LevelOf(r[k]) \in 1 .. 4
    BY <1>3, ItemsAre DEF Inner
  <2>2. j > m
    BY <1>4, <2>1
  <2>3. LevelOf(End(f)) = Level[f] /\ LevelOf(Once(f)) = Level[f] /\ Level[f] \in 1 .. 3
    BY ItemsAre
  <2>4. CASE j = m + 1
    BY <1>3, <1>4, <2>1, <2>3, <2>4
  <2>5. CASE j > m + 1
    <3>1. PICK l \in 2 .. Len(s) : j = m + l
      <4>1. j - m \in 2 .. Len(s) /\ j = m + (j - m)
        BY <1>1, <1>3, <2>5
      <4> QED
        BY <4>1
    <3>2. r[j] = s[l] /\ s[l][1] = "end" /\ l \in 1 .. Len(s) /\ 1 < l /\ 1 \in 1 .. Len(s)
      BY <1>1, <1>3, <1>4, <3>1
    <3>3. LevelOf(s[1]) > LevelOf(s[l])
      BY <3>2 DEF Nested
    <3>4. LevelOf(s[l]) \in 1 .. 4
      BY <1>1, <3>2, ItemsAre
    <3>5. CASE i <= m
      <4>0. i \in 1 .. m
        BY <3>5
      <4>1. LevelOf(r[i]) > Level[f] /\ LevelOf(r[i]) \in 1 .. 4
        BY <2>1, <4>0
      <4>2. LevelOf(s[1]) = Level[f]
        BY <1>1, <2>3
      <4>3. PICK x, y, z : x = LevelOf(r[i]) /\ y = Level[f] /\ z = LevelOf(s[l])
        OBVIOUS
      <4>a. x \in 1 .. 4 /\ y \in 1 .. 3 /\ z \in 1 .. 4
        BY ONLY <2>3, <3>4, <4>1, <4>3, Zenon
      <4>b. x > y /\ y > z
        BY ONLY <3>3, <4>1, <4>2, <4>3, Zenon
      <4>4. x > y /\ y > z /\ x \in Int /\ y \in Int /\ z \in Int
        BY ONLY <4>a, <4>b
      <4>5. x > z
        BY <4>4
      <4> QED
        BY <3>2, <4>3, <4>5
    <3>6. CASE i = m + 1
      BY <1>1, <1>3, <2>3, <3>2, <3>3, <3>6
    <3>7. CASE i > m + 1
      <4>1. PICK k \in 2 .. Len(s) : i = m + k
        <5>1. i - m \in 2 .. Len(s) /\ i = m + (i - m)
          BY <1>1, <1>3, <3>7
        <5> QED
          BY <5>1
      <4>2. r[i] = s[k] /\ k \in 1 .. Len(s) /\ k < l
        BY <1>1, <1>3, <1>4, <3>1, <4>1
      <4>3. LevelOf(s[k]) > LevelOf(s[l])
        BY <3>2, <4>2 DEF Nested
      <4> QED
        BY <3>2, <4>2, <4>3
    <3> QED
      BY <3>5, <3>6, <3>7
  <2> QED
    BY <1>1, <1>3, <2>2, <2>4, <2>5
<1>5. Ends(r, f)
  <2>1. m + 1 \in 1 .. Len(r)
    BY <1>1, <1>3
  <2> QED
    BY <1>3, <2>1 DEF Ends
<1>6. ASSUME NEW g \in Flags, Ends(s, g) PROVE Ends(r, g)
  <2>1. PICK j \in 1 .. Len(s) : s[j] = End(g)
    BY <1>6 DEF Ends
  <2>2. j # 1
    BY <1>1, <2>1, ItemsAre
  <2>3. m + j \in 1 .. Len(r) /\ r[m + j] = End(g)
    BY <1>1, <1>3, <2>1, <2>2
  <2> QED
    BY <2>3 DEF Ends
<1> QED
  BY <1>3, <1>4, <1>5, <1>6 DEF Nested

(* Going on to the next item. *)
LEMMA NestedTail ==
  ASSUME NEW s, Nested(s), s # <<>>
  PROVE  /\ Nested(Tail(s))
         /\ \A g \in Flags : Ends(s, g) /\ Head(s) # End(g) => Ends(Tail(s), g)
<1>1. /\ s \in Seq(Items) /\ Len(s) \in Nat /\ Len(s) >= 1
      /\ Tail(s) \in Seq(Items) /\ Len(Tail(s)) = Len(s) - 1
      /\ \A i \in 1 .. (Len(s) - 1) : Tail(s)[i] = s[i + 1]
      /\ Head(s) = s[1]
  BY DEF Nested
<1>2. PICK r : r = Tail(s)
  OBVIOUS
<1>3. ASSUME NEW i \in 1 .. Len(r), NEW j \in 1 .. Len(r), i < j, r[j][1] = "end"
      PROVE  LevelOf(r[i]) > LevelOf(r[j])
  <2>1. r[i] = s[i + 1] /\ r[j] = s[j + 1] /\ i + 1 \in 1 .. Len(s) /\ j + 1 \in 1 .. Len(s) /\ i + 1 < j + 1
    BY <1>1, <1>2, <1>3
  <2> QED
    BY <1>3, <2>1 DEF Nested
<1>4. ASSUME NEW g \in Flags, Ends(s, g), Head(s) # End(g) PROVE Ends(r, g)
  <2>1. PICK j \in 1 .. Len(s) : s[j] = End(g)
    BY <1>4 DEF Ends
  <2>2. j - 1 \in 1 .. Len(r) /\ r[j - 1] = s[j]
    BY <1>1, <1>2, <1>4, <2>1
  <2> QED
    BY <2>1, <2>2 DEF Ends
<1> QED
  BY <1>1, <1>2, <1>3, <1>4 DEF Nested

(* A sequence without ends. *)
LEMMA PlainNested ==
  ASSUME NEW s \in Seq({i \in Items : i[1] # "end"})
  PROVE  Nested(s)
<1>1. s \in Seq(Items) /\ \A j \in 1 .. Len(s) : s[j][1] # "end"
  OBVIOUS
<1> QED
  BY <1>1 DEF Nested

LEMMA CallsNested ==
  /\ \A c \in ApiCalls : Nested(c)
  /\ Nested(utilization_watcher)
  /\ Nested(<<>>)
<1>1. PICK P : P = {i \in Items : i[1] # "end"}
  OBVIOUS
<1>2. /\ Once("pre_cuinit_flag") \in P /\ Once("dl_load_lock") \in P /\ Once("init_status") \in P
      /\ Once("post_cuinit_flag") \in P /\ Once("init_virtual_map_pre_flag") \in P
      /\ Once("init_virtual_map_post_flag") \in P /\ Nvml \in P
  BY <1>1, ItemsAre DEF Flags
<1>3. dlsym_cu \in Seq(P) /\ cuInit \in Seq(P) /\ nvmlInit \in Seq(P)
  BY <1>2 DEF dlsym_cu, cuInit, nvmlInit
<1>4. <<Once("init_status")>> \in Seq(P) /\ <<Once("dl_load_lock")>> \in Seq(P) /\ <<Nvml, Once("init_status")>> \in Seq(P)
  BY <1>2
<1>5. \A a, b \in Seq(P) : a \o b \in Seq(P)
  OBVIOUS
<1>6. utilization_watcher \in Seq(P)
  BY <1>3, <1>4, <1>5 DEF utilization_watcher
<1>7. <<>> \in Seq(P)
  OBVIOUS
<1>8. \A s \in Seq(P) : Nested(s)
  BY <1>1, PlainNested
<1> QED
  BY <1>3, <1>4, <1>6, <1>7, <1>8 DEF ApiCalls

(* One thread goes on, and has what it says it has. *)
LEMMA OnceKeeps ==
  ASSUME NEW o, NEW c, OnceOk(o, c), NEW t \in Threads, NEW r, Nested(r),
         NEW o2, DOMAIN o2 = Flags,
         \A g \in Flags : o2[g] \in Threads =>
             \/ o2[g] = o[g] /\ (o[g] = t => Ends(r, g))
             \/ o2[g] = t /\ Ends(r, g)
  PROVE  OnceOk(o2, [c EXCEPT ![t] = r])
<1>1. PICK d : d = [c EXCEPT ![t] = r]
  OBVIOUS
<1>2. DOMAIN d = Threads /\ d[t] = r /\ \A u \in Threads : u # t => d[u] = c[u]
  BY <1>1 DEF OnceOk
<1>3. \A u \in Threads : Nested(d[u])
  BY <1>2 DEF OnceOk
<1>4. ASSUME NEW g \in Flags, o2[g] \in Threads PROVE Ends(d[o2[g]], g)
  <2>1. CASE o2[g] = t /\ Ends(r, g)
    BY <1>2, <2>1
  <2>2. CASE o2[g] = o[g] /\ (o[g] = t => Ends(r, g))
    <3>1. CASE o[g] = t
      BY <1>2, <2>2, <3>1
    <3>2. CASE o[g] # t
      BY <1>2, <1>4, <2>2, <3>2 DEF OnceOk
    <3> QED
      BY <3>1, <3>2
  <2> QED
    BY <1>4, <2>1, <2>2
<1> QED
  BY <1>1, <1>2, <1>3, <1>4 DEF OnceOk

LEMMA EmptyEnds == \A g : ~Ends(<<>>, g)
  BY DEF Ends

(* A thread with nothing to do has no initialiser. *)
LEMMA IdleHasNone ==
  ASSUME NEW o, NEW c, OnceOk(o, c), NEW t \in Threads, c[t] = <<>>
  PROVE  \A g \in Flags : o[g] # t
  BY EmptyEnds DEF OnceOk

LEMMA OnceInit == Init => OnceInv
<1> SUFFICES ASSUME Init PROVE OnceInv
  OBVIOUS
<1>1. once = [f \in Flags |-> "no"] /\ calls = [t \in Threads |-> <<>>]
  BY DEF Init
<1>2. "no" \notin Threads
  BY SymbolsAssumption
<1> QED
  BY <1>1, <1>2, CallsNested DEF OnceInv, OnceOk

LEMMA OnceStep == OnceInv /\ [Next]_vars => OnceInv'
<1> SUFFICES ASSUME OnceInv, [Next]_vars PROVE OnceInv'
  OBVIOUS
<1>o. PICK o, c : o = once /\ c = calls
  OBVIOUS
<1>0. /\ OnceOk(o, c) /\ DOMAIN o = Flags /\ DOMAIN c = Threads
      /\ \A t \in Threads : Nested(c[t])
      /\ \A f \in Flags : o[f] \in Threads => Ends(c[o[f]], f)
  BY <1>o DEF OnceInv, OnceOk
<1>n. "no" \notin Threads /\ "done" \notin Threads
  BY SymbolsAssumption
<1>q. ASSUME OnceOk(once', calls') PROVE OnceInv'
  BY <1>q DEF OnceInv
<1>s. CASE UNCHANGED onceVars
  <2>1. once' = o /\ calls' = c
    BY <1>o, <1>s DEF onceVars
  <2> QED
    BY <1>0, <1>q, <2>1
<1>f. ASSUME NEW t \in Threads, c[t] = <<>>, NEW r, Nested(r), once' = o, calls' = [c EXCEPT ![t] = r] PROVE OnceInv'
  <2>1. \A g \in Flags : o[g] # t
    BY <1>0, <1>f, IdleHasNone
  <2>2. OnceOk(o, [c EXCEPT ![t] = r])
    BY <1>0, <1>f, <2>1, OnceKeeps
  <2> QED
    BY <1>f, <1>q, <2>2
<1>t. ASSUME NEW t \in Threads, c[t] # <<>>, \A g : Head(c[t]) # End(g), once' = o, calls' = [c EXCEPT ![t] = Tail(c[t])] PROVE OnceInv'
  <2>0. PICK s : s = c[t]
    OBVIOUS
  <2>1. Nested(s) /\ s # <<>>
    BY <1>0, <1>t, <2>0
  <2>2. Nested(Tail(s)) /\ \A g \in Flags : Ends(s, g) => Ends(Tail(s), g)
    BY <1>t, <2>0, <2>1, NestedTail
  <2>3. \A g \in Flags : o[g] = t => Ends(Tail(s), g)
    BY <1>0, <2>0, <2>2
  <2>4. OnceOk(o, [c EXCEPT ![t] = Tail(s)])
    BY <1>0, <2>2, <2>3, OnceKeeps
  <2> QED
    BY <1>t, <1>q, <2>0, <2>4
<1>1. ASSUME NEW t \in Threads, NEW a \in MadeIn(scope), api_call(t, a) PROVE OnceInv'
  <2>1. a \in ApiCalls
    BY DEF MadeIn, ApiCalls
  <2>2. c[t] = <<>> /\ once' = o /\ calls' = [c EXCEPT ![t] = a]
    BY <1>o, <1>1 DEF api_call, Do
  <2> QED
    BY <1>f, <2>1, <2>2, CallsNested
<1>2. ASSUME NEW t \in Threads, watcher_start(t) PROVE OnceInv'
  <2>2. c[t] = <<>> /\ once' = o /\ calls' = [c EXCEPT ![t] = utilization_watcher]
    BY <1>o, <1>2 DEF watcher_start, Do
  <2> QED
    BY <1>f, <2>2, CallsNested
<1>3. ASSUME NEW t \in Threads, NEW f \in Flags, NEW locked \in BOOLEAN, once_begin(t, f, locked) PROVE OnceInv'
  <2>0. PICK s, b : s = c[t] /\ b = Body(f, locked)
    OBVIOUS
  <2>1. Nested(s) /\ s # <<>> /\ Head(s) = Once(f) /\ b \in Seq(Inner(f))
    BY <1>o, <1>0, <1>3, <2>0, BodyIsInner DEF once_begin, At
  <2>2. PICK r : r = Begun(f, b, s)
    OBVIOUS
  <2>3. once' = [o EXCEPT ![f] = t] /\ calls' = [c EXCEPT ![t] = r]
    BY <1>o, <1>3, <2>0, <2>2 DEF once_begin, Do, Begun
  <2>4. Nested(r) /\ Ends(r, f) /\ \A g \in Flags : Ends(s, g) => Ends(r, g)
    BY <2>1, <2>2, NestedBegins
  <2>5. \A g \in Flags : o[g] = t => Ends(r, g)
    BY <1>0, <2>0, <2>4
  <2>6. PICK o2 : o2 = [o EXCEPT ![f] = t]
    OBVIOUS
  <2>7. DOMAIN o2 = Flags /\ o2[f] = t /\ \A g \in Flags : g # f => o2[g] = o[g]
    BY <1>0, <2>6
  <2>8. OnceOk(o2, [c EXCEPT ![t] = r])
    <3>1. \A g \in Flags : o2[g] \in Threads =>
             \/ o2[g] = o[g] /\ (o[g] = t => Ends(r, g))
             \/ o2[g] = t /\ Ends(r, g)
      BY <2>4, <2>5, <2>7
    <3> QED
      BY <1>0, <2>4, <2>7, <3>1, OnceKeeps
  <2> QED
    BY <1>q, <2>3, <2>6, <2>8
<1>4. ASSUME NEW t \in Threads, NEW f \in Flags, once_passed(t, f) PROVE OnceInv'
  <2>1. c[t] # <<>> /\ Head(c[t]) = Once(f) /\ once' = o /\ calls' = [c EXCEPT ![t] = Tail(c[t])]
    BY <1>o, <1>4 DEF once_passed, At, Do
  <2>2. \A g : Head(c[t]) # End(g)
    BY <2>1, ItemsAre
  <2> QED
    BY <1>t, <2>1, <2>2
<1>5. ASSUME NEW t \in Threads, NEW f \in Flags, once_end(t, f) PROVE OnceInv'
  <2>0. PICK s : s = c[t]
    OBVIOUS
  <2>e. PICK e : e = IF f = "dl_load_lock" THEN "no" ELSE "done"
    OBVIOUS
  <2>1. Nested(s) /\ s # <<>> /\ Head(s) = End(f)
    BY <1>o, <1>0, <1>5, <2>0 DEF once_end, At
  <2>2. once' = [o EXCEPT ![f] = e] /\ calls' = [c EXCEPT ![t] = Tail(s)]
    BY <1>o, <1>5, <2>0, <2>e DEF once_end, Do
  <2>3. e \notin Threads
    BY <1>n, <2>e
  <2>4. \A g \in Flags : g # f => End(g) # End(f)
    BY ItemsAre
  <2>5. Nested(Tail(s)) /\ \A g \in Flags : g # f /\ Ends(s, g) => Ends(Tail(s), g)
    BY <2>1, <2>4, NestedTail
  <2>6. PICK o2 : o2 = [o EXCEPT ![f] = e]
    OBVIOUS
  <2>7. DOMAIN o2 = Flags /\ o2[f] = e /\ \A g \in Flags : g # f => o2[g] = o[g]
    BY <1>0, <2>6
  <2>8. \A g \in Flags : o2[g] \in Threads => o2[g] = o[g] /\ (o[g] = t => Ends(Tail(s), g))
    BY <1>0, <2>0, <2>3, <2>5, <2>7
  <2>9. OnceOk(o2, [c EXCEPT ![t] = Tail(s)])
    BY <1>0, <2>5, <2>7, <2>8, OnceKeeps
  <2> QED
    BY <1>q, <2>2, <2>6, <2>9
<1>6. ASSUME NEW t \in Threads, nvml_call(t) PROVE OnceInv'
  <2>1. c[t] # <<>> /\ Head(c[t]) = Nvml /\ once' = o /\ calls' = [c EXCEPT ![t] = Tail(c[t])]
    BY <1>o, <1>6 DEF nvml_call, At, Do
  <2>2. \A g : Head(c[t]) # End(g)
    BY <2>1, ItemsAre
  <2> QED
    BY <1>t, <2>1, <2>2
<1>7. ASSUME NEW t \in Threads, fork(t) PROVE OnceInv'
  <2>1. DOMAIN once' = Flags /\ DOMAIN calls' = Threads /\ \A u \in Threads : calls'[u] = <<>>
    BY <1>7 DEF fork
  <2>2. \A f \in Flags : once'[f] \in {"no", "done"}
    BY <1>7 DEF fork
  <2>3. OnceOk(once', calls')
    BY <1>n, <2>1, <2>2, CallsNested DEF OnceOk
  <2> QED
    BY <1>q, <2>3
<1>8. ASSUME NEW t \in Threads, NEW n \in NextSymbols, dlsym_next(t, n) \/ dlsym_next_repeated(t, n) PROVE OnceInv'
  BY <1>s, <1>8 DEF dlsym_next, dlsym_next_repeated
<1>9. ASSUME NEW f \in LookupNames \cup {"dlsym"}, NEW n \in Lookups, NEW v \in Versions, lookup(f, n, v) PROVE OnceInv'
  BY <1>s, <1>9 DEF lookup
<1>10. CASE UNCHANGED vars
  BY <1>s, <1>10 DEF vars, onceVars
<1> QED
  BY <1>1, <1>2, <1>3, <1>4, <1>5, <1>6, <1>7, <1>8, <1>9, <1>10 DEF Next

LEMMA OnceAlways == Spec => []OnceInv
  BY OnceInit, OnceStep, PTL DEF Spec

(* A thread that waits for a flag is waited for only at a lower level. *)
LEMMA NoCircle == OnceInv => NoDeadlock
<1> SUFFICES ASSUME OnceInv, NEW S \in (SUBSET Threads) \ {{}},
                    \A t \in S : \E f \in Flags : At(t, Once(f)) /\ once[f] \in S
             PROVE  FALSE
  BY DEF NoDeadlock
<1>1. ASSUME NEW f \in Flags, once[f] \in S
      PROVE  \E g \in Flags : once[g] \in S /\ Level[g] > Level[f]
  <2>1. PICK u : u = once[f]
    OBVIOUS
  <2>2. u \in S /\ u \in Threads /\ Nested(calls[u]) /\ Ends(calls[u], f)
    BY <1>1, <2>1 DEF OnceInv, OnceOk
  <2>3. PICK g \in Flags : At(u, Once(g)) /\ once[g] \in S
    BY <2>2
  <2>4. PICK s : s = calls[u]
    OBVIOUS
  <2>5. Nested(s) /\ s \in Seq(Items) /\ s # <<>> /\ Head(s) = Once(g)
    BY <2>2, <2>3, <2>4 DEF At, Nested
  <2>6. PICK j \in 1 .. Len(s) : s[j] = End(f)
    BY <2>2, <2>4 DEF Ends
  <2>7. Len(s) \in Nat /\ s[1] = Once(g)
    BY <2>5
  <2>8. j # 1
    BY <2>6, <2>7, ItemsAre
  <2>9. 1 \in 1 .. Len(s) /\ 1 < j /\ s[j][1] = "end"
    BY <2>6, <2>7, <2>8, ItemsAre
  <2>10. LevelOf(s[1]) > LevelOf(s[j])
    BY <2>5, <2>6, <2>9 DEF Nested
  <2> QED
    BY <2>3, <2>6, <2>7, <2>10, ItemsAre
<1>0. S # {}
  OBVIOUS
<1>2. PICK t : t \in S
  BY ONLY <1>0, Zenon
<1>3. PICK f \in Flags : once[f] \in S
  BY <1>2
<1>4. PICK g \in Flags : once[g] \in S /\ Level[g] > Level[f]
  BY <1>1, <1>3
<1>5. PICK h \in Flags : once[h] \in S /\ Level[h] > Level[g]
  BY <1>1, <1>4
<1>6. PICK k \in Flags : once[k] \in S /\ Level[k] > Level[h]
  BY <1>1, <1>5
<1>7. Level[f] \in 1 .. 3 /\ Level[g] \in 1 .. 3 /\ Level[h] \in 1 .. 3 /\ Level[k] \in 1 .. 3
  BY ItemsAre
<1> QED
  BY <1>4, <1>5, <1>6, <1>7

(* No set of threads waits for its own initialisers (libvgpu.c:124,          *)
(* pthread_once in libvgpu.c, nvml/hook.c and                                *)
(* multiprocess_memory_limit.c), for any number of threads, calls and forks. *)
THEOREM InitialisersCannotDeadlock == Spec => []NoDeadlock
  BY OnceAlways, NoCircle, PTL

(* NVML is loaded, or is going to be, before what needs it. *)
Loads == {Once("init_virtual_map_pre_flag"), End("init_virtual_map_pre_flag")}
Needs == {Nvml, Once("init_virtual_map_post_flag")}

Ready(s) == \A j \in 1 .. Len(s) : s[j] \in Needs => \E i \in 1 .. Len(s) : i < j /\ s[i] \in Loads

LoadInv == nvml = "done" \/ skipped \/ \A t \in Threads : Ready(calls[t])

LEMMA LoadsAre ==
  /\ \A f \in Flags : f # "init_virtual_map_pre_flag" => Once(f) \notin Loads /\ End(f) \notin Loads
  /\ \A f \in Flags : f # "init_virtual_map_post_flag" => Once(f) \notin Needs
  /\ \A f : End(f) \notin Needs
  /\ Nvml \notin Loads /\ Nvml \in Needs
  /\ "init_virtual_map_pre_flag" \in Flags /\ "init_virtual_map_post_flag" \in Flags
<1>1. "init_virtual_map_pre_flag" \in Flags /\ "init_virtual_map_post_flag" \in Flags
  BY DEF Flags
<1>2. \A f, g \in Flags : f # g => Once(f) # Once(g) /\ End(f) # End(g)
  BY ItemsAre
<1>3. \A f, g : Once(f) # End(g) /\ Nvml # Once(f) /\ Nvml # End(f)
  BY ItemsAre
<1> QED
  BY <1>1, <1>2, <1>3 DEF Loads, Needs

(* A sequence that begins by loading NVML. *)
LEMMA ReadyStarts ==
  ASSUME NEW r \in Seq(Items), r # <<>>, r[1] \in Loads, r[1] \notin Needs
  PROVE  Ready(r)
  BY DEF Ready

(* A sequence that needs NVML nowhere. *)
LEMMA ReadyFree ==
  ASSUME NEW r, \A j \in 1 .. Len(r) : r[j] \notin Needs
  PROVE  Ready(r)
  BY DEF Ready

LEMMA ReadyTail ==
  ASSUME NEW s \in Seq(Items), s # <<>>, Ready(s), Head(s) \notin Loads
  PROVE  Ready(Tail(s))
<1>1. PICK r : r = Tail(s)
  OBVIOUS
<1>2. /\ Len(s) \in Nat /\ Len(r) = Len(s) - 1 /\ s[1] \notin Loads
      /\ \A i \in 1 .. (Len(s) - 1) : r[i] = s[i + 1]
  BY <1>1
<1>3. ASSUME NEW j \in 1 .. Len(r), r[j] \in Needs PROVE \E i \in 1 .. Len(r) : i < j /\ r[i] \in Loads
  <2>1. j + 1 \in 1 .. Len(s) /\ s[j + 1] \in Needs
    BY <1>2, <1>3
  <2>2. PICK i \in 1 .. Len(s) : i < j + 1 /\ s[i] \in Loads
    BY <2>1 DEF Ready
  <2>3. i # 1
    BY <1>2, <2>2
  <2>4. i - 1 \in 1 .. Len(r) /\ i - 1 < j /\ r[i - 1] = s[i]
    BY <1>2, <2>2, <2>3
  <2> QED
    BY <2>2, <2>4
<1>4. Ready(r)
  BY <1>3 DEF Ready
<1> QED
  BY <1>1, <1>4

(* Beginning an initialiser that does not need NVML. *)
LEMMA ReadyBegins ==
  ASSUME NEW f \in Flags, NEW s \in Seq(Items), NEW b \in Seq(Inner(f)), s # <<>>, Ready(s), s[1] \notin Loads,
         \A i \in 1 .. Len(b) : b[i] \notin Needs
  PROVE  Ready(Begun(f, b, s))
<1>1. PICK r : r = Begun(f, b, s)
  OBVIOUS
<1>2. Spliced(r, f, b, s)
  BY <1>1, BegunIs
<1>3. PICK m \in Nat : m = Len(b)
  OBVIOUS
<1>4. /\ r \in Seq(Items) /\ Len(r) = m + Len(s) /\ Len(s) \in Nat
      /\ \A i \in 1 .. m : r[i] \notin Needs
      /\ r[m + 1] \notin Needs
      /\ \A i \in 2 .. Len(s) : r[m + i] = s[i]
  BY <1>2, <1>3, LoadsAre DEF Spliced
<1>5. ASSUME NEW j \in 1 .. Len(r), r[j] \in Needs PROVE \E i \in 1 .. Len(r) : i < j /\ r[i] \in Loads
  <2>1. j > m + 1
    BY <1>4, <1>5
  <2>2. PICK l \in 2 .. Len(s) : j = m + l
    <3>1. j - m \in 2 .. Len(s) /\ j = m + (j - m)
      BY <1>4, <2>1
    <3> QED
      BY <3>1
  <2>3. l \in 1 .. Len(s) /\ s[l] \in Needs
    BY <1>4, <1>5, <2>2
  <2>4. PICK i \in 1 .. Len(s) : i < l /\ s[i] \in Loads
    BY <2>3 DEF Ready
  <2>5. i # 1
    BY <2>4
  <2>6. m + i \in 1 .. Len(r) /\ m + i < j /\ r[m + i] = s[i]
    BY <1>4, <2>2, <2>4, <2>5
  <2> QED
    BY <2>4, <2>6
<1>6. Ready(r)
  BY <1>5 DEF Ready
<1> QED
  BY <1>1, <1>6

(* Beginning one that loads NVML first: nvml_preInit, or postInit with       *)
(* set_task_pid.                                                             *)
LEMMA ReadyLoads ==
  ASSUME NEW s \in Seq(Items), s # <<>>,
         NEW f \in {"init_virtual_map_pre_flag", "post_cuinit_flag"}
  PROVE  Ready(Begun(f, Body(f, TRUE), s))
<1>0. f \in Flags
  BY DEF Flags
<1>1. PICK b : b = Body(f, TRUE)
  OBVIOUS
<1>2. PICK r : r = Begun(f, b, s)
  OBVIOUS
<1>b. b \in Seq(Inner(f))
  BY <1>0, <1>1, BodyIsInner
<1>3. Spliced(r, f, b, s)
  BY <1>0, <1>b, <1>2, BegunIs
<1>4. CASE f = "init_virtual_map_pre_flag"
  <2>1. b = <<Once("init_status"), Once("dl_load_lock")>>
    BY <1>1, <1>4 DEF Body, nvml_preInit
  <2>2. Len(b) = 2 /\ b[1] = Once("init_status") /\ b[2] = Once("dl_load_lock")
    BY <2>1
  <2>3. b[1] \notin Needs /\ b[2] \notin Needs
    BY <2>2, LoadsAre DEF Flags
  <2>4. /\ r \in Seq(Items) /\ Len(s) \in Nat /\ Len(s) >= 1 /\ Len(r) = 2 + Len(s)
        /\ r[1] = b[1] /\ r[2] = b[2] /\ r[3] = End(f)
    BY <1>3, <2>2 DEF Spliced
  <2>5. r[3] \in Loads /\ r[3] \notin Needs
    BY <1>4, <2>4, LoadsAre DEF Loads
  <2>6. ASSUME NEW j \in 1 .. Len(r), r[j] \in Needs PROVE 3 \in 1 .. Len(r) /\ 3 < j
    BY <2>3, <2>4, <2>5, <2>6
  <2>7. Ready(r)
    BY <2>5, <2>6 DEF Ready
  <2> QED
    BY <1>1, <1>2, <2>7
<1>5. CASE f = "post_cuinit_flag"
  <2>1. b = set_task_pid \o init_utilization_watcher
    BY <1>1, <1>5 DEF Body, postInit
  <2>2. set_task_pid \in Seq(Items) /\ init_utilization_watcher \in Seq(Items) /\ set_task_pid # <<>>
        /\ set_task_pid[1] = Once("init_virtual_map_pre_flag")
    <3>1. Once("init_virtual_map_pre_flag") \in Items /\ Once("init_virtual_map_post_flag") \in Items /\ Nvml \in Items /\ Once("init_status") \in Items
      BY ItemsAre DEF Flags
    <3>2. nvmlInit \in Seq(Items) /\ <<Nvml, Once("init_status")>> \in Seq(Items) /\ <<Nvml>> \in Seq(Items)
      BY <3>1 DEF nvmlInit
    <3>3. Len(nvmlInit) = 3 /\ nvmlInit[1] = Once("init_virtual_map_pre_flag")
      BY DEF nvmlInit
    <3>4. set_task_pid \in Seq(Items) /\ Len(set_task_pid) = Len(nvmlInit) + Len(<<Nvml, Once("init_status")>>) /\ set_task_pid[1] = nvmlInit[1]
      <4>1. 1 \in 1 .. Len(nvmlInit)
        BY <3>3
      <4> QED
        BY <3>2, <4>1, ConcatIs DEF set_task_pid
    <3>5. Len(<<Nvml, Once("init_status")>>) = 2
      OBVIOUS
    <3>6. set_task_pid # <<>>
      BY <3>3, <3>4, <3>5
    <3>7. init_utilization_watcher \in Seq(Items)
      <4>1. \A x, y \in Seq(Items) : x \o y \in Seq(Items)
        OBVIOUS
      <4> QED
        BY <3>2, <4>1 DEF init_utilization_watcher
    <3> QED
      BY <3>3, <3>4, <3>6, <3>7
  <2>3. Len(b) = Len(set_task_pid) + Len(init_utilization_watcher) /\ b[1] = set_task_pid[1]
    <3>1. 1 \in 1 .. Len(set_task_pid)
      BY <2>2
    <3> QED
      BY <2>1, <2>2, <3>1, ConcatIs
  <2>4. 1 \in 1 .. Len(b)
    BY <2>2, <2>3
  <2>5. r \in Seq(Items) /\ r[1] = b[1] /\ Len(r) = Len(b) + Len(s)
    BY <1>3, <2>4 DEF Spliced
  <2>6. r # <<>>
    BY <1>b, <2>4, <2>5
  <2>7. r[1] \in Loads /\ r[1] \notin Needs
    BY <2>2, <2>3, <2>5, LoadsAre DEF Loads
  <2>8. Ready(r)
    BY <2>5, <2>6, <2>7, ReadyStarts
  <2> QED
    BY <1>1, <1>2, <2>8
<1> QED
  BY <1>4, <1>5

(* The initialisers that do not need NVML. *)
LEMMA BodyIsFree ==
  ASSUME NEW f \in {"pre_cuinit_flag", "init_status", "dl_load_lock"}, NEW locked \in BOOLEAN
  PROVE  \A i \in 1 .. Len(Body(f, locked)) : Body(f, locked)[i] \notin Needs
<1>1. Once("dl_load_lock") \notin Needs /\ Once("init_status") \notin Needs
  BY LoadsAre DEF Flags
<1>2. CASE f = "pre_cuinit_flag"
  BY <1>1, <1>2 DEF Body, preInit
<1>3. CASE f = "init_status"
  BY <1>3 DEF Body
<1>4. CASE f = "dl_load_lock"
  <2>1. constructors = <<>>
    BY DEF constructors, NeedsPreInit
  <2> QED
    BY <1>4, <2>1 DEF Body
<1> QED
  BY <1>2, <1>3, <1>4

LEMMA CallsReady ==
  /\ \A c \in ApiCalls : Ready(c)
  /\ Ready(utilization_watcher)
  /\ Ready(<<>>)
<1>1. /\ Once("dl_load_lock") \notin Needs /\ Once("init_status") \notin Needs
      /\ Once("pre_cuinit_flag") \notin Needs /\ Once("post_cuinit_flag") \notin Needs
  BY LoadsAre DEF Flags
<1>2. Once("init_virtual_map_pre_flag") \in Loads /\ Once("init_virtual_map_pre_flag") \notin Needs
  BY LoadsAre DEF Loads
<1>3. Ready(dlsym_cu)
  BY <1>1, ReadyFree DEF dlsym_cu
<1>4. Ready(cuInit)
  BY <1>1, ReadyFree DEF cuInit
<1>5. Ready(<<Once("init_status")>>) /\ Ready(<<Once("dl_load_lock")>>) /\ Ready(<<>>)
  <2>1. PICK x, y : x = Once("init_status") /\ y = Once("dl_load_lock")
    OBVIOUS
  <2>2. \A j \in 1 .. Len(<<x>>) : <<x>>[j] \notin Needs
    BY <1>1, <2>1
  <2>3. \A j \in 1 .. Len(<<y>>) : <<y>>[j] \notin Needs
    BY <1>1, <2>1
  <2>4. \A j \in 1 .. Len(<<>>) : <<>>[j] \notin Needs
    OBVIOUS
  <2> QED
    BY <2>1, <2>2, <2>3, <2>4, ReadyFree
<1>6. nvmlInit \in Seq(Items) /\ nvmlInit # <<>> /\ nvmlInit[1] = Once("init_virtual_map_pre_flag") /\ Len(nvmlInit) = 3
      /\ <<Nvml, Once("init_status")>> \in Seq(Items)
  <2>1. Once("init_virtual_map_pre_flag") \in Items /\ Once("init_virtual_map_post_flag") \in Items /\ Nvml \in Items /\ Once("init_status") \in Items
    BY ItemsAre DEF Flags
  <2> QED
    BY <2>1 DEF nvmlInit
<1>7. Ready(nvmlInit)
  BY <1>2, <1>6, ReadyStarts
<1>8. Ready(utilization_watcher)
  <2>0. 1 \in 1 .. Len(nvmlInit) /\ Len(<<Nvml, Once("init_status")>>) = 2
    BY <1>6
  <2>1. utilization_watcher \in Seq(Items) /\ utilization_watcher[1] = nvmlInit[1] /\ Len(utilization_watcher) = Len(nvmlInit) + Len(<<Nvml, Once("init_status")>>)
    BY <1>6, <2>0, ConcatIs DEF utilization_watcher
  <2>2. utilization_watcher # <<>>
    BY <1>6, <2>0, <2>1
  <2> QED
    BY <1>2, <1>6, <2>1, <2>2, ReadyStarts
<1> QED
  BY <1>3, <1>4, <1>5, <1>7, <1>8 DEF ApiCalls

LEMMA LoadInit == Init => LoadInv
<1> SUFFICES ASSUME Init PROVE LoadInv
  OBVIOUS
<1>1. calls = [t \in Threads |-> <<>>]
  BY DEF Init
<1> QED
  BY <1>1, CallsReady DEF LoadInv

LEMMA LoadStep == OnceInv /\ LoadInv /\ [Next]_vars => LoadInv'
<1> SUFFICES ASSUME OnceInv, LoadInv, [Next]_vars PROVE LoadInv'
  OBVIOUS
<1>0. /\ DOMAIN once = Flags /\ DOMAIN calls = Threads
      /\ \A t \in Threads : Nested(calls[t]) /\ calls[t] \in Seq(Items)
  BY DEF OnceInv, OnceOk, Nested
<1>p. nvml = once["init_virtual_map_pre_flag"] /\ nvml' = once'["init_virtual_map_pre_flag"]
  BY DEF nvml
<1>a. ASSUME nvml' = "done" \/ skipped' PROVE LoadInv'
  BY <1>a DEF LoadInv
<1>r. ASSUME NEW t \in Threads, NEW r, Ready(r), calls' = [calls EXCEPT ![t] = r], \A u \in Threads : Ready(calls[u]) PROVE LoadInv'
  <2>1. \A u \in Threads : calls'[u] = IF u = t THEN r ELSE calls[u]
    BY <1>0, <1>r
  <2>2. \A u \in Threads : Ready(calls'[u])
    BY <1>r, <2>1
  <2> QED
    BY <2>2 DEF LoadInv
<1>d. ASSUME nvml = "done", nvml' = nvml PROVE LoadInv'
  BY <1>a, <1>d
<1>s. CASE UNCHANGED onceVars
  <2>1. UNCHANGED <<once, calls, skipped>>
    BY <1>s DEF onceVars
  <2> QED
    BY <2>1 DEF LoadInv, nvml
<1>1. ASSUME NEW t \in Threads, NEW c \in MadeIn(scope), api_call(t, c) PROVE LoadInv'
  <2>1. c \in ApiCalls
    BY DEF MadeIn, ApiCalls
  <2>2. calls' = [calls EXCEPT ![t] = c] /\ once' = once /\ skipped' = skipped
    BY <1>1 DEF api_call, Do
  <2>3. Ready(c)
    BY <2>1, CallsReady
  <2> QED
    BY <1>a, <1>p, <1>r, <2>2, <2>3 DEF LoadInv
<1>2. ASSUME NEW t \in Threads, watcher_start(t) PROVE LoadInv'
  <2>2. calls' = [calls EXCEPT ![t] = utilization_watcher] /\ once' = once /\ skipped' = skipped
    BY <1>2 DEF watcher_start, Do
  <2> QED
    BY <1>a, <1>p, <1>r, <2>2, CallsReady DEF LoadInv
<1>3. ASSUME NEW t \in Threads, NEW f \in Flags, NEW locked \in BOOLEAN, once_begin(t, f, locked) PROVE LoadInv'
  <2>0. PICK s : s = calls[t]
    OBVIOUS
  <2>1. s \in Seq(Items) /\ s # <<>> /\ Head(s) = Once(f) /\ s[1] = Once(f) /\ Len(s) \in Nat /\ 1 \in 1 .. Len(s)
    <3>1. s \in Seq(Items) /\ s # <<>> /\ Head(s) = Once(f)
      BY <1>0, <1>3, <2>0 DEF once_begin, At
    <3> QED
      BY <3>1
  <2>2. calls' = [calls EXCEPT ![t] = Begun(f, Body(f, locked), s)] /\ once' = [once EXCEPT ![f] = t] /\ once[f] = "no"
    BY <1>3, <2>0 DEF once_begin, Do, Begun
  <2>3. skipped => skipped'
    BY <1>3, Zenon DEF once_begin
  <2>4. CASE nvml = "done"
    <3>1. f # "init_virtual_map_pre_flag"
      BY <1>p, <2>2, <2>4
    <3>2. nvml' = nvml
      BY <1>0, <1>p, <2>2, <3>1, LoadsAre
    <3> QED
      BY <1>d, <2>4, <3>2
  <2>5. CASE skipped
    BY <1>a, <2>3, <2>5, Zenon
  <2>6. CASE \A u \in Threads : Ready(calls[u])
    <3>0. Ready(s)
      BY <2>0, <2>6
    <3>1. CASE f = "init_virtual_map_post_flag"
      <4>1. s[1] \in Needs
        BY <2>1, <3>1 DEF Needs
      <4>2. \E i \in 1 .. Len(s) : i < 1 /\ s[i] \in Loads
        BY <2>1, <3>0, <4>1 DEF Ready
      <4> QED
        BY <2>1, <4>2
    <3>2. CASE f = "post_cuinit_flag" /\ ~locked
      <4>1. skipped'
        BY <1>3, <3>2, Zenon DEF once_begin
      <4> QED
        BY <1>a, <4>1, Zenon
    <3>3. CASE f = "init_virtual_map_pre_flag" \/ (f = "post_cuinit_flag" /\ locked)
      <4>1. Body(f, locked) = Body(f, TRUE)
        BY <3>3 DEF Body
      <4>2. Ready(Begun(f, Body(f, TRUE), s))
        BY <2>1, <3>3, ReadyLoads
      <4> QED
        BY <1>r, <2>2, <2>6, <4>1, <4>2
    <3>4. CASE f \in {"pre_cuinit_flag", "init_status", "dl_load_lock"}
      <4>1. \A i \in 1 .. Len(Body(f, locked)) : Body(f, locked)[i] \notin Needs
        BY <3>4, BodyIsFree
      <4>2. s[1] \notin Loads
        BY <2>1, <3>4, LoadsAre
      <4>3. Body(f, locked) \in Seq(Inner(f))
        BY BodyIsInner
      <4>4. Ready(Begun(f, Body(f, locked), s))
        BY <2>1, <3>0, <4>1, <4>2, <4>3, ReadyBegins
      <4> QED
        BY <1>r, <2>2, <2>6, <4>4
    <3> QED
      BY <3>1, <3>2, <3>3, <3>4 DEF Flags
  <2> QED
    BY <2>4, <2>5, <2>6, Zenon DEF LoadInv
<1>t. ASSUME NEW t \in Threads, calls[t] # <<>>, Head(calls[t]) \notin Loads, calls' = [calls EXCEPT ![t] = Tail(calls[t])],
             nvml' = nvml, skipped' = skipped
      PROVE  LoadInv'
  <2>1. CASE \A u \in Threads : Ready(calls[u])
    <3>1. Ready(Tail(calls[t]))
      BY <1>0, <1>t, <2>1, ReadyTail
    <3> QED
      BY <1>r, <1>t, <2>1, <3>1
  <2>2. CASE nvml = "done"
    BY <1>d, <1>t, <2>2
  <2>3. CASE skipped
    BY <1>a, <1>t, <2>3, Zenon
  <2> QED
    BY <2>1, <2>2, <2>3, Zenon DEF LoadInv
<1>4. ASSUME NEW t \in Threads, NEW f \in Flags, once_passed(t, f) PROVE LoadInv'
  <2>1. calls[t] # <<>> /\ Head(calls[t]) = Once(f) /\ once[f] = "done" /\ once' = once /\ skipped' = skipped
        /\ calls' = [calls EXCEPT ![t] = Tail(calls[t])]
    BY <1>4 DEF once_passed, At, Do
  <2>2. CASE f = "init_virtual_map_pre_flag"
    BY <1>d, <1>p, <2>1, <2>2
  <2>3. CASE f # "init_virtual_map_pre_flag"
    BY <1>p, <1>t, <2>1, <2>3, LoadsAre
  <2> QED
    BY <2>2, <2>3
<1>5. ASSUME NEW t \in Threads, NEW f \in Flags, once_end(t, f) PROVE LoadInv'
  <2>1. calls[t] # <<>> /\ Head(calls[t]) = End(f) /\ skipped' = skipped
        /\ once' = [once EXCEPT ![f] = IF f = "dl_load_lock" THEN "no" ELSE "done"]
        /\ calls' = [calls EXCEPT ![t] = Tail(calls[t])]
    BY <1>5 DEF once_end, At, Do
  <2>2. CASE f = "init_virtual_map_pre_flag"
    BY <1>0, <1>a, <1>p, <2>1, <2>2
  <2>3. CASE f # "init_virtual_map_pre_flag"
    <3>1. nvml' = nvml
      BY <1>0, <1>p, <2>1, <2>3, LoadsAre
    <3>2. Head(calls[t]) \notin Loads
      BY <2>1, <2>3, LoadsAre
    <3> QED
      BY <1>t, <2>1, <3>1, <3>2
  <2> QED
    BY <2>2, <2>3
<1>6. ASSUME NEW t \in Threads, nvml_call(t) PROVE LoadInv'
  <2>1. calls[t] # <<>> /\ Head(calls[t]) = Nvml /\ once' = once /\ skipped' = skipped
        /\ calls' = [calls EXCEPT ![t] = Tail(calls[t])]
    BY <1>6 DEF nvml_call, At, Do
  <2> QED
    BY <1>p, <1>t, <2>1, LoadsAre
<1>7. ASSUME NEW t \in Threads, fork(t) PROVE LoadInv'
  <2>1. \A u \in Threads : calls'[u] = <<>>
    BY <1>7 DEF fork
  <2> QED
    BY <2>1, CallsReady DEF LoadInv
<1>8. ASSUME NEW t \in Threads, NEW n \in NextSymbols, dlsym_next(t, n) \/ dlsym_next_repeated(t, n) PROVE LoadInv'
  BY <1>s, <1>8 DEF dlsym_next, dlsym_next_repeated
<1>9. ASSUME NEW f \in LookupNames \cup {"dlsym"}, NEW n \in Lookups, NEW v \in Versions, lookup(f, n, v) PROVE LoadInv'
  BY <1>s, <1>9 DEF lookup
<1>10. CASE UNCHANGED vars
  BY <1>s, <1>10 DEF vars, onceVars
<1> QED
  BY <1>1, <1>2, <1>3, <1>4, <1>5, <1>6, <1>7, <1>8, <1>9, <1>10 DEF Next

(* A thread that is at a call to NVML has nothing left to load it with. *)
LEMMA LoadedAtCall == OnceInv /\ LoadInv => NvmlLoaded
<1> SUFFICES ASSUME OnceInv, LoadInv, NEW t \in Threads, At(t, Nvml), ~(nvml = "done"), ~skipped PROVE FALSE
  BY Zenon DEF NvmlLoaded
<1>1. PICK s : s = calls[t]
  OBVIOUS
<1>2. s \in Seq(Items) /\ s # <<>> /\ Head(s) = Nvml
  BY <1>1 DEF OnceInv, OnceOk, Nested, At
<1>3. Len(s) \in Nat /\ 1 \in 1 .. Len(s) /\ s[1] = Nvml
  BY <1>2
<1>4. Ready(s)
  BY <1>1, Zenon DEF LoadInv
<1>5. \E i \in 1 .. Len(s) : i < 1 /\ s[i] \in Loads
  BY <1>3, <1>4, LoadsAre DEF Ready
<1> QED
  BY <1>3, <1>5

(* libvgpu calls NVML through its table only after nvml_preInit has filled   *)
(* it, unless postInit did without set_task_pid: for any number of threads,  *)
(* calls and forks.                                                          *)
THEOREM NvmlIsLoadedBeforeUse == Spec => []NvmlLoaded
<1>1. Spec => [](OnceInv /\ LoadInv)
  BY OnceInit, OnceStep, LoadInit, LoadStep, PTL DEF Spec
<1> QED
  BY <1>1, LoadedAtCall, PTL
=============================================================================
