--------------------------- MODULE AccountsProofs ---------------------------
(***************************************************************************)
(* Proofs about module Accounts, for any threads, devices, limits, sizes,  *)
(* addresses, granules and orders of the devices.                          *)
(***************************************************************************)
EXTENDS Accounts, SumProofs

-----------------------------------------------------------------------------
(* The inductive invariant *)

Block == [addr : Addrs, dev : Devs, size : Sizes, pool : Devs \cup {NoPool}]
Entry == [addr : Addrs, len : Nat]

Types ==
    /\ map \in [Devs -> Devs] /\ visible \in Maps /\ limit \in [Devs -> Nat]
    /\ context \in [Devs -> 0 .. Word - 1] /\ data \in [Devs -> 0 .. Word - 1]
    /\ other \in [Devs -> Nat]
    /\ context_size \in {0, ContextSize}
    /\ ctx_activate \in [Devs -> {0, 1}] /\ refs \in [Devs -> Nat]
    /\ cur \in [Threads -> Devs] /\ on \in [Threads -> Devs]
    /\ pc \in [Threads -> {"idle", "retain", "release"}]
    /\ alimit \in Int /\ high \in [Devs -> Nat]
    /\ blocks \subseteq Block /\ IsFiniteSet(blocks)
    /\ list \subseteq Entry /\ IsFiniteSet(list)

(* Before postInit nothing is charged; from then on the map stays, and tells *)
(* the devices apart.                                                        *)
Opening ==
    /\ ~started =>
         /\ context_size = 0 /\ list = {} /\ blocks = {} /\ alimit = 0
         /\ \A d \in Devs : context[d] = 0 /\ data[d] = 0 /\ ctx_activate[d] = 0 /\ refs[d] = 0
         /\ \A t \in Threads : pc[t] = "idle"
    /\ started => nvml /\ \A d, e \in Devs : map[d] = map[e] => d = e

(* The entry and the block of an address belong together.                    *)
Matched ==
    /\ \A b, c \in blocks : b.addr = c.addr => b = c
    /\ \A e, f \in list : e.addr = f.addr => e = f
    /\ \A e \in list : \E b \in blocks : b.addr = e.addr /\ e.len <= b.size
    /\ \A d \in Devs : LiveOn(d) <= Physical

(* What the entries for the blocks of a device add up to.                    *)
OnDevice(es, bs, d) == {e \in es : \E b \in bs : b.addr = e.addr /\ b.dev = d}
LenOf(es) == SumOf([e \in es |-> e.len])
Charged(d) == LenOf(OnDevice(list, blocks, d))

(* The account of a device is what its entries add up to, and an account     *)
(* that no device has is empty.                                              *)
DataIs ==
    started /\ foul \cap {"switched", "uncharged"} = {} =>
        /\ \A d \in Devs : data[map[d]] = Charged(d) % Word
        /\ \A n \in Devs : (\A d \in Devs : map[d] # n) => data[n] = 0

(* What leaves a block without its charge.                                   *)
Trouble == {"multi", "switched", "poolfail", "freefail", "uncharged", "elsewhere"}

(* Without trouble every block is charged in full, all are on one device and *)
(* from its pool, and the running total is what they add up to.              *)
InFull ==
    foul \cap Trouble = {} =>
        /\ \A b \in blocks : \E e \in list : e.addr = b.addr /\ e.len = b.size
        /\ \A b, c \in blocks : b.dev = c.dev
        /\ \A b \in blocks : b.pool = b.dev
        /\ alimit = SizeOf(blocks)

(* Calls for a device that do not overlap: its account says what the flag    *)
(* says, or will say when the call in the middle of it has ended.            *)
OneCall ==
    "raced" \notin foul =>
        /\ \A t, u \in Threads : pc[t] # "idle" /\ pc[u] # "idle" /\ on[t] = on[u] => t = u
        /\ \A d \in Devs : ~Midway(d) =>
             context[map[d]] = IF ctx_activate[d] = 1 THEN context_size ELSE 0
        /\ \A t \in Threads :
             /\ pc[t] = "retain" => context[map[on[t]]] = context_size
             /\ pc[t] = "release" => context[map[on[t]]] = 0
        /\ \A n \in Devs : (\A d \in Devs : map[d] # n) => context[n] = 0
        /\ \A d \in Devs : ctx_activate[d] = 1 => context_size > 0

(* The flag follows the driver's count as long as that is 0 or 1 when a      *)
(* context is released.                                                      *)
FlagIs ==
    context_size > 0 /\ foul \cap {"failed", "raced", "nested"} = {} =>
        /\ \A d \in Devs : ~Midway(d) => (ctx_activate[d] = 1 <=> refs[d] > 0)
        /\ \A t \in Threads :
             /\ pc[t] = "retain" => refs[on[t]] > 0
             /\ pc[t] = "release" => refs[on[t]] = 1

PoolInv == Matched /\ DataIs /\ InFull
ContextInv == OneCall /\ FlagIs
AccountsInv == Types /\ Opening /\ PoolInv /\ ContextInv

-----------------------------------------------------------------------------
(* Operators *)

(* The larger and the smaller of two numbers. *)
LEMMA MaxTwo ==
  ASSUME NEW a \in Int, NEW b \in Int
  PROVE  Max({a, b}) = IF a >= b THEN a ELSE b
<1>1. \E x \in {a, b} : \A y \in {a, b} : x >= y
  OBVIOUS
<1>2. Max({a, b}) \in {a, b} /\ \A y \in {a, b} : Max({a, b}) >= y
  BY <1>1 DEF Max
<1> QED
  BY <1>2

(* Likewise. *)
LEMMA MinTwo ==
  ASSUME NEW a \in Int, NEW b \in Int
  PROVE  Min({a, b}) = IF a <= b THEN a ELSE b
<1>1. \E x \in {a, b} : \A y \in {a, b} : x =< y
  OBVIOUS
<1>2. Min({a, b}) \in {a, b} /\ \A y \in {a, b} : Min({a, b}) =< y
  BY <1>1 DEF Min
<1> QED
  BY <1>2

(* The driver reserves at least what it gives out. *)
LEMMA RoundUpIs ==
  ASSUME NEW n \in Nat
  PROVE  RoundUp(n) \in Nat /\ RoundUp(n) >= n
<1>1. Granule \in Nat \ {0}
  BY AccountsAssumption DEF AccountsAssumption
<1> DEFINE x == n + Granule - 1
           q == x \div Granule
           r == x % Granule
<1>2. x \in Int
  BY <1>1
<1>3. r \in 0 .. Granule - 1 /\ q \in Int /\ x = Granule * q + r
  <2> HIDE DEF x
  <2> QED
    BY <1>1, <1>2, RemIs
<1>4. RoundUp(n) = q * Granule
  BY DEF RoundUp
<1> HIDE DEF q, r
<1>5. q * Granule = Granule * q /\ Granule * q \in Int
  BY <1>1, <1>3
<1> QED
  BY <1>1, <1>3, <1>4, <1>5

(* Unsigned sums and differences are sizes. *)
LEMMA WordSized ==
  ASSUME NEW a \in Int, NEW b \in Int
  PROVE  Plus(a, b) \in 0 .. Word - 1 /\ Minus(a, b) \in 0 .. Word - 1
<1>1. Word \in Nat \ {0}
  BY AccountsAssumption DEF AccountsAssumption
<1>2. a + b \in Int /\ a - b \in Int
  OBVIOUS
<1> QED
  BY <1>1, <1>2, RemIs DEF Plus, Minus

(* Half the range of a size is more than a device has. *)
LEMMA Small ==
  /\ Word \in Nat \ {0} /\ Physical \in Nat /\ Physical + 1 < Word /\ Physical < Word \div 2
  /\ ContextSize \in 0 .. Physical /\ ContextSize \in 0 .. Word - 1 /\ 0 \in 0 .. Word - 1
<1> DEFINE h == Word \div 2
<1>1. Word \in Nat \ {0} /\ Physical \in Nat /\ Physical < h /\ ContextSize \in 0 .. Physical
  BY AccountsAssumption DEF AccountsAssumption
<1>2. h \in Int /\ 2 * h <= Word
  BY <1>1
<1> HIDE DEF h
<1>3. Physical + 1 < Word
  BY <1>1, <1>2
<1> QED
  BY <1>1, <1>3 DEF h

(* A block more, and a block less. *)
LEMMA SizeOfBlocks ==
  ASSUME NEW bs \in SUBSET Block, IsFiniteSet(bs)
  PROVE  /\ SizeOf(bs) \in Nat
         /\ \A b \in Block \ bs : SizeOf(bs \cup {b}) = SizeOf(bs) + b.size
<1>1. \A b \in Block : b.size \in Nat
  BY AccountsAssumption DEF Block, AccountsAssumption
<1> DEFINE w == [b \in bs |-> b.size]
<1>2. w \in [bs -> Nat]
  BY <1>1
<1>3. SizeOf(bs) = SumOf(w)
  BY DEF SizeOf
<1>4. SizeOf(bs) \in Nat
  <2> HIDE DEF w
  <2> QED
    BY <1>2, <1>3, SumNat
<1>5. ASSUME NEW b \in Block \ bs PROVE SizeOf(bs \cup {b}) = SizeOf(bs) + b.size
  <2> DEFINE v == [c \in bs \cup {b} |-> c.size]
  <2>1. v \in [bs \cup {b} -> Nat] /\ v[b] = b.size
    BY <1>1
  <2>2. SizeOf(bs \cup {b}) = SumOf(v) /\ [c \in bs |-> v[c]] = w
    BY DEF SizeOf
  <2> HIDE DEF v, w
  <2>3. SumOf(v) = v[b] + SumOf([c \in bs |-> v[c]])
    BY <2>1, SumAdd
  <2> QED
    BY <1>1, <1>3, <1>4, <2>1, <2>2, <2>3
<1> QED
  BY <1>4, <1>5

(* The same for entries. *)
LEMMA LenOfEntries ==
  ASSUME NEW es \in SUBSET Entry, IsFiniteSet(es)
  PROVE  /\ LenOf(es) \in Nat
         /\ \A e \in Entry \ es : LenOf(es \cup {e}) = LenOf(es) + e.len
<1>1. \A e \in Entry : e.len \in Nat
  BY DEF Entry
<1> DEFINE w == [e \in es |-> e.len]
<1>2. w \in [es -> Nat]
  BY <1>1
<1>3. LenOf(es) = SumOf(w)
  BY DEF LenOf
<1>4. LenOf(es) \in Nat
  <2> HIDE DEF w
  <2> QED
    BY <1>2, <1>3, SumNat
<1>5. ASSUME NEW e \in Entry \ es PROVE LenOf(es \cup {e}) = LenOf(es) + e.len
  <2> DEFINE v == [c \in es \cup {e} |-> c.len]
  <2>1. v \in [es \cup {e} -> Nat] /\ v[e] = e.len
    BY <1>1
  <2>2. LenOf(es \cup {e}) = SumOf(v) /\ [c \in es |-> v[c]] = w
    BY DEF LenOf
  <2> HIDE DEF v, w
  <2>3. SumOf(v) = v[e] + SumOf([c \in es |-> v[c]])
    BY <2>1, SumAdd
  <2> QED
    BY <1>1, <1>3, <1>4, <2>1, <2>2, <2>3
<1> QED
  BY <1>4, <1>5

(* Entries with blocks at least as large add up to no more, *)
LEMMA LenAtMost ==
  ASSUME NEW es \in SUBSET Entry, NEW bs \in SUBSET Block, IsFiniteSet(bs),
         \A e, f \in es : e.addr = f.addr => e = f,
         \A e \in es : \E b \in bs : b.addr = e.addr /\ e.len <= b.size
  PROVE  LenOf(es) <= SizeOf(bs)
<1> DEFINE w == [e \in es |-> e.len]
           v == [b \in bs |-> b.size]
           f == [e \in es |-> CHOOSE b \in bs : b.addr = e.addr /\ e.len <= b.size]
<1>1. w \in [es -> Nat] /\ v \in [bs -> Nat]
  <2>1. \A e \in es : e.len \in Nat
    BY DEF Entry
  <2>2. \A b \in bs : b.size \in Nat
    BY AccountsAssumption DEF Block, AccountsAssumption
  <2> QED
    BY <2>1, <2>2
<1>2. \A e \in es : f[e] \in bs /\ f[e].addr = e.addr /\ e.len <= f[e].size
  OBVIOUS
<1>3. f \in [es -> bs]
  BY <1>2
<1>4. \A e, g \in es : f[e] = f[g] => e = g
  BY <1>2
<1>5. \A e \in es : w[e] <= v[f[e]]
  BY <1>2
<1>6. LenOf(es) = SumOf(w) /\ SizeOf(bs) = SumOf(v)
  BY DEF LenOf, SizeOf
<1> HIDE DEF w, v, f
<1>7. SumOf(w) <= SumOf(v)
  BY <1>1, <1>3, <1>4, <1>5, SumAtMost
<1> QED
  BY <1>6, <1>7

(* and blocks with entries at least as large. *)
LEMMA SizeAtMost ==
  ASSUME NEW es \in SUBSET Entry, NEW bs \in SUBSET Block, IsFiniteSet(es),
         \A b, c \in bs : b.addr = c.addr => b = c,
         \A b \in bs : \E e \in es : e.addr = b.addr /\ b.size <= e.len
  PROVE  SizeOf(bs) <= LenOf(es)
<1> DEFINE w == [e \in es |-> e.len]
           v == [b \in bs |-> b.size]
           f == [b \in bs |-> CHOOSE e \in es : e.addr = b.addr /\ b.size <= e.len]
<1>1. w \in [es -> Nat] /\ v \in [bs -> Nat]
  <2>1. \A e \in es : e.len \in Nat
    BY DEF Entry
  <2>2. \A b \in bs : b.size \in Nat
    BY AccountsAssumption DEF Block, AccountsAssumption
  <2> QED
    BY <2>1, <2>2
<1>2. \A b \in bs : f[b] \in es /\ f[b].addr = b.addr /\ b.size <= f[b].len
  OBVIOUS
<1>3. f \in [bs -> es]
  BY <1>2
<1>4. \A b, c \in bs : f[b] = f[c] => b = c
  BY <1>2
<1>5. \A b \in bs : v[b] <= w[f[b]]
  BY <1>2
<1>6. LenOf(es) = SumOf(w) /\ SizeOf(bs) = SumOf(v)
  BY DEF LenOf, SizeOf
<1> HIDE DEF w, v, f
<1>7. SumOf(v) <= SumOf(w)
  BY <1>1, <1>3, <1>4, <1>5, SumAtMost
<1> QED
  BY <1>6, <1>7

-----------------------------------------------------------------------------
(* The pool *)

(* What a new block, with or without an entry, adds to its device. *)
LEMMA PoolGrows ==
  ASSUME NEW bs \in SUBSET Block, IsFiniteSet(bs), NEW c \in Block,
         \A b \in bs : b.addr # c.addr, NEW d \in Devs
  PROVE  /\ SizeOf({b \in bs : b.dev = d}) \in Nat
         /\ SizeOf({b \in bs \cup {c} : b.dev = d})
              = SizeOf({b \in bs : b.dev = d}) + IF c.dev = d THEN c.size ELSE 0
<1> DEFINE D == {b \in bs : b.dev = d}
<1>1. D \in SUBSET Block /\ IsFiniteSet(D) /\ c \in Block \ D
  BY FS_Subset
<1> DEFINE G == {b \in bs \cup {c} : b.dev = d}
<1>2. G = IF c.dev = d THEN D \cup {c} ELSE D
  OBVIOUS
<1> HIDE DEF D, G
<1>3. SizeOf(D) \in Nat /\ SizeOf(D \cup {c}) = SizeOf(D) + c.size
  BY <1>1, SizeOfBlocks
<1>4. SizeOf(G) = SizeOf(D) + IF c.dev = d THEN c.size ELSE 0
  BY <1>2, <1>3
<1> QED
  BY <1>3, <1>4 DEF D, G

(* What freeing a block takes away. *)
LEMMA PoolShrinks ==
  ASSUME NEW bs \in SUBSET Block, IsFiniteSet(bs), NEW c \in bs,
         \A b \in bs : b.addr = c.addr => b = c, NEW d \in Devs
  PROVE  /\ {b \in bs : b.addr # c.addr} = bs \ {c}
         /\ SizeOf({b \in bs \ {c} : b.dev = d}) \in Nat
         /\ SizeOf({b \in bs : b.dev = d})
              = SizeOf({b \in bs \ {c} : b.dev = d}) + IF c.dev = d THEN c.size ELSE 0
<1> DEFINE B == bs \ {c}
<1>1. B \in SUBSET Block /\ IsFiniteSet(B) /\ c \in Block /\ (\A b \in B : b.addr # c.addr) /\ bs = B \cup {c}
  BY FS_RemoveElement
<1>2. {b \in bs : b.addr # c.addr} = B
  OBVIOUS
<1> HIDE DEF B
<1>3. /\ SizeOf({b \in B : b.dev = d}) \in Nat
      /\ SizeOf({b \in B \cup {c} : b.dev = d})
              = SizeOf({b \in B : b.dev = d}) + IF c.dev = d THEN c.size ELSE 0
  BY <1>1, PoolGrows
<1> QED
  BY <1>1, <1>2, <1>3 DEF B

(* What a pool has reserved is a number, and so is its high-water mark. *)
LEMMA ReservedNat ==
  ASSUME NEW bs \in SUBSET Block, IsFiniteSet(bs), NEW d \in Devs
  PROVE  Reserved(d, bs) \in Nat
<1> DEFINE D == {b \in bs : b.pool = d}
<1>1. D \in SUBSET Block /\ IsFiniteSet(D)
  BY FS_Subset
<1>2. Reserved(d, bs) = RoundUp(SizeOf(D))
  BY DEF Reserved
<1> HIDE DEF D
<1>3. SizeOf(D) \in Nat
  BY <1>1, SizeOfBlocks
<1> QED
  BY <1>2, <1>3, RoundUpIs

(* The pool is not touched. *)
LEMMA PoolQuiet ==
  ASSUME PoolInv, UNCHANGED <<map, data, alimit, list, blocks, started>>, foul \subseteq foul'
  PROVE  PoolInv'
<1>1. Matched'
  BY DEF PoolInv, Matched, LiveOn
<1>2. DataIs'
  BY DEF PoolInv, DataIs, Charged
<1>3. InFull'
  BY DEF PoolInv, InFull
<1> QED
  BY <1>1, <1>2, <1>3 DEF PoolInv

(* The driver gives out a block and fails to tell about its pool. *)
LEMMA PoolFails ==
  ASSUME Types, Opening, PoolInv, NEW t \in Threads, NEW size \in Sizes, NEW a \in Addrs,
         NEW pool \in Pools(cur[t]), add_chunk_async_fails(t, size, a, pool)
  PROVE  PoolInv' /\ blocks' \subseteq Block /\ IsFiniteSet(blocks') /\ high' \in [Devs -> Nat]
<1> DEFINE d == cur[t]
           c == [addr |-> a, dev |-> d, size |-> size, pool |-> pool]
<1>1. /\ d \in Devs /\ blocks \subseteq Block /\ IsFiniteSet(blocks) /\ list \subseteq Entry /\ IsFiniteSet(list)
      /\ size \in Nat /\ Physical \in Nat
  BY AccountsAssumption DEF Types, AccountsAssumption
<1>2. c \in Block /\ c.addr = a /\ c.dev = d /\ c.size = size
  BY <1>1 DEF Block, Pools
<1>3. /\ \A b \in blocks : b.addr # a
      /\ blocks' = blocks \cup {c} /\ list' = list /\ data' = data /\ map' = map /\ started' = started
      /\ "poolfail" \in foul' /\ foul \subseteq foul' /\ LiveOn(d) + size <= Physical
  BY DEF add_chunk_async_fails, Marks, Room, deviceVars, contextVars
<1> HIDE DEF d, c
<1>4. \A f \in list : f.addr # a
  BY <1>3 DEF PoolInv, Matched
<1>5. blocks' \subseteq Block /\ IsFiniteSet(blocks')
  BY <1>1, <1>2, <1>3, FS_AddElement
<1>6. ASSUME NEW x \in Devs PROVE LiveOn(x)' <= Physical
  <2>1. LiveOn(x) \in Nat /\ LiveOn(x)' = LiveOn(x) + IF c.dev = x THEN c.size ELSE 0
    BY <1>1, <1>2, <1>3, PoolGrows DEF LiveOn
  <2>2. LiveOn(x) <= Physical
    BY DEF PoolInv, Matched
  <2> QED
    BY <1>1, <1>2, <1>3, <2>1, <2>2
<1>7. Matched'
  <2>1. \A b, f \in blocks' : b.addr = f.addr => b = f
    BY <1>2, <1>3 DEF PoolInv, Matched
  <2>2. \A e, f \in list' : e.addr = f.addr => e = f
    BY <1>3 DEF PoolInv, Matched
  <2>3. \A e \in list' : \E b \in blocks' : b.addr = e.addr /\ e.len <= b.size
    BY <1>3 DEF PoolInv, Matched
  <2> QED
    BY <1>6, <2>1, <2>2, <2>3 DEF Matched
<1>8. DataIs'
  <2>1. \A x \in Devs : LenOf(OnDevice(list', blocks', x)) = Charged(x)
    <3>1. \A x \in Devs : OnDevice(list, blocks \cup {c}, x) = OnDevice(list, blocks, x)
      BY <1>2, <1>3, <1>4 DEF OnDevice
    <3> QED
      BY <1>3, <3>1 DEF Charged
  <2> QED
    BY <1>3, <2>1 DEF PoolInv, DataIs, Charged
<1>9. InFull'
  BY <1>3 DEF InFull, Trouble
<1>10. high' \in [Devs -> Nat]
  <2> DEFINE r == Reserved(d, blocks')
  <2>1. high' = [high EXCEPT ![d] = Max({high[d], r})] /\ high \in [Devs -> Nat]
    BY DEF add_chunk_async_fails, Types, d
  <2>2. r \in Nat
    BY <1>1, <1>5, ReservedNat
  <2> HIDE DEF r
  <2>3. high[d] \in Nat
    BY <1>1, <2>1
  <2>4. Max({high[d], r}) \in Nat
    BY <2>2, <2>3, MaxTwo
  <2> QED
    BY <2>1, <2>4
<1> QED
  BY <1>5, <1>7, <1>8, <1>9, <1>10 DEF PoolInv

(* A block with its entry. *)
LEMMA PoolAdds ==
  ASSUME Types, Opening, PoolInv, NEW t \in Threads, NEW size \in Sizes, NEW a \in Addrs,
         NEW pool \in Pools(cur[t]), add_chunk_async(t, size, a, pool)
  PROVE  /\ PoolInv'
         /\ blocks' \subseteq Block /\ IsFiniteSet(blocks') /\ list' \subseteq Entry /\ IsFiniteSet(list')
         /\ high' \in [Devs -> Nat] /\ data' \in [Devs -> 0 .. Word - 1] /\ alimit' \in Int
<1> DEFINE d == cur[t]
           c == [addr |-> a, dev |-> d, size |-> size, pool |-> pool]
           mark == Max({high[d], Reserved(d, blocks \cup {c})})
           charge == IF mark = 0 THEN 0 ELSE allocsize(mark, size)
           len == IF mark = 0 THEN size ELSE charge
           e == [addr |-> a, len |-> len]
           n == map[d]
<1>1. /\ d \in Devs /\ blocks \subseteq Block /\ IsFiniteSet(blocks) /\ list \subseteq Entry /\ IsFiniteSet(list)
      /\ size \in Nat /\ Physical \in Nat /\ alimit \in Int /\ n \in Devs /\ Word \in Nat \ {0}
      /\ high \in [Devs -> Nat] /\ data \in [Devs -> 0 .. Word - 1] /\ map \in [Devs -> Devs]
  BY AccountsAssumption DEF Types, AccountsAssumption
<1>2. c \in Block /\ c.addr = a /\ c.dev = d /\ c.size = size /\ c.pool = pool /\ pool \in {d, NoPool}
  BY <1>1 DEF Block, Pools
<1>3. /\ \A b \in blocks : b.addr # a
      /\ blocks' = blocks \cup {c} /\ list' = list \cup {e} /\ high' = [high EXCEPT ![d] = mark]
      /\ data' = [data EXCEPT ![n] = Plus(@, charge)] /\ alimit' = Plus(alimit, charge)
      /\ map' = map /\ started' = started /\ started
      /\ foul \subseteq foul' /\ LiveOn(d) + size <= Physical
      /\ "multi" \notin foul' => \A b \in blocks : b.dev = d
      /\ "uncharged" \notin foul' => mark # 0
      /\ "elsewhere" \notin foul' /\ mark # 0 => pool # NoPool
  BY DEF add_chunk_async, Marks, Room, deviceVars, contextVars, Charge
<1>4. \A f \in list : f.addr # a
  BY <1>3 DEF PoolInv, Matched
<1> HIDE DEF c
<1>5. \A x \in Devs : /\ LiveOn(x) \in Nat
                      /\ SizeOf({b \in blocks \cup {c} : b.dev = x}) = LiveOn(x) + IF d = x THEN size ELSE 0
  BY <1>1, <1>2, <1>3, PoolGrows DEF LiveOn
<1>6. /\ mark \in Nat
      /\ pool = d /\ (\A b \in blocks : b.pool = b.dev) => mark >= LiveOn(d) + size
  <2> DEFINE m == LiveOn(d) + size
             r == Reserved(d, blocks \cup {c})
  <2>1. m \in Nat /\ SizeOf({b \in blocks \cup {c} : b.dev = d}) = m
    BY <1>1, <1>5
  <2>2. ASSUME pool = d, \A b \in blocks : b.pool = b.dev PROVE r = RoundUp(m)
    <3>1. {b \in blocks \cup {c} : b.pool = d} = {b \in blocks \cup {c} : b.dev = d}
      BY <1>2, <2>2
    <3> QED
      BY <2>1, <3>1 DEF Reserved
  <2>3. r \in Nat
    <3>1. blocks \cup {c} \in SUBSET Block /\ IsFiniteSet(blocks \cup {c})
      BY <1>1, <1>2, FS_AddElement
    <3> QED
      BY <1>1, <3>1, ReservedNat
  <2> HIDE DEF m, r
  <2>4. RoundUp(m) >= m /\ RoundUp(m) \in Nat
    BY <2>1, RoundUpIs
  <2>5. high[d] \in Nat
    BY <1>1
  <2>6. mark = IF high[d] >= r THEN high[d] ELSE r
    <3>1. mark = Max({high[d], r})
      BY DEF r
    <3>2. high[d] \in Int /\ r \in Int
      BY <2>3, <2>5
    <3> HIDE DEF mark
    <3> QED
      BY <3>1, <3>2, MaxTwo
  <2>7. mark \in Nat /\ mark >= r
    BY <2>3, <2>5, <2>6
  <2>8. pool = d /\ (\A b \in blocks : b.pool = b.dev) => mark >= m
    BY <2>1, <2>2, <2>3, <2>4, <2>7
  <2> QED
    BY <2>7, <2>8 DEF m
<1> HIDE DEF mark
<1>7. /\ len \in Nat /\ len <= size /\ charge \in Nat
      /\ mark # 0 => charge = len
      /\ mark # 0 /\ mark >= alimit + size => len = size
  <2>1. mark - alimit \in Int
    BY <1>1, <1>6
  <2>2. Min({mark - alimit, size}) = IF mark - alimit <= size THEN mark - alimit ELSE size
    BY <1>1, <2>1, MinTwo
  <2> DEFINE g == allocsize(mark, size)
  <2>3. g = IF mark > alimit THEN IF mark - alimit <= size THEN mark - alimit ELSE size ELSE 0
    BY <2>2 DEF allocsize
  <2>4. charge = (IF mark = 0 THEN 0 ELSE g) /\ len = (IF mark = 0 THEN size ELSE charge)
    OBVIOUS
  <2> HIDE DEF len, charge, g
  <2> QED
    BY <1>1, <1>6, <2>3, <2>4
<1> HIDE DEF len, charge, d, n
<1>8. e \in Entry /\ e.addr = a /\ e.len = len
  BY <1>7 DEF Entry
<1> HIDE DEF e
<1>9. /\ blocks' \subseteq Block /\ IsFiniteSet(blocks') /\ list' \subseteq Entry /\ IsFiniteSet(list')
      /\ high' \in [Devs -> Nat] /\ alimit' \in Int
  <2>1. blocks' \subseteq Block /\ IsFiniteSet(blocks') /\ list' \subseteq Entry /\ IsFiniteSet(list')
    BY <1>1, <1>2, <1>3, <1>8, FS_AddElement
  <2>2. high' \in [Devs -> Nat]
    BY <1>1, <1>3, <1>6
  <2>3. charge \in Int
    BY <1>7
  <2>4. alimit' \in 0 .. Word - 1
    BY <1>1, <1>3, <2>3, WordSized
  <2> QED
    BY <1>1, <2>1, <2>2, <2>4
<1>10. data' \in [Devs -> 0 .. Word - 1]
  <2>1. data[n] \in Int /\ charge \in Int
    BY <1>1, <1>7
  <2>2. Plus(data[n], charge) \in 0 .. Word - 1
    BY <2>1, WordSized
  <2> QED
    BY <1>1, <1>3, <2>2
<1>11. Matched'
  <2>1. \A b, f \in blocks' : b.addr = f.addr => b = f
    BY <1>2, <1>3 DEF PoolInv, Matched
  <2>2. \A g, f \in list' : g.addr = f.addr => g = f
    BY <1>3, <1>4, <1>8 DEF PoolInv, Matched
  <2>3. \A f \in list' : \E b \in blocks' : b.addr = f.addr /\ f.len <= b.size
    BY <1>2, <1>3, <1>7, <1>8 DEF PoolInv, Matched
  <2>4. ASSUME NEW x \in Devs PROVE LiveOn(x)' <= Physical
    <3>1. LiveOn(x) <= Physical
      BY DEF PoolInv, Matched
    <3>2. LiveOn(x) \in Nat /\ LiveOn(x)' = LiveOn(x) + IF d = x THEN size ELSE 0
      BY <1>3, <1>5 DEF LiveOn
    <3>3. CASE d = x
      BY <1>3, <3>2, <3>3
    <3>4. CASE d # x
      BY <3>1, <3>2, <3>4
    <3> QED
      BY <3>3, <3>4
  <2> QED
    BY <2>1, <2>2, <2>3, <2>4 DEF Matched
<1>12. DataIs'
  <2> SUFFICES ASSUME foul' \cap {"switched", "uncharged"} = {}
               PROVE  /\ \A x \in Devs : data'[map[x]] = LenOf(OnDevice(list', blocks', x)) % Word
                      /\ \A m \in Devs : (\A x \in Devs : map[x] # m) => data'[m] = 0
    BY <1>3 DEF DataIs, Charged
  <2>0. charge = len
    BY <1>3, <1>7
  <2>1. /\ \A x \in Devs : data[map[x]] = Charged(x) % Word
        /\ \A m \in Devs : (\A x \in Devs : map[x] # m) => data[m] = 0
    BY <1>3 DEF PoolInv, DataIs
  <2>2. ASSUME NEW x \in Devs
        PROVE  /\ Charged(x) \in Nat
               /\ LenOf(OnDevice(list', blocks', x)) = Charged(x) + IF d = x THEN len ELSE 0
    <3> DEFINE E == OnDevice(list, blocks, x)
               F == OnDevice(list', blocks', x)
    <3>1. E \in SUBSET Entry /\ IsFiniteSet(E) /\ e \in Entry \ E
      BY <1>1, <1>4, <1>8, FS_Subset DEF OnDevice
    <3>2. F = IF d = x THEN E \cup {e} ELSE E
      BY <1>2, <1>3, <1>4, <1>8 DEF OnDevice
    <3> HIDE DEF E, F
    <3>3. LenOf(E) \in Nat /\ LenOf(E \cup {e}) = LenOf(E) + len
      BY <1>8, <3>1, LenOfEntries
    <3>4. LenOf(F) = LenOf(E) + IF d = x THEN len ELSE 0
      BY <3>2, <3>3
    <3> QED
      BY <3>3, <3>4 DEF Charged, E, F
  <2>3. ASSUME NEW x \in Devs PROVE data'[map[x]] = LenOf(OnDevice(list', blocks', x)) % Word
    <3>1. CASE d = x
      <4>1. data'[map[x]] = Plus(data[n], len) /\ data[n] = Charged(x) % Word
        BY <1>1, <1>3, <2>0, <2>1, <3>1 DEF n
      <4>2. ((Charged(x) % Word) + len) % Word = (Charged(x) + len) % Word
        <5>1. PICK y : y = Charged(x)
          OBVIOUS
        <5>2. y \in Int /\ len \in Int /\ Word \in Nat \ {0}
          BY <1>1, <1>7, <2>2, <5>1
        <5>3. ((y % Word) + len) % Word = (y + len) % Word
          BY ONLY <5>2, ModAdd
        <5> QED
          BY <5>1, <5>3
      <4> QED
        BY <2>2, <3>1, <4>1, <4>2 DEF Plus
    <3>2. CASE d # x
      <4>1. map[x] # n
        BY <1>1, <1>3, <3>2 DEF n, Opening
      <4>2. data'[map[x]] = data[map[x]]
        BY <1>1, <1>3, <4>1
      <4>3. LenOf(OnDevice(list', blocks', x)) = Charged(x)
        BY <2>2, <3>2
      <4> QED
        BY <2>1, <4>2, <4>3
    <3> QED
      BY <3>1, <3>2
  <2>4. ASSUME NEW m \in Devs, \A x \in Devs : map[x] # m PROVE data'[m] = 0
    BY <1>1, <1>3, <2>1, <2>4 DEF n
  <2> QED
    BY <2>3, <2>4
<1>13. InFull'
  <2> SUFFICES ASSUME foul' \cap Trouble = {}
               PROVE  /\ \A b \in blocks' : \E f \in list' : f.addr = b.addr /\ f.len = b.size
                      /\ \A b, f \in blocks' : b.dev = f.dev
                      /\ \A b \in blocks' : b.pool = b.dev
                      /\ alimit' = SizeOf(blocks')
    BY DEF InFull
  <2>1. /\ \A b \in blocks : \E f \in list : f.addr = b.addr /\ f.len = b.size
        /\ \A b \in blocks : b.pool = b.dev
        /\ alimit = SizeOf(blocks)
    BY <1>3 DEF PoolInv, InFull
  <2>2. (\A b \in blocks : b.dev = d) /\ mark # 0 /\ pool = d
    BY <1>2, <1>3 DEF Trouble
  <2>3. LiveOn(d) = SizeOf(blocks)
    <3>1. {b \in blocks : b.dev = d} = blocks
      BY <2>2
    <3> QED
      BY <3>1 DEF LiveOn
  <2>4. len = size /\ charge = size
    BY <1>6, <1>7, <2>1, <2>2, <2>3
  <2>5. SizeOf(blocks \cup {c}) = SizeOf(blocks) + size
    BY <1>1, <1>2, <1>3, SizeOfBlocks
  <2>6. \A b \in blocks' : \E f \in list' : f.addr = b.addr /\ f.len = b.size
    BY <1>2, <1>3, <1>8, <2>1, <2>4
  <2>7. \A b, f \in blocks' : b.dev = f.dev
    BY <1>2, <1>3, <2>2
  <2>8. \A b \in blocks' : b.pool = b.dev
    BY <1>2, <1>3, <2>1, <2>2
  <2>9. alimit' = SizeOf(blocks')
    <3>1. PICK y : y = LiveOn(d) + size
      OBVIOUS
    <3>2. y \in 0 .. Word - 1
      <4>1. LiveOn(d) \in Nat /\ size \in Nat /\ LiveOn(d) + size <= Physical
        BY <1>1, <1>3, <1>5
      <4>2. Physical \in Nat /\ Physical + 1 < Word /\ Word \in Nat
        BY Small
      <4> QED
        BY <3>1, <4>1, <4>2
    <3>3. y % Word = y
      BY <1>1, <3>2, SmallMod
    <3> QED
      BY <1>3, <2>1, <2>3, <2>4, <2>5, <3>1, <3>3 DEF Plus
  <2> QED
    BY <2>6, <2>7, <2>8, <2>9
<1> QED
  BY <1>9, <1>10, <1>11, <1>12, <1>13 DEF PoolInv

(* A block is freed, or the driver refuses to, and its entry goes. *)
LEMMA PoolRemoves ==
  ASSUME Types, Opening, PoolInv, NEW t \in Threads, NEW a \in Addrs, NEW ok \in BOOLEAN,
         remove_chunk_async(t, a, ok)
  PROVE  /\ PoolInv' /\ started
         /\ blocks' \subseteq Block /\ IsFiniteSet(blocks') /\ list' \subseteq Entry /\ IsFiniteSet(list')
         /\ data' \in [Devs -> 0 .. Word - 1] /\ alimit' \in Int
<1> DEFINE d == cur[t]
           n == map[d]
<1>1. /\ d \in Devs /\ blocks \subseteq Block /\ IsFiniteSet(blocks) /\ list \subseteq Entry /\ IsFiniteSet(list)
      /\ Physical \in Nat /\ alimit \in Int /\ n \in Devs /\ Word \in Nat \ {0}
      /\ data \in [Devs -> 0 .. Word - 1] /\ map \in [Devs -> Devs]
  BY AccountsAssumption DEF Types, AccountsAssumption
<1>2. PICK e \in list :
        /\ e.addr = a /\ list' = list \ {e} /\ blocks' = (IF ok THEN {b \in blocks : b.addr # a} ELSE blocks)
        /\ alimit' = Minus(alimit, e.len) /\ data' = Discharge(data, cur[t], e.len)
        /\ Marks({f \in {"switched", "freefail"} :
                     \/ f = "switched" /\ \E b \in blocks : b.addr = a /\ b.dev # cur[t]
                     \/ f = "freefail" /\ ~ok})
        /\ UNCHANGED <<deviceVars, other, cur, contextVars, high>>
  BY Zenon DEF remove_chunk_async
<1>3. /\ data' = [data EXCEPT ![n] = Minus(@, e.len)] /\ map' = map /\ started' = started
      /\ foul \subseteq foul'
      /\ "switched" \notin foul' => \A b \in blocks : b.addr = a => b.dev = d
      /\ "freefail" \notin foul' => ok
  BY <1>2 DEF Marks, deviceVars, contextVars, Discharge
<1>4. started
  BY <1>2 DEF Opening
<1>5. e.len \in Nat
  BY <1>1, <1>2 DEF Entry
<1>6. PICK c \in blocks : c.addr = a /\ e.len <= c.size
  BY <1>2 DEF PoolInv, Matched
<1>7. c \in Block /\ c.size \in Nat
  BY <1>1, <1>6, AccountsAssumption DEF Block, AccountsAssumption
<1>8. /\ \A b \in blocks : b.addr = a => b = c
      /\ \A f \in list : f.addr = a => f = e
  BY <1>2, <1>6 DEF PoolInv, Matched
<1> HIDE DEF d, n
<1>9. blocks' \in {blocks, blocks \ {c}} /\ (ok => blocks' = blocks \ {c})
  <2>1. {b \in blocks : b.addr # a} = blocks \ {c}
    BY <1>6, <1>8
  <2> QED
    BY <1>2, <2>1
<1>10. /\ blocks' \subseteq Block /\ IsFiniteSet(blocks') /\ list' \subseteq Entry /\ IsFiniteSet(list')
       /\ alimit' \in Int
  <2>1. IsFiniteSet(blocks \ {c}) /\ IsFiniteSet(list \ {e})
    BY <1>1, FS_RemoveElement
  <2>2. blocks' \subseteq Block /\ IsFiniteSet(blocks')
    BY <1>1, <1>9, <2>1
  <2>3. list' \subseteq Entry /\ IsFiniteSet(list')
    BY <1>1, <1>2, <2>1
  <2>4. alimit' \in Int
    <3>1. e.len \in Int
      BY <1>5
    <3>2. alimit' \in 0 .. Word - 1
      BY <1>1, <1>2, <3>1, WordSized
    <3> QED
      BY <1>1, <3>2
  <2> QED
    BY <2>2, <2>3, <2>4
<1>11. data' \in [Devs -> 0 .. Word - 1]
  <2>1. data[n] \in Int /\ e.len \in Int
    BY <1>1, <1>5
  <2>2. Minus(data[n], e.len) \in 0 .. Word - 1
    BY <2>1, WordSized
  <2> QED
    BY <1>1, <1>3, <2>2
<1>12. Matched'
  <2>1. \A b, f \in blocks' : b.addr = f.addr => b = f
    BY <1>9 DEF PoolInv, Matched
  <2>2. \A g, f \in list' : g.addr = f.addr => g = f
    BY <1>2 DEF PoolInv, Matched
  <2>3. ASSUME NEW f \in list' PROVE \E b \in blocks' : b.addr = f.addr /\ f.len <= b.size
    <3>1. f \in list /\ f.addr # a
      BY <1>2, <1>8
    <3>2. PICK b \in blocks : b.addr = f.addr /\ f.len <= b.size
      BY <3>1 DEF PoolInv, Matched
    <3> QED
      BY <1>6, <1>9, <3>1, <3>2
  <2>4. ASSUME NEW x \in Devs PROVE LiveOn(x)' <= Physical
    <3>1. LiveOn(x) <= Physical
      BY DEF PoolInv, Matched
    <3>2. CASE blocks' = blocks
      BY <3>1, <3>2 DEF LiveOn
    <3>3. CASE blocks' = blocks \ {c}
      <4>1. /\ SizeOf({b \in blocks \ {c} : b.dev = x}) \in Nat
            /\ LiveOn(x) = SizeOf({b \in blocks \ {c} : b.dev = x}) + IF c.dev = x THEN c.size ELSE 0
        BY <1>1, <1>6, <1>8, PoolShrinks DEF LiveOn
      <4>2. LiveOn(x)' = SizeOf({b \in blocks \ {c} : b.dev = x})
        BY <3>3 DEF LiveOn
      <4> QED
        BY <1>1, <1>7, <3>1, <4>1, <4>2
    <3> QED
      BY <1>9, <3>2, <3>3
  <2> QED
    BY <2>1, <2>2, <2>3, <2>4 DEF Matched
<1>13. DataIs'
  <2> SUFFICES ASSUME foul' \cap {"switched", "uncharged"} = {}
               PROVE  /\ \A x \in Devs : data'[map[x]] = LenOf(OnDevice(list', blocks', x)) % Word
                      /\ \A m \in Devs : (\A x \in Devs : map[x] # m) => data'[m] = 0
    BY <1>3 DEF DataIs, Charged
  <2>1. /\ \A x \in Devs : data[map[x]] = Charged(x) % Word
        /\ \A m \in Devs : (\A x \in Devs : map[x] # m) => data[m] = 0
    BY <1>3, <1>4 DEF PoolInv, DataIs
  <2>5. c.dev = d
    BY <1>3, <1>6
  <2>2. ASSUME NEW x \in Devs
        PROVE  /\ Charged(x) \in Nat /\ LenOf(OnDevice(list', blocks', x)) \in Nat
               /\ Charged(x) = LenOf(OnDevice(list', blocks', x)) + IF d = x THEN e.len ELSE 0
    <3> DEFINE E == OnDevice(list', blocks', x)
               F == OnDevice(list, blocks, x)
    <3>1. E \in SUBSET Entry /\ IsFiniteSet(E) /\ e \in Entry \ E
      BY <1>1, <1>2, <1>10, FS_Subset DEF OnDevice
    <3>2. F = IF d = x THEN E \cup {e} ELSE E
      <4>1. \A f \in list' : f \in list /\ f.addr # a
        BY <1>2, <1>8
      <4>2. \A f \in list' : f \in E <=> f \in F
        BY <1>6, <1>9, <4>1 DEF OnDevice
      <4>3. e \in F <=> d = x
        BY <1>2, <1>6, <1>8, <2>5 DEF OnDevice
      <4>4. E \subseteq list' /\ F \subseteq list /\ list = list' \cup {e}
        BY <1>2 DEF OnDevice
      <4> HIDE DEF E, F
      <4> QED
        BY <4>2, <4>3, <4>4
    <3> HIDE DEF E, F
    <3>3. LenOf(E) \in Nat /\ LenOf(E \cup {e}) = LenOf(E) + e.len
      BY <3>1, LenOfEntries
    <3>4. LenOf(F) = LenOf(E) + IF d = x THEN e.len ELSE 0
      BY <3>2, <3>3
    <3>5. LenOf(F) \in Nat
      BY <1>5, <3>3, <3>4
    <3> QED
      BY <3>3, <3>4, <3>5 DEF Charged, E, F
  <2>3. ASSUME NEW x \in Devs PROVE data'[map[x]] = LenOf(OnDevice(list', blocks', x)) % Word
    <3>1. CASE d = x
      <4>1. data'[map[x]] = Minus(data[n], e.len) /\ data[n] = Charged(x) % Word
        BY <1>1, <1>3, <2>1, <3>1 DEF n
      <4> DEFINE k == -e.len
      <4>2. k \in Int
        BY <1>5
      <4> HIDE DEF k
      <4>3. ((Charged(x) % Word) + k) % Word = (Charged(x) + k) % Word
        <5> PICK y : y = Charged(x)
          OBVIOUS
        <5>1. y \in Int /\ Word \in Nat \ {0}
          BY <1>1, <2>2
        <5>2. ((y % Word) + k) % Word = (y + k) % Word
          BY ONLY <4>2, <5>1, ModAdd
        <5> QED
          BY <5>2
      <4>4. Charged(x) + k = LenOf(OnDevice(list', blocks', x))
        BY <1>5, <2>2, <3>1 DEF k
      <4>5. Minus(data[n], e.len) = ((Charged(x) % Word) + k) % Word
        <5>1. data[n] \in Int
          BY <1>1
        <5>2. data[n] - e.len = data[n] + k
          BY <1>5, <5>1 DEF k
        <5> QED
          BY <4>1, <5>2 DEF Minus
      <4> QED
        BY <4>1, <4>3, <4>4, <4>5
    <3>2. CASE d # x
      <4>1. map[x] # n
        BY <1>1, <1>4, <3>2 DEF n, Opening
      <4>2. data'[map[x]] = data[map[x]]
        BY <1>1, <1>3, <4>1
      <4>3. LenOf(OnDevice(list', blocks', x)) = Charged(x)
        BY <2>2, <3>2
      <4> QED
        BY <2>1, <4>2, <4>3
    <3> QED
      BY <3>1, <3>2
  <2>4. ASSUME NEW m \in Devs, \A x \in Devs : map[x] # m PROVE data'[m] = 0
    BY <1>1, <1>3, <2>1, <2>4 DEF n
  <2> QED
    BY <2>3, <2>4
<1>14. InFull'
  <2> SUFFICES ASSUME foul' \cap Trouble = {}
               PROVE  /\ \A b \in blocks' : \E f \in list' : f.addr = b.addr /\ f.len = b.size
                      /\ \A b, f \in blocks' : b.dev = f.dev
                      /\ \A b \in blocks' : b.pool = b.dev
                      /\ alimit' = SizeOf(blocks')
    BY DEF InFull
  <2>1. /\ \A b \in blocks : \E f \in list : f.addr = b.addr /\ f.len = b.size
        /\ \A b, f \in blocks : b.dev = f.dev
        /\ \A b \in blocks : b.pool = b.dev
        /\ alimit = SizeOf(blocks)
    BY <1>3 DEF PoolInv, InFull
  <2>2. blocks' = blocks \ {c}
    BY <1>3, <1>9 DEF Trouble
  <2>3. e.len = c.size
    BY <1>6, <1>8, <2>1
  <2>4. SizeOf(blocks) = SizeOf(blocks') + c.size /\ SizeOf(blocks') \in Nat
    <3> PICK B : B = blocks'
      OBVIOUS
    <3>1. B \in SUBSET Block /\ IsFiniteSet(B) /\ c \in Block \ B /\ blocks = B \cup {c}
      BY <1>6, <1>7, <1>10, <2>2
    <3>2. SizeOf(B \cup {c}) = SizeOf(B) + c.size /\ SizeOf(B) \in Nat
      BY ONLY <3>1, SizeOfBlocks
    <3> QED
      BY <3>1, <3>2
  <2>5. \A b \in blocks' : \E f \in list' : f.addr = b.addr /\ f.len = b.size
    <3> SUFFICES ASSUME NEW b \in blocks' PROVE \E f \in list' : f.addr = b.addr /\ f.len = b.size
      OBVIOUS
    <3>1. b \in blocks /\ b.addr # a
      BY <1>8, <2>2
    <3> QED
      BY <1>2, <2>1, <3>1
  <2>6. (\A b, f \in blocks' : b.dev = f.dev) /\ \A b \in blocks' : b.pool = b.dev
    BY <2>1, <2>2
  <2>7. alimit' = SizeOf(blocks')
    <3>1. LiveOn(c.dev) = SizeOf(blocks)
      <4>1. {b \in blocks : b.dev = c.dev} = blocks
        BY <1>6, <2>1
      <4> QED
        BY <4>1 DEF LiveOn
    <3>2. LiveOn(c.dev) <= Physical
      BY <1>7 DEF PoolInv, Matched, Block
    <3>3. PICK y : y = SizeOf(blocks')
      OBVIOUS
    <3>4. y \in 0 .. Word - 1 /\ alimit - e.len = y
      BY <1>1, <1>5, <1>7, <2>1, <2>3, <2>4, <3>1, <3>2, <3>3, Small
    <3>5. y % Word = y
      BY <1>1, <3>4, SmallMod
    <3> QED
      BY <1>2, <3>3, <3>4, <3>5 DEF Minus
  <2> QED
    BY <2>5, <2>6, <2>7
<1> QED
  BY <1>4, <1>10, <1>11, <1>12, <1>13, <1>14 DEF PoolInv

-----------------------------------------------------------------------------
(* Contexts *)

(* The contexts are not touched. *)
LEMMA ContextQuiet ==
  ASSUME ContextInv, UNCHANGED <<map, context, context_size, ctx_activate, refs, pc, on>>, foul \subseteq foul'
  PROVE  ContextInv'
<1>1. OneCall'
  BY DEF ContextInv, OneCall, Midway
<1>2. FlagIs'
  BY DEF ContextInv, FlagIs, Midway
<1> QED
  BY <1>1, <1>2 DEF ContextInv

(* A retain has called the driver, looked at the flag and charged. *)
LEMMA Retains ==
  ASSUME Types, Opening, ContextInv, NEW t \in Threads, NEW d \in Devs, cuDevicePrimaryCtxRetain(t, d)
  PROVE  /\ ContextInv' /\ started
         /\ context' \in [Devs -> 0 .. Word - 1] /\ refs' \in [Devs -> Nat]
<1>1. /\ pc \in [Threads -> {"idle", "retain", "release"}] /\ on \in [Threads -> Devs]
      /\ context \in [Devs -> 0 .. Word - 1] /\ map \in [Devs -> Devs] /\ refs \in [Devs -> Nat]
      /\ ctx_activate \in [Devs -> {0, 1}] /\ context_size \in 0 .. Word - 1 /\ Word \in Nat \ {0}
  <2>1. ContextSize \in 0 .. Word - 1 /\ Word \in Nat \ {0} /\ 0 \in 0 .. Word - 1
    BY Small
  <2> QED
    BY <2>1 DEF Types
<1> DEFINE n == map[d]
           v == IF ctx_activate[d] = 0 THEN Plus(context[n], context_size) ELSE context[n]
<1>2. /\ started /\ pc[t] = "idle"
      /\ pc' = [pc EXCEPT ![t] = "retain"] /\ on' = [on EXCEPT ![t] = d]
      /\ UNCHANGED <<map, context_size, ctx_activate>>
      /\ foul \subseteq foul'
  BY Zenon DEF cuDevicePrimaryCtxRetain, Marks, deviceVars
<1>3. context' = [context EXCEPT ![n] = v]
  BY <1>1 DEF cuDevicePrimaryCtxRetain, Charge
<1>4. /\ refs' = [refs EXCEPT ![d] = @ + 1] \/ (refs' = refs /\ "failed" \in foul')
      /\ "raced" \notin foul' => ~Midway(d)
  BY DEF cuDevicePrimaryCtxRetain, Marks
<1>5. n \in Devs /\ \A x \in Devs : x # d => map[x] # n
  BY <1>1, <1>2 DEF Opening
<1>6. v \in 0 .. Word - 1
  <2>1. context[n] \in Int /\ context_size \in Int /\ context[n] \in 0 .. Word - 1
    BY <1>1, <1>5
  <2> QED
    BY <2>1, WordSized
<1>7. context' \in [Devs -> 0 .. Word - 1] /\ refs' \in [Devs -> Nat]
  BY <1>1, <1>3, <1>4, <1>5, <1>6
<1>8. "raced" \notin foul' /\ OneCall => v = context_size
  <2> SUFFICES ASSUME "raced" \notin foul', OneCall PROVE v = context_size
    OBVIOUS
  <2>1. context[n] = IF ctx_activate[d] = 1 THEN context_size ELSE 0
    BY <1>2, <1>4 DEF OneCall
  <2>2. ctx_activate[d] \in {0, 1}
    BY <1>1
  <2>3. Plus(0, context_size) = context_size
    <3>1. context_size % Word = context_size
      BY <1>1, SmallMod
    <3>2. 0 + context_size = context_size
      BY <1>1
    <3> QED
      BY <3>1, <3>2 DEF Plus
  <2> QED
    BY <2>1, <2>2, <2>3
<1> HIDE DEF v, n
<1>9. \A x \in Devs : ~Midway(x)' => x # d /\ ~Midway(x)
  BY <1>1, <1>2 DEF Midway
<1>10. \A u \in Threads : u # t => pc'[u] = pc[u] /\ on'[u] = on[u]
  BY <1>1, <1>2
<1>11. pc'[t] = "retain" /\ on'[t] = d
  BY <1>1, <1>2
<1>12. "raced" \notin foul' => \A u \in Threads : pc[u] # "idle" => on[u] # d
  BY <1>4 DEF Midway
<1>13. OneCall'
  <2> SUFFICES ASSUME "raced" \notin foul'
               PROVE  /\ \A x, u \in Threads : pc'[x] # "idle" /\ pc'[u] # "idle" /\ on'[x] = on'[u] => x = u
                      /\ \A x \in Devs : ~Midway(x)' =>
                           context'[map[x]] = IF ctx_activate[x] = 1 THEN context_size ELSE 0
                      /\ \A u \in Threads :
                           /\ pc'[u] = "retain" => context'[map[on'[u]]] = context_size
                           /\ pc'[u] = "release" => context'[map[on'[u]]] = 0
                      /\ \A m \in Devs : (\A x \in Devs : map[x] # m) => context'[m] = 0
                      /\ \A x \in Devs : ctx_activate[x] = 1 => context_size > 0
    BY <1>2 DEF OneCall
  <2>0. OneCall /\ "raced" \notin foul
    BY <1>2 DEF ContextInv
  <2>1. \A x, u \in Threads : pc'[x] # "idle" /\ pc'[u] # "idle" /\ on'[x] = on'[u] => x = u
    BY <1>10, <1>11, <1>12, <2>0 DEF OneCall
  <2>2. ASSUME NEW x \in Devs, ~Midway(x)'
        PROVE  context'[map[x]] = IF ctx_activate[x] = 1 THEN context_size ELSE 0
    <3>1. x # d /\ ~Midway(x)
      BY <1>9, <2>2
    <3>2. context'[map[x]] = context[map[x]]
      BY <1>1, <1>3, <1>5, <3>1
    <3> QED
      BY <2>0, <3>1, <3>2 DEF OneCall
  <2>3. ASSUME NEW u \in Threads
        PROVE  /\ pc'[u] = "retain" => context'[map[on'[u]]] = context_size
               /\ pc'[u] = "release" => context'[map[on'[u]]] = 0
    <3>1. CASE u = t
      <4>1. context'[n] = context_size
        BY <1>1, <1>3, <1>5, <1>8, <2>0
      <4> QED
        BY <1>11, <3>1, <4>1 DEF n
    <3>2. CASE u # t /\ pc[u] # "idle"
      <4>1. on[u] \in Devs /\ on[u] # d
        BY <1>1, <1>12, <3>2
      <4>2. context'[map[on[u]]] = context[map[on[u]]]
        BY <1>1, <1>3, <1>5, <4>1
      <4> QED
        BY <1>10, <2>0, <3>2, <4>2 DEF OneCall
    <3>3. CASE u # t /\ pc[u] = "idle"
      BY <1>10, <3>3
    <3> QED
      BY <3>1, <3>2, <3>3
  <2>4. ASSUME NEW m \in Devs, \A x \in Devs : map[x] # m PROVE context'[m] = 0
    BY <1>1, <1>3, <2>0, <2>4 DEF OneCall, n
  <2>5. \A x \in Devs : ctx_activate[x] = 1 => context_size > 0
    BY <2>0 DEF OneCall
  <2> QED
    BY <2>1, <2>2, <2>3, <2>4, <2>5
<1>14. FlagIs'
  <2> SUFFICES ASSUME context_size > 0, foul' \cap {"failed", "raced", "nested"} = {}
               PROVE  /\ \A x \in Devs : ~Midway(x)' => (ctx_activate[x] = 1 <=> refs'[x] > 0)
                      /\ \A u \in Threads :
                           /\ pc'[u] = "retain" => refs'[on'[u]] > 0
                           /\ pc'[u] = "release" => refs'[on'[u]] = 1
    BY <1>2 DEF FlagIs
  <2>0. /\ \A x \in Devs : ~Midway(x) => (ctx_activate[x] = 1 <=> refs[x] > 0)
        /\ \A u \in Threads :
             /\ pc[u] = "retain" => refs[on[u]] > 0
             /\ pc[u] = "release" => refs[on[u]] = 1
    BY <1>2 DEF ContextInv, FlagIs
  <2>1. refs' = [refs EXCEPT ![d] = @ + 1]
    BY <1>4
  <2>2. ASSUME NEW x \in Devs, ~Midway(x)' PROVE ctx_activate[x] = 1 <=> refs'[x] > 0
    BY <1>1, <1>9, <2>0, <2>1, <2>2
  <2>3. ASSUME NEW u \in Threads
        PROVE  /\ pc'[u] = "retain" => refs'[on'[u]] > 0
               /\ pc'[u] = "release" => refs'[on'[u]] = 1
    <3>1. CASE u = t
      BY <1>1, <1>11, <2>1, <3>1
    <3>2. CASE u # t
      <4>1. on[u] \in Devs /\ (pc[u] # "idle" => on[u] # d)
        BY <1>1, <1>12
      <4>2. on[u] # d => refs'[on[u]] = refs[on[u]]
        BY <1>1, <2>1, <4>1
      <4>3. pc'[u] = pc[u] /\ on'[u] = on[u]
        BY <1>10, <3>2
      <4> QED
        BY <2>0, <4>1, <4>2, <4>3
    <3> QED
      BY <3>1, <3>2
  <2> QED
    BY <2>2, <2>3
<1> QED
  BY <1>2, <1>7, <1>13, <1>14 DEF ContextInv

(* A release has looked at the flag and taken the charge back. *)
LEMMA Releases ==
  ASSUME Types, Opening, ContextInv, NEW t \in Threads, NEW d \in Devs, cuDevicePrimaryCtxRelease_v2(t, d)
  PROVE  /\ ContextInv' /\ started
         /\ context' \in [Devs -> 0 .. Word - 1]
<1>1. /\ pc \in [Threads -> {"idle", "retain", "release"}] /\ on \in [Threads -> Devs]
      /\ context \in [Devs -> 0 .. Word - 1] /\ map \in [Devs -> Devs] /\ refs \in [Devs -> Nat]
      /\ ctx_activate \in [Devs -> {0, 1}] /\ context_size \in 0 .. Word - 1 /\ Word \in Nat \ {0}
  <2>1. ContextSize \in 0 .. Word - 1 /\ Word \in Nat \ {0} /\ 0 \in 0 .. Word - 1
    BY Small
  <2> QED
    BY <2>1 DEF Types
<1> DEFINE n == map[d]
           v == IF ctx_activate[d] = 1 THEN Minus(context[n], context_size) ELSE context[n]
<1>2. /\ started /\ pc[t] = "idle"
      /\ pc' = [pc EXCEPT ![t] = "release"] /\ on' = [on EXCEPT ![t] = d]
      /\ UNCHANGED <<map, context_size, ctx_activate>>
      /\ foul \subseteq foul'
  BY Zenon DEF cuDevicePrimaryCtxRelease_v2, Marks, deviceVars
<1>3. context' = [context EXCEPT ![n] = v]
  BY <1>1 DEF cuDevicePrimaryCtxRelease_v2, Discharge
<1>4. /\ refs' = refs /\ refs[d] > 0 /\ ("nested" \notin foul' => ~(refs[d] > 1))
      /\ "raced" \notin foul' => ~Midway(d)
  BY DEF cuDevicePrimaryCtxRelease_v2, Marks
<1>5. n \in Devs /\ \A x \in Devs : x # d => map[x] # n
  BY <1>1, <1>2 DEF Opening
<1>6. v \in 0 .. Word - 1
  <2>1. context[n] \in Int /\ context_size \in Int /\ context[n] \in 0 .. Word - 1
    BY <1>1, <1>5
  <2> QED
    BY <2>1, WordSized
<1>7. context' \in [Devs -> 0 .. Word - 1]
  BY <1>1, <1>3, <1>5, <1>6
<1>8. "raced" \notin foul' /\ OneCall => v = 0
  <2> SUFFICES ASSUME "raced" \notin foul', OneCall PROVE v = 0
    OBVIOUS
  <2>1. context[n] = IF ctx_activate[d] = 1 THEN context_size ELSE 0
    BY <1>2, <1>4 DEF OneCall
  <2>2. ctx_activate[d] \in {0, 1}
    BY <1>1
  <2>3. Minus(context_size, context_size) = 0
    <3>1. context_size - context_size = 0 /\ 0 \in 0 .. Word - 1
      BY <1>1
    <3>2. 0 % Word = 0
      BY <1>1, <3>1, SmallMod
    <3> QED
      BY <3>1, <3>2 DEF Minus
  <2> QED
    BY <2>1, <2>2, <2>3
<1> HIDE DEF v, n
<1>9. \A x \in Devs : ~Midway(x)' => x # d /\ ~Midway(x)
  BY <1>1, <1>2 DEF Midway
<1>10. \A u \in Threads : u # t => pc'[u] = pc[u] /\ on'[u] = on[u]
  BY <1>1, <1>2
<1>11. pc'[t] = "release" /\ on'[t] = d
  BY <1>1, <1>2
<1>12. "raced" \notin foul' => \A u \in Threads : pc[u] # "idle" => on[u] # d
  BY <1>4 DEF Midway
<1>13. OneCall'
  <2> SUFFICES ASSUME "raced" \notin foul'
               PROVE  /\ \A x, u \in Threads : pc'[x] # "idle" /\ pc'[u] # "idle" /\ on'[x] = on'[u] => x = u
                      /\ \A x \in Devs : ~Midway(x)' =>
                           context'[map[x]] = IF ctx_activate[x] = 1 THEN context_size ELSE 0
                      /\ \A u \in Threads :
                           /\ pc'[u] = "retain" => context'[map[on'[u]]] = context_size
                           /\ pc'[u] = "release" => context'[map[on'[u]]] = 0
                      /\ \A m \in Devs : (\A x \in Devs : map[x] # m) => context'[m] = 0
                      /\ \A x \in Devs : ctx_activate[x] = 1 => context_size > 0
    BY <1>2 DEF OneCall
  <2>0. OneCall /\ "raced" \notin foul
    BY <1>2 DEF ContextInv
  <2>1. \A x, u \in Threads : pc'[x] # "idle" /\ pc'[u] # "idle" /\ on'[x] = on'[u] => x = u
    BY <1>10, <1>11, <1>12, <2>0 DEF OneCall
  <2>2. ASSUME NEW x \in Devs, ~Midway(x)'
        PROVE  context'[map[x]] = IF ctx_activate[x] = 1 THEN context_size ELSE 0
    <3>1. x # d /\ ~Midway(x)
      BY <1>9, <2>2
    <3>2. context'[map[x]] = context[map[x]]
      BY <1>1, <1>3, <1>5, <3>1
    <3> QED
      BY <2>0, <3>1, <3>2 DEF OneCall
  <2>3. ASSUME NEW u \in Threads
        PROVE  /\ pc'[u] = "retain" => context'[map[on'[u]]] = context_size
               /\ pc'[u] = "release" => context'[map[on'[u]]] = 0
    <3>1. CASE u = t
      <4>1. context'[n] = 0
        BY <1>1, <1>3, <1>5, <1>8, <2>0
      <4> QED
        BY <1>11, <3>1, <4>1 DEF n
    <3>2. CASE u # t /\ pc[u] # "idle"
      <4>1. on[u] \in Devs /\ on[u] # d
        BY <1>1, <1>12, <3>2
      <4>2. context'[map[on[u]]] = context[map[on[u]]]
        BY <1>1, <1>3, <1>5, <4>1
      <4> QED
        BY <1>10, <2>0, <3>2, <4>2 DEF OneCall
    <3>3. CASE u # t /\ pc[u] = "idle"
      BY <1>10, <3>3
    <3> QED
      BY <3>1, <3>2, <3>3
  <2>4. ASSUME NEW m \in Devs, \A x \in Devs : map[x] # m PROVE context'[m] = 0
    BY <1>1, <1>3, <2>0, <2>4 DEF OneCall, n
  <2>5. \A x \in Devs : ctx_activate[x] = 1 => context_size > 0
    BY <2>0 DEF OneCall
  <2> QED
    BY <2>1, <2>2, <2>3, <2>4, <2>5
<1>14. FlagIs'
  <2> SUFFICES ASSUME context_size > 0, foul' \cap {"failed", "raced", "nested"} = {}
               PROVE  /\ \A x \in Devs : ~Midway(x)' => (ctx_activate[x] = 1 <=> refs'[x] > 0)
                      /\ \A u \in Threads :
                           /\ pc'[u] = "retain" => refs'[on'[u]] > 0
                           /\ pc'[u] = "release" => refs'[on'[u]] = 1
    BY <1>2 DEF FlagIs
  <2>0. /\ \A x \in Devs : ~Midway(x) => (ctx_activate[x] = 1 <=> refs[x] > 0)
        /\ \A u \in Threads :
             /\ pc[u] = "retain" => refs[on[u]] > 0
             /\ pc[u] = "release" => refs[on[u]] = 1
    BY <1>2 DEF ContextInv, FlagIs
  <2>1. refs' = refs /\ refs[d] = 1
    BY <1>1, <1>4
  <2>2. ASSUME NEW x \in Devs, ~Midway(x)' PROVE ctx_activate[x] = 1 <=> refs'[x] > 0
    BY <1>1, <1>9, <2>0, <2>1, <2>2
  <2>3. ASSUME NEW u \in Threads
        PROVE  /\ pc'[u] = "retain" => refs'[on'[u]] > 0
               /\ pc'[u] = "release" => refs'[on'[u]] = 1
    <3>1. CASE u = t
      BY <1>1, <1>11, <2>1, <3>1
    <3>2. CASE u # t
      <4>1. on[u] \in Devs /\ (pc[u] # "idle" => on[u] # d)
        BY <1>1, <1>12
      <4>2. on[u] # d => refs'[on[u]] = refs[on[u]]
        BY <1>1, <2>1, <4>1
      <4>3. pc'[u] = pc[u] /\ on'[u] = on[u]
        BY <1>10, <3>2
      <4> QED
        BY <2>0, <4>1, <4>2, <4>3
    <3> QED
      BY <3>1, <3>2
  <2> QED
    BY <2>2, <2>3
<1> QED
  BY <1>2, <1>7, <1>13, <1>14 DEF ContextInv

(* The retain ends: the flag is set if the size of a context is known. *)
LEMMA RetainEnds ==
  ASSUME Types, ContextInv, NEW t \in Threads, retain_activates(t)
  PROVE  ContextInv' /\ ctx_activate' \in [Devs -> {0, 1}]
<1>1. /\ pc \in [Threads -> {"idle", "retain", "release"}] /\ on \in [Threads -> Devs]
      /\ context \in [Devs -> 0 .. Word - 1] /\ map \in [Devs -> Devs] /\ refs \in [Devs -> Nat]
      /\ ctx_activate \in [Devs -> {0, 1}] /\ context_size \in 0 .. Word - 1 /\ Word \in Nat \ {0}
  <2>1. ContextSize \in 0 .. Word - 1 /\ Word \in Nat \ {0} /\ 0 \in 0 .. Word - 1
    BY Small
  <2> QED
    BY <2>1 DEF Types
<1> DEFINE d == on[t]
<1>2. /\ pc[t] = "retain" /\ d \in Devs
      /\ pc' = [pc EXCEPT ![t] = "idle"] /\ on' = [on EXCEPT ![t] = 0]
      /\ UNCHANGED <<map, context, context_size, refs, foul>>
  BY <1>1 DEF retain_activates, deviceVars
<1>3. ctx_activate' = IF context_size > 0 THEN [ctx_activate EXCEPT ![d] = 1] ELSE ctx_activate
  BY DEF retain_activates
<1>4. ctx_activate' \in [Devs -> {0, 1}]
  BY <1>1, <1>2, <1>3
<1> HIDE DEF d
<1>9. \A x \in Devs : ~Midway(x)' /\ x # d => ~Midway(x)
  BY <1>1, <1>2 DEF Midway, d
<1>10. \A u \in Threads : u # t => pc'[u] = pc[u] /\ on'[u] = on[u]
  BY <1>1, <1>2
<1>11. pc'[t] = "idle"
  BY <1>1, <1>2
<1>13. OneCall'
  <2> SUFFICES ASSUME "raced" \notin foul'
               PROVE  /\ \A x, u \in Threads : pc'[x] # "idle" /\ pc'[u] # "idle" /\ on'[x] = on'[u] => x = u
                      /\ \A x \in Devs : ~Midway(x)' =>
                           context'[map[x]] = IF ctx_activate'[x] = 1 THEN context_size ELSE 0
                      /\ \A u \in Threads :
                           /\ pc'[u] = "retain" => context'[map[on'[u]]] = context_size
                           /\ pc'[u] = "release" => context'[map[on'[u]]] = 0
                      /\ \A m \in Devs : (\A x \in Devs : map[x] # m) => context'[m] = 0
                      /\ \A x \in Devs : ctx_activate'[x] = 1 => context_size > 0
    BY <1>2 DEF OneCall
  <2>0. OneCall /\ "raced" \notin foul
    BY <1>2 DEF ContextInv
  <2>1. \A x, u \in Threads : pc'[x] # "idle" /\ pc'[u] # "idle" /\ on'[x] = on'[u] => x = u
    BY <1>10, <1>11, <2>0 DEF OneCall
  <2>2. ASSUME NEW x \in Devs, ~Midway(x)'
        PROVE  context'[map[x]] = IF ctx_activate'[x] = 1 THEN context_size ELSE 0
    <3>1. CASE x = d
      <4>1. context[map[d]] = context_size
        BY <1>2, <2>0 DEF OneCall, d
      <4>2. ctx_activate[d] = 1 => context_size > 0
        BY <1>2, <2>0 DEF OneCall
      <4> QED
        BY <1>1, <1>2, <1>3, <3>1, <4>1, <4>2
    <3>2. CASE x # d
      <4>1. ctx_activate'[x] = ctx_activate[x] /\ ~Midway(x)
        BY <1>1, <1>3, <1>9, <2>2, <3>2
      <4> QED
        BY <1>2, <2>0, <4>1 DEF OneCall
    <3> QED
      BY <3>1, <3>2
  <2>3. ASSUME NEW u \in Threads
        PROVE  /\ pc'[u] = "retain" => context'[map[on'[u]]] = context_size
               /\ pc'[u] = "release" => context'[map[on'[u]]] = 0
    <3>1. u # t => pc'[u] = pc[u] /\ on'[u] = on[u]
      BY <1>10
    <3> QED
      BY <1>2, <1>11, <2>0, <3>1 DEF OneCall
  <2>4. \A m \in Devs : (\A x \in Devs : map[x] # m) => context'[m] = 0
    BY <1>2, <2>0 DEF OneCall
  <2>5. \A x \in Devs : ctx_activate'[x] = 1 => context_size > 0
    BY <1>1, <1>3, <2>0 DEF OneCall
  <2> QED
    BY <2>1, <2>2, <2>3, <2>4, <2>5
<1>14. FlagIs'
  <2> SUFFICES ASSUME context_size > 0, foul' \cap {"failed", "raced", "nested"} = {}
               PROVE  /\ \A x \in Devs : ~Midway(x)' => (ctx_activate'[x] = 1 <=> refs'[x] > 0)
                      /\ \A u \in Threads :
                           /\ pc'[u] = "retain" => refs'[on'[u]] > 0
                           /\ pc'[u] = "release" => refs'[on'[u]] = 1
    BY <1>2 DEF FlagIs
  <2>0. /\ \A x \in Devs : ~Midway(x) => (ctx_activate[x] = 1 <=> refs[x] > 0)
        /\ \A u \in Threads :
             /\ pc[u] = "retain" => refs[on[u]] > 0
             /\ pc[u] = "release" => refs[on[u]] = 1
    BY <1>2 DEF ContextInv, FlagIs
  <2>1. ASSUME NEW x \in Devs, ~Midway(x)' PROVE ctx_activate'[x] = 1 <=> refs'[x] > 0
    <3>1. CASE x = d
      <4>1. refs[d] > 0
        BY <1>2, <2>0 DEF d
      <4> QED
        BY <1>1, <1>2, <1>3, <3>1, <4>1
    <3>2. CASE x # d
      BY <1>1, <1>2, <1>3, <1>9, <2>0, <2>1, <3>2
    <3> QED
      BY <3>1, <3>2
  <2>2. ASSUME NEW u \in Threads
        PROVE  /\ pc'[u] = "retain" => refs'[on'[u]] > 0
               /\ pc'[u] = "release" => refs'[on'[u]] = 1
    <3>1. u # t => pc'[u] = pc[u] /\ on'[u] = on[u]
      BY <1>10
    <3> QED
      BY <1>2, <1>11, <2>0, <3>1
  <2> QED
    BY <2>1, <2>2
<1> QED
  BY <1>4, <1>13, <1>14 DEF ContextInv

(* The release ends: the flag is cleared and the driver called. *)
LEMMA ReleaseEnds ==
  ASSUME Types, ContextInv, NEW t \in Threads, release_deactivates(t)
  PROVE  ContextInv' /\ ctx_activate' \in [Devs -> {0, 1}] /\ refs' \in [Devs -> Nat]
<1>1. /\ pc \in [Threads -> {"idle", "retain", "release"}] /\ on \in [Threads -> Devs]
      /\ context \in [Devs -> 0 .. Word - 1] /\ map \in [Devs -> Devs] /\ refs \in [Devs -> Nat]
      /\ ctx_activate \in [Devs -> {0, 1}] /\ context_size \in 0 .. Word - 1 /\ Word \in Nat \ {0}
  <2>1. ContextSize \in 0 .. Word - 1 /\ Word \in Nat \ {0} /\ 0 \in 0 .. Word - 1
    BY Small
  <2> QED
    BY <2>1 DEF Types
<1> DEFINE d == on[t]
           k == Max({refs[d] - 1, 0})
<1>2. /\ pc[t] = "release" /\ d \in Devs
      /\ pc' = [pc EXCEPT ![t] = "idle"] /\ on' = [on EXCEPT ![t] = 0]
      /\ UNCHANGED <<map, context, context_size, foul>>
  BY <1>1 DEF release_deactivates, deviceVars
<1>3. ctx_activate' = [ctx_activate EXCEPT ![d] = 0]
  BY DEF release_deactivates
<1>5. refs' = [refs EXCEPT ![d] = k]
  BY <1>1 DEF release_deactivates
<1>6. k = IF refs[d] - 1 >= 0 THEN refs[d] - 1 ELSE 0
  <2>1. refs[d] \in Nat
    BY <1>1, <1>2
  <2>2. refs[d] - 1 \in Int
    BY <2>1
  <2> QED
    BY <2>2, MaxTwo
<1> HIDE DEF d, k
<1>4. ctx_activate' \in [Devs -> {0, 1}] /\ refs' \in [Devs -> Nat]
  BY <1>1, <1>2, <1>3, <1>5, <1>6
<1>9. \A x \in Devs : ~Midway(x)' /\ x # d => ~Midway(x)
  BY <1>1, <1>2 DEF Midway, d
<1>10. \A u \in Threads : u # t => pc'[u] = pc[u] /\ on'[u] = on[u]
  BY <1>1, <1>2
<1>11. pc'[t] = "idle"
  BY <1>1, <1>2
<1>13. OneCall'
  <2> SUFFICES ASSUME "raced" \notin foul'
               PROVE  /\ \A x, u \in Threads : pc'[x] # "idle" /\ pc'[u] # "idle" /\ on'[x] = on'[u] => x = u
                      /\ \A x \in Devs : ~Midway(x)' =>
                           context'[map[x]] = IF ctx_activate'[x] = 1 THEN context_size ELSE 0
                      /\ \A u \in Threads :
                           /\ pc'[u] = "retain" => context'[map[on'[u]]] = context_size
                           /\ pc'[u] = "release" => context'[map[on'[u]]] = 0
                      /\ \A m \in Devs : (\A x \in Devs : map[x] # m) => context'[m] = 0
                      /\ \A x \in Devs : ctx_activate'[x] = 1 => context_size > 0
    BY <1>2 DEF OneCall
  <2>0. OneCall /\ "raced" \notin foul
    BY <1>2 DEF ContextInv
  <2>1. \A x, u \in Threads : pc'[x] # "idle" /\ pc'[u] # "idle" /\ on'[x] = on'[u] => x = u
    BY <1>10, <1>11, <2>0 DEF OneCall
  <2>2. ASSUME NEW x \in Devs, ~Midway(x)'
        PROVE  context'[map[x]] = IF ctx_activate'[x] = 1 THEN context_size ELSE 0
    <3>1. CASE x = d
      <4>1. context[map[d]] = 0
        BY <1>2, <2>0 DEF OneCall, d
      <4> QED
        BY <1>1, <1>2, <1>3, <3>1, <4>1
    <3>2. CASE x # d
      <4>1. ctx_activate'[x] = ctx_activate[x] /\ ~Midway(x)
        BY <1>1, <1>3, <1>9, <2>2, <3>2
      <4> QED
        BY <1>2, <2>0, <4>1 DEF OneCall
    <3> QED
      BY <3>1, <3>2
  <2>3. ASSUME NEW u \in Threads
        PROVE  /\ pc'[u] = "retain" => context'[map[on'[u]]] = context_size
               /\ pc'[u] = "release" => context'[map[on'[u]]] = 0
    <3>1. u # t => pc'[u] = pc[u] /\ on'[u] = on[u]
      BY <1>10
    <3> QED
      BY <1>2, <1>11, <2>0, <3>1 DEF OneCall
  <2>4. \A m \in Devs : (\A x \in Devs : map[x] # m) => context'[m] = 0
    BY <1>2, <2>0 DEF OneCall
  <2>5. \A x \in Devs : ctx_activate'[x] = 1 => context_size > 0
    BY <1>1, <1>3, <2>0 DEF OneCall
  <2> QED
    BY <2>1, <2>2, <2>3, <2>4, <2>5
<1>14. FlagIs'
  <2> SUFFICES ASSUME context_size > 0, foul' \cap {"failed", "raced", "nested"} = {}
               PROVE  /\ \A x \in Devs : ~Midway(x)' => (ctx_activate'[x] = 1 <=> refs'[x] > 0)
                      /\ \A u \in Threads :
                           /\ pc'[u] = "retain" => refs'[on'[u]] > 0
                           /\ pc'[u] = "release" => refs'[on'[u]] = 1
    BY <1>2 DEF FlagIs
  <2>0. /\ \A x \in Devs : ~Midway(x) => (ctx_activate[x] = 1 <=> refs[x] > 0)
        /\ \A u \in Threads :
             /\ pc[u] = "retain" => refs[on[u]] > 0
             /\ pc[u] = "release" => refs[on[u]] = 1
    BY <1>2 DEF ContextInv, FlagIs
  <2>1. ASSUME NEW x \in Devs, ~Midway(x)' PROVE ctx_activate'[x] = 1 <=> refs'[x] > 0
    <3>1. CASE x = d
      <4>1. refs[d] = 1
        BY <1>2, <2>0 DEF d
      <4> QED
        BY <1>1, <1>2, <1>3, <1>5, <1>6, <3>1, <4>1
    <3>2. CASE x # d
      BY <1>1, <1>2, <1>3, <1>5, <1>9, <2>0, <2>1, <3>2
    <3> QED
      BY <3>1, <3>2
  <2>2. ASSUME NEW u \in Threads
        PROVE  /\ pc'[u] = "retain" => refs'[on'[u]] > 0
               /\ pc'[u] = "release" => refs'[on'[u]] = 1
    <3>1. CASE u # t /\ pc[u] # "idle"
      <4>1. on[u] \in Devs /\ on[u] # d
        BY <1>1, <1>2, <3>1 DEF ContextInv, OneCall, d
      <4>2. refs'[on[u]] = refs[on[u]]
        BY <1>1, <1>5, <4>1
      <4>3. pc'[u] = pc[u] /\ on'[u] = on[u]
        BY <1>10, <3>1
      <4> QED
        BY <2>0, <4>2, <4>3
    <3>2. CASE ~(u # t /\ pc[u] # "idle")
      BY <1>10, <1>11, <3>2
    <3> QED
      BY <3>1, <3>2
  <2> QED
    BY <2>1, <2>2
<1> QED
  BY <1>4, <1>13, <1>14 DEF ContextInv

-----------------------------------------------------------------------------
(* The invariant *)

(* No blocks and no entries add up to nothing. *)
LEMMA SumsOfNone ==
  /\ SizeOf({}) = 0 /\ LenOf({}) = 0
  /\ \A d \in Devs : SizeOf({b \in {} : b.dev = d}) = 0 /\ OnDevice({}, {}, d) = {}
<1> DEFINE w == [b \in {} |-> b.size]
           v == [e \in {} |-> e.len]
<1>1. w \in [{} -> Nat] /\ v \in [{} -> Nat]
  OBVIOUS
<1>2. SizeOf({}) = SumOf(w) /\ LenOf({}) = SumOf(v)
  BY DEF SizeOf, LenOf
<1> HIDE DEF w, v
<1>3. SumOf(w) = 0
  <2>1. \A b \in {} : w[b] = 0
    OBVIOUS
  <2> QED
    BY ONLY <1>1, <2>1, SumZero
<1>4. SumOf(v) = 0
  <2>1. \A b \in {} : v[b] = 0
    OBVIOUS
  <2> QED
    BY ONLY <1>1, <2>1, SumZero
<1>5. \A d \in Devs : {b \in {} : b.dev = d} = {} /\ OnDevice({}, {}, d) = {}
  BY DEF OnDevice
<1> QED
  BY <1>2, <1>3, <1>4, <1>5

(* Nothing is charged, and nothing is live. *)
LEMMA PoolEmpty ==
  ASSUME blocks = {}, list = {}, alimit = 0, map \in [Devs -> Devs], \A d \in Devs : data[d] = 0
  PROVE  PoolInv
<1>1. Word \in Nat \ {0} /\ Physical \in Nat /\ 0 % Word = 0
  BY Small, SmallMod
<1>2. Matched
  BY <1>1, SumsOfNone DEF Matched, LiveOn
<1>3. DataIs
  BY <1>1, SumsOfNone DEF DataIs, Charged
<1>4. InFull
  BY SumsOfNone DEF InFull
<1> QED
  BY <1>2, <1>3, <1>4 DEF PoolInv

(* The invariant holds at first, *)
LEMMA AccountsInit == Init => AccountsInv
<1> SUFFICES ASSUME Init PROVE AccountsInv
  OBVIOUS
<1>0. /\ 0 \in Devs /\ Limits \subseteq [Devs -> Nat] /\ Others \subseteq [Devs -> Nat] /\ 0 \in 0 .. Word - 1
  BY Small, AccountsAssumption DEF AccountsAssumption
<1>1. Types
  <2>1. IsFiniteSet({})
    BY FS_EmptySet
  <2> QED
    BY <1>0, <2>1 DEF Init, Types
<1>2. Opening
  BY DEF Init, Opening
<1>3. PoolInv
  BY <1>0, PoolEmpty DEF Init
<1>4. ContextInv
  <2>1. OneCall
    BY <1>0 DEF Init, OneCall, Midway
  <2>2. FlagIs
    BY DEF Init, FlagIs
  <2> QED
    BY <2>1, <2>2 DEF ContextInv
<1> QED
  BY <1>1, <1>2, <1>3, <1>4 DEF AccountsInv

(* The map is set, first by NVML and then by postInit, while nothing is      *)
(* charged.                                                                  *)
LEMMA OpeningSteps ==
  ASSUME AccountsInv,
         nvmlInit \/ \E found, inTable \in BOOLEAN : postInit(found, inTable)
  PROVE  AccountsInv'
<1>0. /\ Identity \in [Devs -> Devs] /\ (\A d, e \in Devs : Identity[d] = Identity[e] => d = e)
      /\ visible \in [Devs -> Devs] /\ (\A d, e \in Devs : visible[d] = visible[e] => d = e)
  BY AccountsAssumption DEF AccountsInv, Types, AccountsAssumption, Identity
<1>1. /\ ~started /\ map' \in {visible, Identity}
      /\ UNCHANGED <<visible, limit, other, cur, context, ctx_activate, pc, on, poolVars, foul>>
      /\ \/ UNCHANGED <<started, context_size, refs>>
         \/ /\ started' /\ nvml'
            /\ \/ refs' = refs /\ context_size' \in {0, ContextSize}
               \/ refs' = [refs EXCEPT ![0] = @ + 1] /\ context_size' = 0
  <2>1. CASE nvmlInit
    BY <2>1 DEF nvmlInit, contextVars, AccountsInv, Opening
  <2>2. ASSUME NEW found \in BOOLEAN, NEW inTable \in BOOLEAN, postInit(found, inTable)
        PROVE  /\ ~started /\ map' \in {visible, Identity}
               /\ UNCHANGED <<visible, limit, other, cur, context, ctx_activate, pc, on, poolVars, foul>>
               /\ started' /\ nvml'
               /\ \/ refs' = refs /\ context_size' \in {0, ContextSize}
                  \/ refs' = [refs EXCEPT ![0] = @ + 1] /\ context_size' = 0
    <3>1. CASE found
      BY <2>2, <3>1 DEF postInit
    <3>2. CASE ~found
      BY <2>2, <3>2 DEF postInit
    <3> QED
      BY <3>1, <3>2
  <2> QED
    BY <2>1, <2>2
<1>2. /\ context_size = 0 /\ list = {} /\ blocks = {} /\ alimit = 0
      /\ \A d \in Devs : context[d] = 0 /\ data[d] = 0 /\ ctx_activate[d] = 0 /\ refs[d] = 0
      /\ \A t \in Threads : pc[t] = "idle"
  BY <1>1 DEF AccountsInv, Opening
<1>3. map' \in [Devs -> Devs] /\ \A d, e \in Devs : map'[d] = map'[e] => d = e
  BY <1>0, <1>1
<1>4. Types'
  <2>1. refs' \in [Devs -> Nat]
    BY <1>1 DEF AccountsInv, Types
  <2>2. context_size' \in {0, ContextSize}
    BY <1>1 DEF AccountsInv, Types
  <2> QED
    BY <1>1, <1>3, <2>1, <2>2 DEF AccountsInv, Types, poolVars
<1>5. Opening'
  BY <1>1, <1>2, <1>3 DEF Opening, poolVars
<1>6. PoolInv'
  <2>1. Word \in Nat \ {0} /\ Physical \in Nat /\ 0 % Word = 0
    BY Small, SmallMod
  <2>2. blocks' = {} /\ list' = {} /\ alimit' = 0 /\ \A d \in Devs : data'[d] = 0
    BY <1>1, <1>2 DEF poolVars
  <2>3. Matched'
    BY <2>1, <2>2, SumsOfNone DEF Matched, LiveOn
  <2>4. DataIs'
    BY <1>3, <2>1, <2>2, SumsOfNone DEF DataIs, Charged
  <2>5. InFull'
    BY <2>2, SumsOfNone DEF InFull
  <2> QED
    BY <2>3, <2>4, <2>5 DEF PoolInv
<1>7. ContextInv'
  <2>1. /\ \A d \in Devs : context'[d] = 0 /\ ctx_activate'[d] = 0
        /\ \A t \in Threads : pc'[t] = "idle"
    BY <1>1, <1>2
  <2>2. OneCall'
    BY <1>3, <2>1 DEF OneCall
  <2>3. context_size' > 0 => \A d \in Devs : refs'[d] = 0
    BY <1>1, <1>2
  <2>4. FlagIs'
    BY <2>1, <2>3 DEF FlagIs
  <2> QED
    BY <2>2, <2>4 DEF ContextInv
<1> QED
  BY <1>4, <1>5, <1>6, <1>7 DEF AccountsInv

(* and every step keeps it. *)
LEMMA AccountsStep == AccountsInv /\ [Next]_vars => AccountsInv'
<1> SUFFICES ASSUME AccountsInv, [Next]_vars PROVE AccountsInv'
  OBVIOUS
<1>0. Types /\ Opening /\ PoolInv /\ ContextInv /\ 0 \in Devs
  BY AccountsAssumption DEF AccountsInv, AccountsAssumption
<1>1. CASE nvmlInit \/ \E found, inTable \in BOOLEAN : postInit(found, inTable)
  BY <1>1, OpeningSteps
<1>2. ASSUME NEW t \in Threads, NEW d \in Devs, cuDevicePrimaryCtxRetain(t, d) PROVE AccountsInv'
  <2>1. /\ UNCHANGED <<deviceVars, other, cur, context_size, ctx_activate, started, poolVars>>
        /\ pc' = [pc EXCEPT ![t] = "retain"] /\ on' = [on EXCEPT ![t] = d] /\ foul \subseteq foul'
    BY <1>2, Zenon DEF cuDevicePrimaryCtxRetain, Marks
  <2>2. ContextInv' /\ started /\ context' \in [Devs -> 0 .. Word - 1] /\ refs' \in [Devs -> Nat]
    BY <1>0, <1>2, Retains
  <2>3. Types'
    BY <1>0, <2>1, <2>2 DEF Types, deviceVars, poolVars
  <2>4. Opening'
    BY <1>0, <2>1, <2>2 DEF Opening, deviceVars
  <2>5. PoolInv'
    BY <1>0, <2>1, PoolQuiet DEF deviceVars, poolVars
  <2> QED
    BY <2>2, <2>3, <2>4, <2>5 DEF AccountsInv
<1>3. ASSUME NEW t \in Threads, NEW d \in Devs, cuDevicePrimaryCtxRelease_v2(t, d) PROVE AccountsInv'
  <2>1. /\ UNCHANGED <<deviceVars, other, cur, context_size, ctx_activate, refs, started, poolVars>>
        /\ pc' = [pc EXCEPT ![t] = "release"] /\ on' = [on EXCEPT ![t] = d] /\ foul \subseteq foul'
    BY <1>3, Zenon DEF cuDevicePrimaryCtxRelease_v2, Marks
  <2>2. ContextInv' /\ started /\ context' \in [Devs -> 0 .. Word - 1]
    BY <1>0, <1>3, Releases
  <2>3. Types'
    BY <1>0, <2>1, <2>2 DEF Types, deviceVars, poolVars
  <2>4. Opening'
    BY <1>0, <2>1, <2>2 DEF Opening, deviceVars
  <2>5. PoolInv'
    BY <1>0, <2>1, PoolQuiet DEF deviceVars, poolVars
  <2> QED
    BY <2>2, <2>3, <2>4, <2>5 DEF AccountsInv
<1>4. ASSUME NEW t \in Threads, NEW d \in Devs, cuCtxSetCurrent(t, d) PROVE AccountsInv'
  <2>1. UNCHANGED <<deviceVars, other, contextVars, poolVars, foul>> /\ cur' = [cur EXCEPT ![t] = d]
    BY <1>4 DEF cuCtxSetCurrent
  <2>2. Types'
    BY <1>0, <2>1 DEF Types, deviceVars, poolVars, contextVars
  <2>3. Opening'
    BY <1>0, <2>1 DEF Opening, deviceVars, poolVars, contextVars
  <2>4. PoolInv'
    BY <1>0, <2>1, PoolQuiet DEF deviceVars, poolVars, contextVars
  <2>5. ContextInv'
    BY <1>0, <2>1, ContextQuiet DEF deviceVars, contextVars
  <2> QED
    BY <2>2, <2>3, <2>4, <2>5 DEF AccountsInv
<1>5. ASSUME NEW t \in Threads, retain_activates(t) \/ release_deactivates(t) PROVE AccountsInv'
  <2>1. /\ UNCHANGED <<deviceVars, other, cur, context, context_size, started, poolVars, foul>>
        /\ pc' = [pc EXCEPT ![t] = "idle"] /\ on' = [on EXCEPT ![t] = 0] /\ pc[t] # "idle"
    BY <1>5 DEF retain_activates, release_deactivates
  <2>2. ContextInv' /\ ctx_activate' \in [Devs -> {0, 1}] /\ refs' \in [Devs -> Nat]
    <3>1. CASE retain_activates(t)
      <4>1. refs' = refs
        BY <3>1 DEF retain_activates
      <4> QED
        BY <1>0, <3>1, <4>1, RetainEnds DEF Types
    <3>2. CASE release_deactivates(t)
      BY <1>0, <3>2, ReleaseEnds
    <3> QED
      BY <1>5, <3>1, <3>2
  <2>3. Types'
    BY <1>0, <2>1, <2>2 DEF Types, deviceVars, poolVars
  <2>4. Opening'
    BY <1>0, <2>1, <2>2 DEF Opening, deviceVars
  <2>5. PoolInv'
    BY <1>0, <2>1, PoolQuiet DEF deviceVars, poolVars
  <2> QED
    BY <2>2, <2>3, <2>4, <2>5 DEF AccountsInv
<1>6. ASSUME NEW t \in Threads, NEW a \in Addrs, NEW size \in Sizes, NEW pool \in Pools(cur[t]),
             add_chunk_async_fails(t, size, a, pool) \/ add_chunk_async(t, size, a, pool)
      PROVE  AccountsInv'
  <2>1. UNCHANGED <<deviceVars, other, cur, contextVars>> /\ foul \subseteq foul' /\ started
    BY <1>6, Zenon DEF add_chunk_async_fails, add_chunk_async, Marks
  <2>2. /\ PoolInv'
        /\ blocks' \subseteq Block /\ IsFiniteSet(blocks') /\ list' \subseteq Entry /\ IsFiniteSet(list')
        /\ high' \in [Devs -> Nat] /\ data' \in [Devs -> 0 .. Word - 1] /\ alimit' \in Int
    <3>1. CASE add_chunk_async_fails(t, size, a, pool)
      <4>1. PoolInv' /\ blocks' \subseteq Block /\ IsFiniteSet(blocks') /\ high' \in [Devs -> Nat]
        BY <1>0, <3>1, PoolFails
      <4>2. UNCHANGED <<data, alimit, list>>
        BY <3>1 DEF add_chunk_async_fails
      <4> QED
        BY <1>0, <4>1, <4>2 DEF Types
    <3>2. CASE add_chunk_async(t, size, a, pool)
      BY <1>0, <3>2, PoolAdds
    <3> QED
      BY <1>6, <3>1, <3>2
  <2>3. Types'
    BY <1>0, <2>1, <2>2 DEF Types, deviceVars, contextVars
  <2>4. Opening'
    BY <1>0, <2>1 DEF Opening, deviceVars, contextVars
  <2>5. ContextInv'
    BY <1>0, <2>1, ContextQuiet DEF deviceVars, contextVars
  <2> QED
    BY <2>2, <2>3, <2>4, <2>5 DEF AccountsInv
<1>7. ASSUME NEW t \in Threads, NEW a \in Addrs, NEW ok \in BOOLEAN, remove_chunk_async(t, a, ok)
      PROVE  AccountsInv'
  <2>1. UNCHANGED <<deviceVars, other, cur, contextVars, high>> /\ foul \subseteq foul'
    BY <1>7, Zenon DEF remove_chunk_async, Marks
  <2>2. /\ PoolInv' /\ started
        /\ blocks' \subseteq Block /\ IsFiniteSet(blocks') /\ list' \subseteq Entry /\ IsFiniteSet(list')
        /\ data' \in [Devs -> 0 .. Word - 1] /\ alimit' \in Int
    BY <1>0, <1>7, PoolRemoves
  <2>3. Types'
    BY <1>0, <2>1, <2>2 DEF Types, deviceVars, contextVars
  <2>4. Opening'
    BY <1>0, <2>1, <2>2 DEF Opening, deviceVars, contextVars
  <2>5. ContextInv'
    BY <1>0, <2>1, ContextQuiet DEF deviceVars, contextVars
  <2> QED
    BY <2>2, <2>3, <2>4, <2>5 DEF AccountsInv
<1>8. ASSUME NEW d \in Devs, cuMemPoolSetAttribute(d) PROVE AccountsInv'
  <2>1. UNCHANGED <<deviceVars, other, cur, contextVars, data, alimit, list, blocks, foul>>
        /\ high' = [high EXCEPT ![d] = Reserved(d, blocks)]
    BY <1>8 DEF cuMemPoolSetAttribute
  <2>2. high' \in [Devs -> Nat]
    <3>1. Reserved(d, blocks) \in Nat
      BY <1>0, ReservedNat DEF Types
    <3> QED
      BY <1>0, <2>1, <3>1 DEF Types
  <2>3. Types'
    BY <1>0, <2>1, <2>2 DEF Types, deviceVars, contextVars
  <2>4. Opening'
    BY <1>0, <2>1 DEF Opening, deviceVars, contextVars
  <2>5. PoolInv'
    BY <1>0, <2>1, PoolQuiet DEF deviceVars, contextVars
  <2>6. ContextInv'
    BY <1>0, <2>1, ContextQuiet DEF deviceVars, contextVars
  <2> QED
    BY <2>3, <2>4, <2>5, <2>6 DEF AccountsInv
<1>9. ASSUME NEW usage \in Others, others_use(usage) PROVE AccountsInv'
  <2>1. UNCHANGED <<deviceVars, cur, contextVars, poolVars, foul>> /\ other' = usage
    BY <1>9 DEF others_use
  <2>2. usage \in [Devs -> Nat]
    BY AccountsAssumption DEF AccountsAssumption
  <2>3. Types'
    BY <1>0, <2>1, <2>2 DEF Types, deviceVars, contextVars, poolVars
  <2>4. Opening'
    BY <1>0, <2>1 DEF Opening, deviceVars, contextVars, poolVars
  <2>5. PoolInv'
    BY <1>0, <2>1, PoolQuiet DEF deviceVars, contextVars, poolVars
  <2>6. ContextInv'
    BY <1>0, <2>1, ContextQuiet DEF deviceVars, contextVars
  <2> QED
    BY <2>3, <2>4, <2>5, <2>6 DEF AccountsInv
<1>10. CASE UNCHANGED vars
  <2>1. UNCHANGED <<deviceVars, other, cur, contextVars, poolVars, foul>>
    BY <1>10 DEF vars
  <2>3. Types'
    BY <1>0, <2>1 DEF Types, deviceVars, contextVars, poolVars
  <2>4. Opening'
    BY <1>0, <2>1 DEF Opening, deviceVars, contextVars, poolVars
  <2>5. PoolInv'
    BY <1>0, <2>1, PoolQuiet DEF deviceVars, contextVars, poolVars
  <2>6. ContextInv'
    BY <1>0, <2>1, ContextQuiet DEF deviceVars, contextVars
  <2> QED
    BY <2>3, <2>4, <2>5, <2>6 DEF AccountsInv
<1> QED
  BY <1>1, <1>2, <1>3, <1>4, <1>5, <1>6, <1>7, <1>8, <1>9, <1>10 DEF Next

-----------------------------------------------------------------------------
(* What the invariant says *)

(* Every behaviour keeps the invariant. *)
LEMMA AccountsInvariant == Spec => []AccountsInv
<1>1. Init => AccountsInv
  BY AccountsInit
<1>2. AccountsInv /\ [Next]_vars => AccountsInv'
  BY AccountsStep
<1> QED
  BY <1>1, <1>2, PTL DEF Spec

(* The charges of a device are at most what is live on it, and that is not  *)
(* more than it has.                                                        *)
LEMMA ChargedAtMost ==
  ASSUME Types, Matched, NEW d \in Devs
  PROVE  /\ Charged(d) \in Nat /\ LiveOn(d) \in Nat /\ Charged(d) <= LiveOn(d) /\ LiveOn(d) <= Physical
         /\ Charged(d) % Word = Charged(d)
<1>1. /\ blocks \subseteq Block /\ IsFiniteSet(blocks) /\ list \subseteq Entry /\ IsFiniteSet(list)
      /\ \A e, f \in list : e.addr = f.addr => e = f
      /\ \A b, c \in blocks : b.addr = c.addr => b = c
      /\ \A e \in list : \E b \in blocks : b.addr = e.addr /\ e.len <= b.size
      /\ LiveOn(d) <= Physical
  BY DEF Types, Matched
<1> DEFINE es == OnDevice(list, blocks, d)
           bs == {b \in blocks : b.dev = d}
<1>2. es \subseteq list /\ bs \subseteq blocks
  BY DEF OnDevice
<1>3. \A e \in es : \E b \in bs : b.addr = e.addr /\ e.len <= b.size
  BY <1>1 DEF OnDevice
<1>4. Charged(d) = LenOf(es) /\ LiveOn(d) = SizeOf(bs)
  BY DEF Charged, LiveOn
<1> HIDE DEF es, bs
<1>5. es \in SUBSET Entry /\ bs \in SUBSET Block /\ IsFiniteSet(es) /\ IsFiniteSet(bs)
  BY <1>1, <1>2, FS_Subset
<1>6. \A e, f \in es : e.addr = f.addr => e = f
  BY <1>1, <1>2
<1>7. LenOf(es) <= SizeOf(bs)
  BY <1>3, <1>5, <1>6, LenAtMost
<1>8. LenOf(es) \in Nat /\ SizeOf(bs) \in Nat
  BY <1>5, LenOfEntries, SizeOfBlocks
<1>9. Charged(d) \in Nat /\ LiveOn(d) \in Nat /\ Charged(d) <= LiveOn(d) /\ LiveOn(d) <= Physical
  BY <1>1, <1>4, <1>7, <1>8
<1>10. Charged(d) % Word = Charged(d)
  <2>1. PICK x : x = Charged(d)
    OBVIOUS
  <2>2. Word \in Nat \ {0} /\ x \in 0 .. Word - 1
    BY <1>9, <2>1, Small
  <2>3. x % Word = x
    BY <2>2, SmallMod
  <2> QED
    BY <2>1, <2>3
<1> QED
  BY <1>9, <1>10

(* When every block has an entry of its size, they are the same.            *)
LEMMA ChargedInFull ==
  ASSUME Types, Matched, NEW d \in Devs,
         \A b \in blocks : \E e \in list : e.addr = b.addr /\ e.len = b.size
  PROVE  Charged(d) = LiveOn(d)
<1>1. /\ blocks \subseteq Block /\ IsFiniteSet(blocks) /\ list \subseteq Entry /\ IsFiniteSet(list)
      /\ \A b, c \in blocks : b.addr = c.addr => b = c
  BY DEF Types, Matched
<1> DEFINE es == OnDevice(list, blocks, d)
           bs == {b \in blocks : b.dev = d}
<1>2. es \subseteq list /\ bs \subseteq blocks
  BY DEF OnDevice
<1>3. ASSUME NEW b \in bs PROVE \E e \in es : e.addr = b.addr /\ b.size <= e.len
  <2>1. PICK e \in list : e.addr = b.addr /\ e.len = b.size
    OBVIOUS
  <2>2. e \in es
    BY <2>1 DEF OnDevice
  <2>3. b.size <= e.len
    BY <1>1, <2>1 DEF Entry
  <2> QED
    BY <2>1, <2>2, <2>3
<1>4. Charged(d) = LenOf(es) /\ LiveOn(d) = SizeOf(bs)
  BY DEF Charged, LiveOn
<1> HIDE DEF es, bs
<1>5. es \in SUBSET Entry /\ bs \in SUBSET Block /\ IsFiniteSet(es)
  BY <1>1, <1>2, FS_Subset
<1>6. \A b, c \in bs : b.addr = c.addr => b = c
  BY <1>1, <1>2
<1>7. SizeOf(bs) <= LenOf(es)
  BY <1>3, <1>5, <1>6, SizeAtMost
<1>8. Charged(d) \in Nat /\ LiveOn(d) \in Nat /\ Charged(d) <= LiveOn(d)
  BY ChargedAtMost
<1> QED
  BY <1>4, <1>7, <1>8

(* No device is charged more for the pool than is live in it, whatever calls *)
(* fail, whatever devices the process uses and wherever the driver takes the *)
(* memory from, as long as no block is freed under another device's context  *)
(* and none comes at a high-water mark of 0: add_chunk_async charges at most *)
(* the size of the block, and remove_chunk_async takes back what was charged.*)
THEOREM PoolChargeBounded == Spec => []PoolNotOvercharged
<1>1. AccountsInv => PoolNotOvercharged
  <2> SUFFICES ASSUME AccountsInv, started, foul \cap {"switched", "uncharged"} = {}, NEW d \in Devs
               PROVE  data[map[d]] <= LiveOn(d)
    BY DEF PoolNotOvercharged
  <2>1. Types /\ Matched /\ data[map[d]] = Charged(d) % Word
    BY DEF AccountsInv, PoolInv, DataIs
  <2>2. Charged(d) <= LiveOn(d) /\ Charged(d) % Word = Charged(d)
    BY <2>1, ChargedAtMost
  <2> QED
    BY <2>1, <2>2
<1> QED
  BY <1>1, AccountsInvariant, PTL

(* As long as all blocks come from the pool of one device, no call fails and *)
(* no block is freed under another device's context, what is charged is what *)
(* is live: the high-water mark from which add_chunk_async derives the  *)
(* charge never hides a block, not even after cuMemPoolSetAttribute has      *)
(* reset it.                                                                 *)
THEOREM PoolChargeExact == Spec => []PoolCovered
<1>1. AccountsInv => PoolCovered
  <2> SUFFICES ASSUME AccountsInv, ~Remapped, foul \cap Trouble = {}, NEW d \in Devs
               PROVE  data[visible[d]] = LiveOn(d)
    BY DEF PoolCovered, Trouble
  <2>0. Types /\ Opening /\ Matched /\ DataIs /\ InFull /\ visible[d] \in Devs
    BY AccountsAssumption DEF AccountsInv, PoolInv, Types, AccountsAssumption
  <2>1. CASE ~started
    <3>1. data[visible[d]] = 0 /\ blocks = {}
      BY <2>0, <2>1 DEF Opening
    <3> QED
      BY <3>1, SumsOfNone DEF LiveOn
  <2>2. CASE started
    <3>1. map = visible /\ foul \cap {"switched", "uncharged"} = {}
      BY <2>2 DEF Remapped, Trouble
    <3>2. data[visible[d]] = Charged(d) % Word
      BY <2>0, <2>2, <3>1 DEF DataIs
    <3>3. \A b \in blocks : \E e \in list : e.addr = b.addr /\ e.len = b.size
      BY <2>0 DEF InFull
    <3>4. Charged(d) % Word = Charged(d) /\ Charged(d) = LiveOn(d)
      BY <2>0, <3>3, ChargedAtMost, ChargedInFull
    <3> QED
      BY <3>2, <3>4
  <2> QED
    BY <2>1, <2>2
<1> QED
  BY <1>1, AccountsInvariant, PTL

(* A release takes back at most what a retain has charged, and a free what   *)
(* the allocation has, so that neither account of any device ever wraps      *)
(* below zero, unless calls for a context overlap, a block is freed under    *)
(* another device's context or one comes at a high-water mark of 0.          *)
THEOREM AccountsStayPositive == Spec => []NoUnderflow
<1>1. AccountsInv => NoUnderflow
  <2> SUFFICES ASSUME AccountsInv, foul \cap {"raced", "switched", "uncharged"} = {}, NEW n \in Devs
               PROVE  context[n] < Word \div 2 /\ data[n] < Word \div 2
    BY DEF NoUnderflow
  <2>0. Types /\ Opening /\ Matched /\ DataIs /\ OneCall /\ "raced" \notin foul
        /\ foul \cap {"switched", "uncharged"} = {}
    BY DEF AccountsInv, PoolInv, ContextInv
  <2> DEFINE h == Word \div 2
  <2>1. Physical \in Nat /\ Physical < h /\ ContextSize \in 0 .. Physical /\ h \in Int
    <3>1. Physical < h /\ Word \in Nat \ {0} /\ Physical \in Nat /\ ContextSize \in 0 .. Physical
      BY Small
    <3> QED
      BY <3>1
  <2> HIDE DEF h
  <2>2. CASE ~started
    <3>1. context[n] = 0 /\ data[n] = 0
      BY <2>0, <2>2 DEF Opening
    <3> QED
      BY <2>1, <3>1 DEF h
  <2>3. CASE started
    <3>1. data[n] < h
      <4>1. CASE \A d \in Devs : map[d] # n
        <5>1. data[n] = 0
          BY <2>0, <2>3, <4>1 DEF DataIs
        <5> QED
          BY <2>1, <5>1
      <4>2. ASSUME NEW d \in Devs, map[d] = n PROVE data[n] < h
        <5>1. data[n] = Charged(d) % Word
          BY <2>0, <2>3, <4>2 DEF DataIs
        <5>2. /\ Charged(d) \in Nat /\ LiveOn(d) \in Nat /\ Charged(d) <= LiveOn(d) /\ LiveOn(d) <= Physical
              /\ Charged(d) % Word = Charged(d)
          BY <2>0, ChargedAtMost
        <5> QED
          BY <2>1, <5>1, <5>2
      <4> QED
        BY <4>1, <4>2
    <3>2. context[n] < h
      <4>0. context_size \in 0 .. Physical
        BY <2>0, <2>1 DEF Types
      <4>1. CASE \A d \in Devs : map[d] # n
        <5>1. context[n] = 0
          BY <2>0, <4>1 DEF OneCall
        <5> QED
          BY <2>1, <5>1
      <4>2. ASSUME NEW d \in Devs, map[d] = n PROVE context[n] < h
        <5>1. context[n] = 0 \/ context[n] = context_size
          <6>1. CASE ~Midway(d)
            BY <2>0, <4>2, <6>1 DEF OneCall
          <6>2. CASE Midway(d)
            <7>1. PICK t \in Threads : pc[t] # "idle" /\ on[t] = d
              BY <6>2 DEF Midway
            <7>2. pc[t] \in {"idle", "retain", "release"}
              BY <2>0 DEF Types
            <7> QED
              BY <2>0, <4>2, <7>1, <7>2 DEF OneCall
          <6> QED
            BY <6>1, <6>2
        <5> QED
          BY <2>1, <4>0, <5>1
      <4> QED
        BY <4>1, <4>2
    <3> QED
      BY <3>1, <3>2 DEF h
  <2> QED
    BY <2>2, <2>3
<1> QED
  BY <1>1, AccountsInvariant, PTL

(* The one flag that context.c keeps for a device is enough to charge its    *)
(* primary context exactly once while it is held, however retains and        *)
(* releases follow each other, as long as no retain has failed, no two calls *)
(* for the device have overlapped and no context was held twice when a       *)
(* reference to it was released.                                             *)
THEOREM ContextsChargedOnce == Spec => []ContextChargedOnce
<1>1. AccountsInv => ContextChargedOnce
  <2> SUFFICES ASSUME AccountsInv, ~Remapped, context_size > 0,
                      foul \cap {"failed", "raced", "nested"} = {}, NEW d \in Devs, ~Midway(d)
               PROVE  context[visible[d]] = IF refs[d] > 0 THEN context_size ELSE 0
    BY DEF ContextChargedOnce
  <2>1. Opening /\ OneCall /\ FlagIs /\ "raced" \notin foul
    BY DEF AccountsInv, ContextInv
  <2>2. started
    BY <2>1 DEF Opening
  <2>3. map = visible
    BY <2>2 DEF Remapped
  <2>4. context[map[d]] = IF ctx_activate[d] = 1 THEN context_size ELSE 0
    BY <2>1 DEF OneCall
  <2>5. ctx_activate[d] = 1 <=> refs[d] > 0
    BY <2>1 DEF FlagIs
  <2> QED
    BY <2>3, <2>4, <2>5
<1> QED
  BY <1>1, AccountsInvariant, PTL

(* The CUDA query, the NVML query and the admission check agree about every  *)
(* device that has the same index in both and a limit it can hold, while its *)
(* usage is within the limit: what they call free can be allocated, and not  *)
(* one byte more.                                                            *)
THEOREM QueriesTellTheSame == Spec => []QueriesAgree
<1>1. AccountsInv => QueriesAgree
  <2> SUFFICES ASSUME AccountsInv, NEW d \in Devs, started, map[d] = d, limit[d] # 0,
                      limit[d] <= Physical, Usage(d) <= limit[d]
               PROVE  LET r == cuMemGetInfo_v2(d)
                      IN  /\ \A free \in {0, Physical} : nvmlDeviceGetMemoryInfo(d, free) = r
                          /\ r.total = cuDeviceTotalMem_v2(d)
                          /\ r.free + r.used = r.total
                          /\ ~oom_check(d, r.free) /\ oom_check(d, r.free + 1)
    BY DEF QueriesAgree
  <2>0. /\ map \in [Devs -> Devs] /\ limit \in [Devs -> Nat] /\ context \in [Devs -> 0 .. Word - 1]
        /\ data \in [Devs -> 0 .. Word - 1] /\ other \in [Devs -> Nat]
        /\ \A e \in Devs : map[e] = map[d] => e = d
    BY DEF AccountsInv, Types, Opening
  <2>1. Word \in Nat \ {0} /\ Physical \in Nat /\ Physical + 1 < Word /\ d \in Int /\ d >= 0
    BY Small, AccountsAssumption DEF AccountsAssumption
  <2>2. PICK l : l = limit[d]
    OBVIOUS
  <2>3. PICK u : u = Usage(d)
    OBVIOUS
  <2>4. u \in Nat /\ u <= l /\ l \in Nat /\ l # 0 /\ l <= Physical
    <3>1. context[d] \in Int /\ data[d] \in Int /\ other[d] \in Int
      BY <2>0, <2>1
    <3>2. Plus(context[d], data[d]) \in Int
      <4>1. Plus(context[d], data[d]) \in 0 .. Word - 1
        BY <3>1, WordSized
      <4> QED
        BY <2>1, <4>1
    <3>3. Usage(d) \in 0 .. Word - 1
      BY <3>1, <3>2, WordSized DEF Usage
    <3> QED
      BY <2>0, <2>1, <2>2, <2>3, <3>3
  <2>5. (l - u) % Word = l - u /\ (u + (l - u)) % Word = l /\ (u + (l - u + 1)) % Word = l + 1
    <3>1. l - u \in 0 .. Word - 1 /\ l \in 0 .. Word - 1 /\ l + 1 \in 0 .. Word - 1
          /\ u + (l - u) = l /\ u + (l - u + 1) = l + 1
      BY <2>1, <2>4
    <3>2. \A x \in 0 .. Word - 1 : x % Word = x
      BY <2>1, SmallMod
    <3> QED
      BY <3>1, <3>2
  <2>6. cuMemGetInfo_v2(d) = Report(l - u, l, u)
    <3>1. Min({l, Physical}) = l /\ Max({l - u, 0}) = l - u
      BY <2>1, <2>4, MinTwo, MaxTwo
    <3>2. l # 0 /\ ~(l < u)
      BY <2>4
    <3> QED
      BY <2>2, <2>3, <3>1, <3>2 DEF cuMemGetInfo_v2
  <2>7. nvml_to_cuda_map(d) = d
    <3>1. {e \in Devs : map[e] = d} = {d, d}
      BY <2>0
    <3>2. Min({d, d}) = d
      BY <2>1, MinTwo
    <3> QED
      BY <3>1, <3>2 DEF nvml_to_cuda_map
  <2>8. ASSUME NEW free \in {0, Physical}
        PROVE  nvmlDeviceGetMemoryInfo(d, free) = Report(l - u, l, u)
    <3>1. Minus(l, u) = l - u /\ ~(d < 0) /\ l # 0
      BY <2>1, <2>4, <2>5 DEF Minus
    <3> QED
      BY <2>2, <2>3, <2>7, <3>1 DEF nvmlDeviceGetMemoryInfo
  <2>9. ~oom_check(d, l - u) /\ oom_check(d, l - u + 1)
    <3>1. Plus(u, l - u) = l /\ Plus(u, l - u + 1) = l + 1
      BY <2>5 DEF Plus
    <3>2. ~(l > l) /\ l + 1 > l
      BY <2>4
    <3> QED
      BY <2>2, <2>3, <3>1, <3>2 DEF oom_check
  <2>10. /\ Report(l - u, l, u).free = l - u /\ Report(l - u, l, u).total = l /\ Report(l - u, l, u).used = u
         /\ (l - u) + u = l
    BY <2>4 DEF Report
  <2> QED
    BY <2>2, <2>6, <2>8, <2>9, <2>10 DEF cuDeviceTotalMem_v2
<1> QED
  BY <1>1, AccountsInvariant, PTL
=============================================================================
