----------------------------- MODULE SumProofs ------------------------------
(***************************************************************************)
(* Facts about unsigned arithmetic and about sums of sizes, for the proofs *)
(* about the totals of modules Allocator and Accounts.                     *)
(***************************************************************************)
EXTENDS Sums, TLAPS, FiniteSetTheorems, FunctionTheorems

-----------------------------------------------------------------------------
(* Unsigned arithmetic *)

(* Division with remainder, *)
LEMMA RemIs ==
  ASSUME NEW W \in Nat \ {0}, NEW x \in Int
  PROVE  x % W \in 0 .. W - 1 /\ x \div W \in Int /\ x = W * (x \div W) + (x % W)
OBVIOUS

(* whose remainder is unique, *)
LEMMA RemUnique ==
  ASSUME NEW W \in Nat \ {0}, NEW q \in Int, NEW k \in Int, NEW r \in 0 .. W - 1, NEW s \in 0 .. W - 1,
         W * q + r = W * k + s
  PROVE  r = s
<1>1. CASE q = k
  BY <1>1
<1>2. CASE q > k
  <2>1. PICK d \in Nat : q = k + 1 + d
    <3>1. q - k - 1 \in Nat /\ q = k + 1 + (q - k - 1)
      BY <1>2
    <3> QED
      BY <3>1
  <2>2. W * q = W * k + W + W * d
    BY <2>1
  <2>3. W * d \in Nat
    OBVIOUS
  <2> QED
    BY <2>2, <2>3
<1>3. CASE q < k
  <2>1. PICK d \in Nat : k = q + 1 + d
    <3>1. k - q - 1 \in Nat /\ k = q + 1 + (k - q - 1)
      BY <1>3
    <3> QED
      BY <3>1
  <2>2. W * k = W * q + W + W * d
    BY <2>1
  <2>3. W * d \in Nat
    OBVIOUS
  <2> QED
    BY <2>2, <2>3
<1> QED
  BY <1>1, <1>2, <1>3

(* so that unsigned arithmetic may be reduced at any point. *)
LEMMA ModAdd ==
  ASSUME NEW W \in Nat \ {0}, NEW a \in Int, NEW b \in Int
  PROVE  ((a % W) + b) % W = (a + b) % W
<1> DEFINE r == a % W
           c == r + b
           x == a + b
           q == a \div W
<1>1. r \in Int /\ q \in Int /\ a = W * q + r
  BY RemIs
<1>2. c \in Int /\ x \in Int
  BY <1>1
<1> DEFINE k == c \div W
           j == x \div W
           s == c % W
           u == x % W
<1>3. s \in 0 .. W - 1 /\ k \in Int /\ c = W * k + s
  <2> HIDE DEF c
  <2> QED
    BY <1>2, RemIs
<1>4. u \in 0 .. W - 1 /\ j \in Int /\ x = W * j + u
  <2> HIDE DEF x
  <2> QED
    BY <1>2, RemIs
<1>5. x = W * q + c
  <2> HIDE DEF q, r
  <2> QED
    BY <1>1
<1> HIDE DEF k, j, s, u, c, x, q
<1>6. W * (q + k) + s = W * j + u
  <2>1. W * (q + k) = W * q + W * k
    BY <1>1, <1>3
  <2>2. W * q \in Int /\ W * k \in Int /\ W * j \in Int
    BY <1>1, <1>3, <1>4
  <2> QED
    BY <1>3, <1>4, <1>5, <2>1, <2>2
<1>7. q + k \in Int
  BY <1>1, <1>3
<1> HIDE DEF r
<1>8. s = u
  <2> DEFINE m == q + k
  <2>1. m \in Int /\ W * m + s = W * j + u
    BY <1>6, <1>7
  <2> HIDE DEF m
  <2> QED
    BY <1>3, <1>4, <2>1, RemUnique
<1> QED
  BY <1>8 DEF s, u, c, x, r

(* A number below the word is its own remainder. *)
LEMMA SmallMod ==
  ASSUME NEW W \in Nat \ {0}, NEW x \in 0 .. W - 1
  PROVE  x % W = x
<1> DEFINE q == x \div W
           r == x % W
<1>1. r \in 0 .. W - 1 /\ q \in Int /\ x = W * q + r
  BY RemIs
<1> HIDE DEF q, r
<1>2. W * q + r = W * 0 + x
  BY <1>1
<1>3. r = x
  BY <1>1, <1>2, RemUnique
<1> QED
  BY <1>3 DEF r

-----------------------------------------------------------------------------
(* Sums *)

(* A unit is an index and a number up to the value there. *)
LEMMA UnitsAre ==
  ASSUME NEW I, NEW w \in [I -> Nat]
  PROVE  Units(w) = {u \in I \X (Nat \ {0}) : u[2] <= w[u[1]]}
<1> DEFINE V == {u \in I \X (Nat \ {0}) : u[2] <= w[u[1]]}
<1>1. DOMAIN w = I /\ \A i \in I : w[i] \in Nat
  OBVIOUS
<1>2. ASSUME NEW u \in Units(w) PROVE u \in V
  <2>1. PICK i \in I : u \in {i} \X (1 .. w[i])
    BY <1>1 DEF Units
  <2>2. u[1] = i /\ u[2] \in 1 .. w[i] /\ u = <<u[1], u[2]>> /\ w[i] \in Nat
    BY <1>1, <2>1
  <2> QED
    BY <2>2
<1>3. ASSUME NEW u \in V PROVE u \in Units(w)
  <2>1. u[1] \in I /\ u[2] \in Nat \ {0} /\ u[2] <= w[u[1]] /\ u = <<u[1], u[2]>> /\ w[u[1]] \in Nat
    BY <1>1
  <2>2. u \in {u[1]} \X (1 .. w[u[1]])
    BY <2>1
  <2> QED
    BY <1>1, <2>1, <2>2 DEF Units
<1> QED
  BY <1>2, <1>3

(* The sum of finitely many numbers is a number. *)
LEMMA SumNat ==
  ASSUME NEW I, IsFiniteSet(I), NEW w \in [I -> Nat]
  PROVE  IsFiniteSet(Units(w)) /\ SumOf(w) = Cardinality(Units(w)) /\ SumOf(w) \in Nat
<1> DEFINE f == [i \in I |-> {i} \X (1 .. w[i])]
           S == {{i} \X (1 .. w[i]) : i \in I}
<1>1. f \in Surjection(I, S)
  BY Fun_IsSurj
<1>2. IsFiniteSet(S)
  BY <1>1, FS_Surjection
<1>3. ASSUME NEW T \in S PROVE IsFiniteSet(T)
  <2>1. PICK i \in I : T = {i} \X (1 .. w[i])
    OBVIOUS
  <2>2. IsFiniteSet({i}) /\ IsFiniteSet(1 .. w[i])
    <3>1. w[i] \in Nat
      OBVIOUS
    <3>2. IsFiniteSet({i})
      BY FS_Singleton
    <3>3. IsFiniteSet(1 .. w[i])
      BY ONLY <3>1, FS_Interval
    <3> QED
      BY <3>2, <3>3
  <2> QED
    BY <2>1, <2>2, FS_Product
<1>4. Units(w) = UNION S
  BY DEF Units
<1> HIDE DEF S
<1>5. IsFiniteSet(Units(w))
  BY <1>2, <1>3, <1>4, FS_UNION
<1> QED
  BY <1>5, FS_CardinalityType DEF SumOf

(* One value and the sum of the others. *)
LEMMA SumSplit ==
  ASSUME NEW I, IsFiniteSet(I), NEW w \in [I -> Nat], NEW k \in I
  PROVE  /\ SumOf([i \in I \ {k} |-> w[i]]) \in Nat
         /\ SumOf(w) = w[k] + SumOf([i \in I \ {k} |-> w[i]])
<1> DEFINE v == [i \in I \ {k} |-> w[i]]
           K == {k} \X (1 .. w[k])
<1>0. w[k] \in Nat
  OBVIOUS
<1>1. IsFiniteSet(I \ {k}) /\ v \in [I \ {k} -> Nat]
  BY FS_RemoveElement
<1>2. IsFiniteSet(Units(v)) /\ SumOf(v) = Cardinality(Units(v)) /\ SumOf(v) \in Nat
  BY <1>1, SumNat
<1>3. IsFiniteSet(K) /\ Cardinality(K) = w[k]
  <2>1. IsFiniteSet({k}) /\ Cardinality({k}) = 1
    BY FS_Singleton
  <2>2. IsFiniteSet(1 .. w[k]) /\ Cardinality(1 .. w[k]) = w[k]
    BY <1>0, FS_Interval
  <2>3. IsFiniteSet(K) /\ Cardinality(K) = Cardinality({k}) * Cardinality(1 .. w[k])
    BY <2>1, <2>2, FS_Product
  <2> QED
    BY <1>0, <2>1, <2>2, <2>3
<1>4. DOMAIN w = I /\ DOMAIN v = I \ {k} /\ \A i \in I \ {k} : v[i] = w[i]
  OBVIOUS
<1>10. /\ Units(w) = {u \in I \X (Nat \ {0}) : u[2] <= w[u[1]]}
       /\ Units(v) = {u \in (I \ {k}) \X (Nat \ {0}) : u[2] <= v[u[1]]}
  BY <1>1, UnitsAre
<1> HIDE DEF v
<1>5. Units(w) = Units(v) \cup K
  <2>1. ASSUME NEW u \in Units(w) PROVE u \in Units(v) \cup K
    BY <1>0, <1>4, <1>10, <2>1
  <2>2. ASSUME NEW u \in Units(v) PROVE u \in Units(w)
    BY <1>4, <1>10, <2>2
  <2>3. ASSUME NEW u \in K PROVE u \in Units(w)
    BY <1>0, <1>4, <1>10, <2>3
  <2> QED
    BY <2>1, <2>2, <2>3
<1>6. Units(v) \cap K = {}
  BY <1>4, <1>10
<1> HIDE DEF K
<1>7. Cardinality(Units(w)) = Cardinality(Units(v)) + Cardinality(K) - Cardinality({})
  BY <1>2, <1>3, <1>5, <1>6, FS_Union
<1>8. SumOf(w) = Cardinality(Units(w))
  BY SumNat
<1>9. SumOf(w) = w[k] + SumOf(v)
  BY <1>0, <1>2, <1>3, <1>7, <1>8, FS_EmptySet
<1> QED
  BY <1>2, <1>9 DEF v

(* One more value. *)
LEMMA SumAdd ==
  ASSUME NEW I, IsFiniteSet(I), NEW k, k \notin I, NEW w \in [I \cup {k} -> Nat]
  PROVE  SumOf(w) = w[k] + SumOf([i \in I |-> w[i]]) /\ SumOf([i \in I |-> w[i]]) \in Nat
<1> DEFINE J == I \cup {k}
<1>1. IsFiniteSet(J) /\ k \in J /\ J \ {k} = I /\ w \in [J -> Nat]
  BY FS_AddElement
<1> HIDE DEF J
<1>2. SumOf(w) = w[k] + SumOf([i \in J \ {k} |-> w[i]]) /\ SumOf([i \in J \ {k} |-> w[i]]) \in Nat
  BY <1>1, SumSplit
<1> QED
  BY <1>1, <1>2

(* A change of one value changes the sum by as much. *)
LEMMA SumChange ==
  ASSUME NEW I, IsFiniteSet(I), NEW w \in [I -> Nat], NEW v \in [I -> Nat],
         NEW k \in I, \A i \in I \ {k} : v[i] = w[i]
  PROVE  SumOf(v) = SumOf(w) - w[k] + v[k] /\ SumOf(w) \in Nat /\ SumOf(v) \in Nat
<1>1. [i \in I \ {k} |-> v[i]] = [i \in I \ {k} |-> w[i]]
  OBVIOUS
<1> DEFINE r == SumOf([i \in I \ {k} |-> w[i]])
<1>2. r \in Nat /\ SumOf(w) = w[k] + r
  BY SumSplit
<1>3. SumOf(v) = v[k] + r
  BY <1>1, SumSplit
<1>4. w[k] \in Nat /\ v[k] \in Nat
  OBVIOUS
<1> HIDE DEF r
<1> QED
  BY <1>2, <1>3, <1>4

(* No value is more than the sum. *)
LEMMA SumPart ==
  ASSUME NEW I, IsFiniteSet(I), NEW w \in [I -> Nat], NEW k \in I
  PROVE  w[k] <= SumOf(w)
<1>0. w[k] \in Nat
  OBVIOUS
<1> DEFINE r == SumOf([i \in I \ {k} |-> w[i]])
<1>1. r \in Nat /\ SumOf(w) = w[k] + r
  BY SumSplit
<1> HIDE DEF r
<1> QED
  BY <1>0, <1>1

(* Nothing adds up to nothing. *)
LEMMA SumZero ==
  ASSUME NEW I, NEW w \in [I -> Nat], \A i \in I : w[i] = 0
  PROVE  SumOf(w) = 0
<1>1. Units(w) = {u \in I \X (Nat \ {0}) : u[2] <= w[u[1]]}
  BY UnitsAre
<1>2. Units(w) = {}
  BY <1>1
<1> QED
  BY <1>2, FS_EmptySet DEF SumOf

(* A list that grows by one entry. *)
LEMMA SumAppend ==
  ASSUME NEW n \in Nat, NEW w \in [1 .. n -> Nat], NEW v \in [1 .. (n + 1) -> Nat],
         \A i \in 1 .. n : v[i] = w[i]
  PROVE  SumOf(v) = SumOf(w) + v[n + 1] /\ SumOf(w) \in Nat
<1>1. IsFiniteSet(1 .. n) /\ IsFiniteSet(1 .. (n + 1))
  BY FS_Interval
<1>2. n + 1 \in 1 .. (n + 1) /\ (1 .. (n + 1)) \ {n + 1} = 1 .. n
  OBVIOUS
<1>3. [i \in (1 .. (n + 1)) \ {n + 1} |-> v[i]] = w
  BY <1>2
<1>4. SumOf(v) = v[n + 1] + SumOf([i \in (1 .. (n + 1)) \ {n + 1} |-> v[i]])
  <2> DEFINE I == 1 .. (n + 1)
             k == n + 1
  <2>1. IsFiniteSet(I) /\ v \in [I -> Nat] /\ k \in I
    BY <1>1, <1>2
  <2> HIDE DEF I, k
  <2>2. SumOf(v) = v[k] + SumOf([i \in I \ {k} |-> v[i]])
    BY <2>1, SumSplit, ZenonT(30)
  <2> QED
    BY <2>2 DEF I, k
<1>5. SumOf(w) \in Nat /\ v[n + 1] \in Nat 
  BY <1>1, <1>2, SumNat
<1> QED
  BY <1>3, <1>4, <1>5

(* A list that loses its entry k: the entries above it move down. *)
LEMMA SumRemove ==
  ASSUME NEW n \in Nat, NEW w \in [1 .. (n + 1) -> Nat], NEW k \in 1 .. (n + 1),
         NEW v \in [1 .. n -> Nat],
         \A i \in 1 .. n : v[i] = IF i < k THEN w[i] ELSE w[i + 1]
  PROVE  SumOf(v) = SumOf(w) - w[k] /\ SumOf(w) \in Nat /\ SumOf(v) \in Nat
<1> DEFINE r == [i \in (1 .. (n + 1)) \ {k} |-> w[i]]
           b == [u \in Units(v) |-> <<IF u[1] < k THEN u[1] ELSE u[1] + 1, u[2]>>]
<1>0. w[k] \in Nat
  OBVIOUS
<1>1. IsFiniteSet(1 .. n) /\ IsFiniteSet(1 .. (n + 1))
  BY FS_Interval
<1>2. SumOf(r) \in Nat /\ SumOf(w) = w[k] + SumOf(r)
  BY <1>1, SumSplit, ZenonT(30)
<1>3. IsFiniteSet(Units(v)) /\ SumOf(v) = Cardinality(Units(v))
  BY <1>1, SumNat
<1>4. DOMAIN v = 1 .. n /\ DOMAIN r = (1 .. (n + 1)) \ {k} /\ \A i \in DOMAIN r : r[i] = w[i]
  OBVIOUS
<1>12. /\ Units(v) = {u \in (1 .. n) \X (Nat \ {0}) : u[2] <= v[u[1]]}
       /\ Units(r) = {u \in ((1 .. (n + 1)) \ {k}) \X (Nat \ {0}) : u[2] <= r[u[1]]}
  <2>1. r \in [(1 .. (n + 1)) \ {k} -> Nat]
    OBVIOUS
  <2> HIDE DEF r
  <2> QED
    BY <2>1, UnitsAre
<1> HIDE DEF r
<1>5. b \in [Units(v) -> Units(r)]
  <2> SUFFICES ASSUME NEW u \in Units(v)
               PROVE  <<IF u[1] < k THEN u[1] ELSE u[1] + 1, u[2]>> \in Units(r)
    OBVIOUS
  <2>1. u[1] \in 1 .. n /\ u[2] \in Nat \ {0} /\ u[2] <= v[u[1]]
    BY <1>4, <1>12
  <2>2. CASE u[1] < k
    <3>1. u[1] \in DOMAIN r /\ r[u[1]] = v[u[1]]
      BY <1>4, <2>1, <2>2
    <3> QED
      BY <2>1, <2>2, <3>1, <1>12
  <2>3. CASE ~(u[1] < k)
    <3> PICK m \in 1 .. n : m = u[1]
      BY <2>1
    <3>2. m + 1 \in 1 .. (n + 1) /\ m + 1 # k /\ v[m] = w[m + 1]
      BY <2>3, SMTT(20)
    <3>1. u[1] + 1 \in DOMAIN r /\ r[u[1] + 1] = v[u[1]]
      BY <1>4, <3>2
    <3> QED
      BY <2>1, <2>3, <3>1, <1>12
  <2> QED
    BY <2>2, <2>3
<1>6. \A x, y \in Units(v) : b[x] = b[y] => x = y
  <2> SUFFICES ASSUME NEW x \in Units(v), NEW y \in Units(v), b[x] = b[y]
               PROVE  x = y
    OBVIOUS
  <2>1. /\ x[1] \in 1 .. n /\ x[2] \in Nat \ {0} /\ x = <<x[1], x[2]>>
        /\ y[1] \in 1 .. n /\ y[2] \in Nat \ {0} /\ y = <<y[1], y[2]>>
    BY <1>4, <1>12
  <2>2. /\ (IF x[1] < k THEN x[1] ELSE x[1] + 1) = (IF y[1] < k THEN y[1] ELSE y[1] + 1)
        /\ x[2] = y[2]
    OBVIOUS
  <2>3. x[1] = y[1]
    BY <2>1, <2>2
  <2> QED
    BY <2>1, <2>2, <2>3
<1>7. ASSUME NEW z \in Units(r) PROVE \E x \in Units(v) : b[x] = z
  <2>1. z[1] \in 1 .. (n + 1) /\ z[1] # k /\ z[2] \in Nat \ {0} /\ z[2] <= w[z[1]] /\ z = <<z[1], z[2]>>
    BY <1>4, <1>12
  <2>2. CASE z[1] < k
    <3>1. z[1] \in 1 .. n /\ v[z[1]] = w[z[1]]
      BY <2>1, <2>2
    <3>2. z \in Units(v)
      BY <1>4, <2>1, <3>1, <1>12
    <3> QED
      BY <2>1, <2>2, <3>2
  <2>3. CASE z[1] > k
    <3> DEFINE x == <<z[1] - 1, z[2]>>
    <3> PICK m \in 1 .. n : m + 1 = z[1]
      <4>1. z[1] - 1 \in 1 .. n /\ (z[1] - 1) + 1 = z[1]
        BY <2>1, <2>3
      <4> QED
        BY <4>1
    <3>4. z[1] - 1 = m /\ ~(m < k) /\ v[m] = w[m + 1]
      BY <2>1, <2>3
    <3>1. z[1] - 1 \in 1 .. n /\ v[z[1] - 1] = w[z[1]]
      BY <3>4
    <3>2. x \in Units(v)
      BY <1>4, <2>1, <3>1, <1>12
    <3>3. b[x] = z
      BY <2>1, <2>3, <3>2
    <3> QED
      BY <3>2, <3>3
  <2> QED
    BY <2>1, <2>2, <2>3
<1>8. b \in Bijection(Units(v), Units(r))
  BY <1>5, <1>6, <1>7, Fun_IsBij
<1>9. ExistsBijection(Units(v), Units(r))
  BY <1>8 DEF ExistsBijection
<1>10. Cardinality(Units(r)) = Cardinality(Units(v))
  BY <1>3, <1>9, FS_Bijection
<1>11. SumOf(r) = Cardinality(Units(r))
  BY DEF SumOf
<1> QED
  BY <1>0, <1>2, <1>3, <1>10, <1>11

(* Values that are found, one for one and at least as large, among others   *)
(* add up to no more than those.                                            *)
LEMMA SumAtMost ==
  ASSUME NEW I, NEW J, IsFiniteSet(J), NEW w \in [I -> Nat], NEW v \in [J -> Nat],
         NEW f \in [I -> J], \A i, j \in I : f[i] = f[j] => i = j,
         \A i \in I : w[i] <= v[f[i]]
  PROVE  SumOf(w) <= SumOf(v) /\ SumOf(w) \in Nat /\ SumOf(v) \in Nat
<1> DEFINE b == [u \in Units(w) |-> <<f[u[1]], u[2]>>]
<1>1. IsFiniteSet(I)
  BY Fun_IsInj, FS_Injection
<1>2. SumOf(w) \in Nat /\ SumOf(v) \in Nat /\ IsFiniteSet(Units(v))
      /\ SumOf(w) = Cardinality(Units(w)) /\ SumOf(v) = Cardinality(Units(v))
  BY <1>1, SumNat
<1>3. /\ Units(w) = {u \in I \X (Nat \ {0}) : u[2] <= w[u[1]]}
      /\ Units(v) = {u \in J \X (Nat \ {0}) : u[2] <= v[u[1]]}
  BY UnitsAre
<1>4. b \in [Units(w) -> Units(v)]
  <2> SUFFICES ASSUME NEW u \in Units(w) PROVE <<f[u[1]], u[2]>> \in Units(v)
    OBVIOUS
  <2>1. u[1] \in I /\ u[2] \in Nat \ {0} /\ u[2] <= w[u[1]]
    BY <1>3
  <2>2. PICK i \in I, j \in J : i = u[1] /\ j = f[u[1]] /\ w[i] \in Nat /\ v[j] \in Nat /\ w[i] <= v[j]
    BY <2>1
  <2> QED
    BY <1>3, <2>1, <2>2
<1>5. \A x, y \in Units(w) : b[x] = b[y] => x = y
  <2> SUFFICES ASSUME NEW x \in Units(w), NEW y \in Units(w), b[x] = b[y] PROVE x = y
    OBVIOUS
  <2>1. x[1] \in I /\ y[1] \in I /\ x = <<x[1], x[2]>> /\ y = <<y[1], y[2]>>
    BY <1>3
  <2>2. f[x[1]] = f[y[1]] /\ x[2] = y[2]
    OBVIOUS
  <2> QED
    BY <2>1, <2>2
<1>6. b \in Injection(Units(w), Units(v))
  BY <1>4, <1>5, Fun_IsInj
<1> QED
  BY <1>2, <1>6, FS_Injection

(* Values that are no larger than two others together. *)
LEMMA SumOfTwo ==
  ASSUME NEW I, IsFiniteSet(I), NEW w \in [I -> Nat], NEW v \in [I -> Nat], NEW x \in [I -> Nat],
         \A i \in I : w[i] <= v[i] + x[i]
  PROVE  SumOf(w) <= SumOf(v) + SumOf(x) /\ SumOf(w) \in Nat /\ SumOf(v) \in Nat /\ SumOf(x) \in Nat
<1> DEFINE P == {u \in Units(w) : u[2] <= v[u[1]]}
           Q == {u \in Units(w) : ~(u[2] <= v[u[1]])}
           b == [u \in Q |-> <<u[1], u[2] - v[u[1]]>>]
<1>1. /\ SumOf(w) \in Nat /\ SumOf(v) \in Nat /\ SumOf(x) \in Nat
      /\ IsFiniteSet(Units(w)) /\ IsFiniteSet(Units(v)) /\ IsFiniteSet(Units(x))
      /\ SumOf(w) = Cardinality(Units(w)) /\ SumOf(v) = Cardinality(Units(v)) /\ SumOf(x) = Cardinality(Units(x))
  BY SumNat
<1>2. /\ Units(w) = {u \in I \X (Nat \ {0}) : u[2] <= w[u[1]]}
      /\ Units(v) = {u \in I \X (Nat \ {0}) : u[2] <= v[u[1]]}
      /\ Units(x) = {u \in I \X (Nat \ {0}) : u[2] <= x[u[1]]}
  BY UnitsAre
<1>3. P \in SUBSET Units(v) /\ Units(w) = P \cup Q /\ P \cap Q = {}
  BY <1>2
<1>4. IsFiniteSet(P) /\ Cardinality(P) <= Cardinality(Units(v))
  <2> HIDE DEF P
  <2> QED
    BY <1>1, <1>3, FS_Subset
<1>5. b \in [Q -> Units(x)]
  <2> SUFFICES ASSUME NEW u \in Q PROVE <<u[1], u[2] - v[u[1]]>> \in Units(x)
    OBVIOUS
  <2>1. u[1] \in I /\ u[2] \in Nat \ {0} /\ u[2] <= w[u[1]] /\ ~(u[2] <= v[u[1]])
    BY <1>2
  <2>2. PICK i \in I, m \in Nat : i = u[1] /\ m = u[2]
    BY <2>1
  <2>3. w[i] \in Nat /\ v[i] \in Nat /\ x[i] \in Nat /\ w[i] <= v[i] + x[i]
    OBVIOUS
  <2>4. m - v[i] \in Nat \ {0} /\ m - v[i] <= x[i]
    BY <2>1, <2>2, <2>3
  <2> QED
    BY <1>2, <2>2, <2>4
<1>6. \A y, z \in Q : b[y] = b[z] => y = z
  <2> SUFFICES ASSUME NEW y \in Q, NEW z \in Q, b[y] = b[z] PROVE y = z
    OBVIOUS
  <2>1. /\ y[1] \in I /\ z[1] \in I /\ y[2] \in Nat /\ z[2] \in Nat
        /\ y = <<y[1], y[2]>> /\ z = <<z[1], z[2]>>
    BY <1>2
  <2>2. y[1] = z[1] /\ y[2] - v[y[1]] = z[2] - v[z[1]]
    OBVIOUS
  <2>3. v[y[1]] \in Nat
    BY <2>1
  <2>4. y[2] = z[2]
    BY <2>1, <2>2, <2>3
  <2> QED
    BY <2>1, <2>2, <2>4
<1>7. b \in Injection(Q, Units(x))
  <2> HIDE DEF Q
  <2> QED
    BY <1>5, <1>6, Fun_IsInj
<1>8. IsFiniteSet(Q) /\ Cardinality(Q) <= Cardinality(Units(x))
  <2> HIDE DEF Q, b
  <2> QED
    BY <1>1, <1>7, FS_Injection
<1> HIDE DEF P, Q
<1>9. Cardinality(P \cup Q) = Cardinality(P) + Cardinality(Q) - Cardinality(P \cap Q)
  BY <1>4, <1>8, FS_Union
<1>10. Cardinality(P \cap Q) = 0 /\ Cardinality(P) \in Nat /\ Cardinality(Q) \in Nat
  BY <1>3, <1>4, <1>8, FS_EmptySet, FS_CardinalityType
<1> QED
  BY <1>1, <1>3, <1>4, <1>8, <1>9, <1>10

(* The same value everywhere but in one place. *)
LEMMA SumFlat ==
  ASSUME NEW I, IsFiniteSet(I), NEW k \in I, NEW M \in Nat, NEW x \in [I -> Nat],
         x[k] = 0, \A i \in I \ {k} : x[i] = M
  PROVE  SumOf(x) = (Cardinality(I) - 1) * M /\ Cardinality(I) \in Nat \ {0}
<1>1. Units(x) = {u \in I \X (Nat \ {0}) : u[2] <= x[u[1]]}
  BY UnitsAre
<1>2. Units(x) = (I \ {k}) \X (1 .. M)
  <2>1. ASSUME NEW u \in Units(x) PROVE u \in (I \ {k}) \X (1 .. M)
    <3>1. u \in I \X (Nat \ {0}) /\ u[2] <= x[u[1]]
      BY <1>1
    <3>2. u[1] # k
      BY <3>1
    <3>3. x[u[1]] = M
      BY <3>1, <3>2
    <3> QED
      BY <3>1, <3>2, <3>3
  <2>2. ASSUME NEW u \in (I \ {k}) \X (1 .. M) PROVE u \in Units(x)
    <3>1. u[1] \in I \ {k} /\ u[2] \in 1 .. M /\ x[u[1]] = M
      OBVIOUS
    <3> QED
      BY <1>1, <3>1
  <2> QED
    BY <2>1, <2>2
<1>3. IsFiniteSet(I \ {k}) /\ Cardinality(I \ {k}) = Cardinality(I) - 1
  BY FS_RemoveElement
<1>4. IsFiniteSet(1 .. M) /\ Cardinality(1 .. M) = M
  <2>1. 1 \in Int /\ M \in Int
    OBVIOUS
  <2>2. IsFiniteSet(1 .. M) /\ Cardinality(1 .. M) = IF 1 > M THEN 0 ELSE M - 1 + 1
    BY <2>1, FS_Interval
  <2> QED
    BY <2>2
<1>5. Cardinality((I \ {k}) \X (1 .. M)) = Cardinality(I \ {k}) * Cardinality(1 .. M)
  BY <1>3, <1>4, FS_Product
<1>6. Cardinality(I \ {k}) \in Nat /\ Cardinality(I) \in Nat
  BY <1>3, FS_CardinalityType
<1> QED
  BY <1>2, <1>3, <1>4, <1>5, <1>6 DEF SumOf

-----------------------------------------------------------------------------
(* Every set of numbers that is not empty has a least one. *)
LEMMA LeastIndex ==
  ASSUME NEW S, S \subseteq Nat, S # {}
  PROVE  \E j \in S : \A k \in S : j <= k
<1> DEFINE R == OpToRel(<, Nat)
<1>1. IsWellFoundedOn(R, Nat)
  BY NatLessThanWellFounded
<1>2. \E j \in S : \A k \in S : ~(<<k, j>> \in R)
  BY <1>1, WFMin
<1>3. PICK j \in S : \A k \in S : ~(<<k, j>> \in R)
  BY <1>2
<1>4. R = {ss \in Nat \X Nat : ss[1] < ss[2]}
  BY Zenon DEF OpToRel
<1> HIDE DEF R
<1>5. \A k \in S : ~(k < j)
  BY <1>3, <1>4
<1> QED
  BY <1>5
=============================================================================
