---------------------- MODULE CuMemoryAllocator_proofs ----------------------
(***************************************************************************)
(* Proofs about module CuMemoryAllocator, for requests of any sizes, any   *)
(* memory of the device and any number of calls: its four invariants.      *)
(*                                                                         *)
(* EveryBlockOnce is inductive together with what a removal relies on:     *)
(* list_ and map_ are in the order of time (InOrder), and each node has    *)
(* an entry and each entry a node (Matched), so that what Lookup() takes   *)
(* from the back of both, and RemoveLeastRecentlyUsed() from the front of  *)
(* both, is one element (Goes).  A new element comes in at the end because *)
(* t only grows (Timely).                                                  *)
(*                                                                         *)
(* The byte counts (Books) and the limits (Limits) need to know what       *)
(* FreeSomeCachedMemory() has been asked for: the overflow, if cudaMalloc()*)
(* has not failed yet, and if it has, half of what is cached and all of it *)
(* or the whole request (Returned).  It never runs out of caches, because  *)
(* what it is to free is cached (SomethingIsCached).                       *)
(*                                                                         *)
(* The sums are folds, about which the provers cannot do induction.  They  *)
(* are shown to count a set, by the least set for which they would not, so *)
(* that the theorems on cardinalities apply (SumIsCount).                  *)
(***************************************************************************)
EXTENDS CuMemoryAllocator, SequenceTheorems, FiniteSetTheorems, WellFoundedInduction,
        TLAPS

-----------------------------------------------------------------------------
(* The inductive invariant. *)

Node == [request : Requests, t : Nat]
Entry == [pointer : Nat, t : Nat]

Typed == list \in [Caches -> Seq(Node)] /\ map \in [Requests -> Seq(Entry)]

Type ==
    /\ Typed
    /\ DOMAIN used_map \subseteq DOMAIN device
    /\ \A p \in DOMAIN used_map : used_map[p] \in Requests
    /\ IsFiniteSet(DOMAIN device) /\ DOMAIN device \subseteq Nat
    /\ \A p \in DOMAIN device : device[p] \in Nat
    /\ memory_factor \in 100..MemoryFactor
    /\ cur_bytes_allocated \in Nat /\ cur_bytes_used \in Nat /\ max_bytes_used \in Nat
    /\ t \in Nat \ {0}
    /\ pc \in {"idle", "freeing", "allocate"}
    /\ call = [request |-> call.request, failed |-> call.failed, cached |-> call.cached]
    /\ call.failed \in 0..2 /\ call.cached \in Int
    /\ pc # "idle" => call.request \in Requests
    /\ loop \in [to_free : Int, freed : Nat, cache : Int]

\* Each element of a cache is a block that CUDA has allocated for its request
\* and that the user does not have; there are no others, and none is cached twice.
Blocks ==
    /\ \A r \in Requests : \A i \in DOMAIN map[r] :
          /\ map[r][i].pointer \in DOMAIN device \ DOMAIN used_map
          /\ device[map[r][i].pointer] = Bytes(r)
    /\ \A q, r \in Requests : \A i \in DOMAIN map[q], j \in DOMAIN map[r] :
          map[q][i].pointer = map[r][j].pointer => q = r /\ i = j
    /\ \A p \in DOMAIN used_map : device[p] = Bytes(used_map[p])
    /\ \A p \in DOMAIN device \ DOMAIN used_map :
          \E r \in Requests : \E i \in DOMAIN map[r] : map[r][i].pointer = p

\* The nodes and the entries of a cache are in the order of time.
InOrder ==
    /\ \A c \in Caches : \A i, j \in DOMAIN list[c] : i < j => list[c][i].t < list[c][j].t
    /\ \A r \in Requests : \A i, j \in DOMAIN map[r] : i < j => map[r][i].t < map[r][j].t

\* Each node has an entry, and each entry its node.
Matched ==
    /\ \A c \in Caches : \A i \in DOMAIN list[c] :
          /\ CacheOf(list[c][i].request) = c
          /\ \E j \in DOMAIN map[list[c][i].request] :
                map[list[c][i].request][j].t = list[c][i].t
    /\ \A r \in Requests : \A j \in DOMAIN map[r] :
          \E i \in DOMAIN list[CacheOf(r)] :
             list[CacheOf(r)][i] = [request |-> r, t |-> map[r][j].t]

\* All of it is from the past.
Timely ==
    \A r \in Requests : \A j \in DOMAIN map[r] :
       /\ map[r][j].t > 0
       /\ map[r][j].t <= t
       /\ pc # "idle" => map[r][j].t < t

UsedBytes == Sum([p \in DOMAIN used_map |-> Bytes(used_map[p])])
ToCome == IF pc = "freeing" THEN loop.freed ELSE 0
BytesAskedFor == Bytes(call.request)

Books ==
    /\ cur_bytes_used = UsedBytes
    /\ cur_bytes_allocated = Sum(device) + ToCome
    /\ cur_bytes_used <= max_bytes_used
    /\ pc # "idle" => cur_bytes_used + BytesAskedFor <= max_bytes_used
    /\ cur_bytes_allocated <= DeviceBytes
    /\ 100 * cur_bytes_allocated <= MemoryFactor * max_bytes_used

\* Enough is freed, or all there is, before cudaMalloc*() is called.
Limits ==
    /\ pc = "freeing" => loop.to_free <= MemoryCached
    /\ pc = "freeing" /\ call.failed = 0 =>
          loop.to_free >= cur_bytes_allocated + BytesAskedFor - Allocatable
    /\ pc = "allocate" /\ call.failed = 0 =>
          cur_bytes_allocated + BytesAskedFor <= Allocatable
    /\ pc # "idle" /\ call.failed > 0 =>
          100 * (cur_bytes_allocated + BytesAskedFor) <= MemoryFactor * max_bytes_used

\* What CUDA gets back after the first and after the second failure.
Returned ==
    /\ pc = "freeing" /\ call.failed = 1 => MemoryCached = call.cached
    /\ pc = "freeing" /\ call.failed > 0 =>
          /\ 2 * loop.to_free >= MemoryCached - 1
          /\ loop.to_free >= MemoryCached \/ loop.to_free >= BytesAskedFor
    /\ (pc = "allocate" /\ call.failed = 1) \/ (pc = "freeing" /\ call.failed = 2) =>
          /\ 2 * MemoryCached <= call.cached + 1
          /\ MemoryCached <= 0 \/ MemoryCached + BytesAskedFor <= call.cached
    /\ pc = "allocate" /\ call.failed = 2 =>
          /\ 4 * MemoryCached <= call.cached + 3
          /\ MemoryCached <= 0 \/ MemoryCached + 2 * BytesAskedFor <= call.cached

IInv ==
    Type /\ Blocks /\ InOrder /\ Matched /\ Timely /\ Books /\ Limits /\ Returned

-----------------------------------------------------------------------------
(***************************************************************************)
(* Sums.  The provers cannot do induction on the fold behind Sum, so that  *)
(* it is shown to count a set: the units of every summand.                 *)
(***************************************************************************)
Units(f, s) == UNION {{x} \X (1..f[x]) : x \in s}

\* Disjoint finite sets together have the sum of their sizes.
LEMMA DisjointUnion ==
  ASSUME NEW A, NEW B, IsFiniteSet(A), IsFiniteSet(B), A \cap B = {}
  PROVE  IsFiniteSet(A \cup B) /\ Cardinality(A \cup B) = Cardinality(A) + Cardinality(B)
<1>1. /\ IsFiniteSet(A \cup B)
      /\ Cardinality(A \cup B) = Cardinality(A) + Cardinality(B) - Cardinality(A \cap B)
  BY FS_Union
<1>2. Cardinality(A \cap B) = 0 /\ Cardinality(A) \in Nat /\ Cardinality(B) \in Nat
  BY FS_EmptySet, FS_CardinalityType
<1> QED BY <1>1, <1>2

\* A summand has as many units as it says.
LEMMA Column ==
  ASSUME NEW x, NEW n \in Nat
  PROVE  IsFiniteSet({x} \X (1..n)) /\ Cardinality({x} \X (1..n)) = n
<1> DEFINE A == {x}
           B == 1..n
<1>1. IsFiniteSet(A) /\ Cardinality(A) = 1
  BY FS_Singleton
<1>2. IsFiniteSet(B)
  BY FS_Interval
<1>2a. Cardinality(B) = n
  BY FS_Interval
<1> HIDE DEF A, B
<1>3. IsFiniteSet(A \X B) /\ Cardinality(A \X B) = Cardinality(A) * Cardinality(B)
  BY <1>1, <1>2, FS_Product
<1>4. Cardinality(A \X B) = n
  BY <1>1, <1>2a, <1>3
<1> QED BY <1>3, <1>4 DEF A, B

\* One summand more adds its units.
LEMMA UnitsStep ==
  ASSUME NEW f, NEW S, IsFiniteSet(S), NEW x, x \notin S, f[x] \in Nat, IsFiniteSet(Units(f, S))
  PROVE  /\ IsFiniteSet(Units(f, S \cup {x}))
         /\ Cardinality(Units(f, S \cup {x})) = f[x] + Cardinality(Units(f, S))
<1>3. IsFiniteSet({x} \X (1..f[x])) /\ Cardinality({x} \X (1..f[x])) = f[x]
  BY Column
<1>4. Units(f, S \cup {x}) = Units(f, S) \cup ({x} \X (1..f[x]))
  BY DEF Units
<1>5. Units(f, S) \cap ({x} \X (1..f[x])) = {}
  BY DEF Units
<1>6. Cardinality(Units(f, S)) \in Nat /\ Cardinality({}) = 0
  BY FS_CardinalityType, FS_EmptySet
<1>7. /\ IsFiniteSet(Units(f, S) \cup ({x} \X (1..f[x])))
      /\ Cardinality(Units(f, S) \cup ({x} \X (1..f[x])))
            = Cardinality(Units(f, S)) + Cardinality({x} \X (1..f[x]))
  BY <1>3, <1>5, DisjointUnion, Zenon
<1>8. Cardinality(Units(f, S)) + Cardinality({x} \X (1..f[x])) = f[x] + Cardinality(Units(f, S))
  BY <1>3, <1>6
<1> QED BY <1>4, <1>7, <1>8, Zenon

\* Finitely many summands have finitely many units.
LEMMA UnitsFinite ==
  ASSUME NEW f, NEW S, IsFiniteSet(S), \A x \in S : f[x] \in Nat
  PROVE  IsFiniteSet(Units(f, S))
<1>1. IsFiniteSet({{x} \X (1..f[x]) : x \in S})
  <2> DEFINE g == [x \in S |-> {x} \X (1..f[x])]
             T == {{x} \X (1..f[x]) : x \in S}
  <2>1. g \in Surjection(S, T)
    BY DEF Surjection
  <2> QED BY <2>1, FS_Surjection
<1>2. ASSUME NEW x \in S PROVE IsFiniteSet({x} \X (1..f[x]))
  BY <1>2, Column
<1> QED BY <1>1, <1>2, FS_UNION DEF Units

\* Sum(f) is the number of the units of f: the recursion behind it and the count
\* agree on every set of summands, as there is no least one on which they differ.
LEMMA SumIsCount ==
  ASSUME NEW f, IsFiniteSet(DOMAIN f), \A x \in DOMAIN f : f[x] \in Nat
  PROVE  Sum(f) = Cardinality(Units(f, DOMAIN f))
<1> DEFINE Eq(g) == g = [s \in SUBSET DOMAIN f |->
                           IF s = {} THEN 0
                           ELSE LET x == CHOOSE x \in s : TRUE IN f[x] + g[s \ {x}]]
           h == [s \in SUBSET DOMAIN f |-> Cardinality(Units(f, s))]
<1>1. Sum(f) = (CHOOSE g : Eq(g))[DOMAIN f]
  BY DEF Sum, FoldFunction, FoldFunctionOnSet, MapThenFoldSet
<1>2. Eq(h)
  <2>1. ASSUME NEW s \in SUBSET DOMAIN f
        PROVE  h[s] = IF s = {} THEN 0
                      ELSE f[CHOOSE x \in s : TRUE] + h[s \ {CHOOSE x \in s : TRUE}]
    <3>1. CASE s = {}
      <4>1. Units(f, {}) = {}
        BY DEF Units
      <4> QED BY <3>1, <4>1, FS_EmptySet
    <3>2. CASE s # {}
      <4> DEFINE x == CHOOSE x \in s : TRUE
                 r == s \ {x}
      <4>1. x \in s
        BY <3>2
      <4>2. x \notin r /\ r \in SUBSET DOMAIN f /\ s = r \cup {x} /\ f[x] \in Nat
        BY <4>1
      <4>3. IsFiniteSet(r) /\ \A y \in r : f[y] \in Nat
        BY <4>2, FS_Subset
      <4>4. IsFiniteSet(Units(f, r))
        BY <4>3, UnitsFinite
      <4> HIDE DEF x, r
      <4>5. Cardinality(Units(f, r \cup {x})) = f[x] + Cardinality(Units(f, r))
        BY <4>2, <4>3, <4>4, UnitsStep
      <4>6. h[s] = f[x] + h[r]
        BY <4>2, <4>5
      <4> QED BY <3>2, <4>6 DEF x, r
    <3> QED BY <3>1, <3>2
  <2> HIDE DEF h
  <2>2. h = [s \in SUBSET DOMAIN f |-> h[s]]
    BY DEF h
  <2> QED BY <2>1, <2>2
<1>3. PICK g : g = (CHOOSE g1 : Eq(g1)) /\ Eq(g)
  BY <1>2
<1>4. ASSUME NEW s \in SUBSET DOMAIN f, s # {}
      PROVE  \E x \in s : g[s] = f[x] + g[s \ {x}] /\ h[s] = f[x] + h[s \ {x}]
  <2>1. (CHOOSE x \in s : TRUE) \in s
    BY <1>4
  <2> HIDE DEF h
  <2> QED BY <1>2, <1>3, <1>4, <2>1
<1>5. g[{}] = 0 /\ h[{}] = 0
  <2>1. {} \in SUBSET DOMAIN f
    OBVIOUS
  <2> HIDE DEF h
  <2> QED BY <1>2, <1>3, <2>1
<1>6. \A s \in SUBSET DOMAIN f : g[s] = h[s]
  <2> HIDE DEF h, Eq
  <2> DEFINE Bad == {s \in SUBSET DOMAIN f : g[s] # h[s]}
  <2> SUFFICES ASSUME Bad # {} PROVE FALSE
    OBVIOUS
  <2>1. Bad \subseteq FiniteSubsetsOf(DOMAIN f)
    BY FS_Subset DEF FiniteSubsetsOf
  <2>2. PICK s \in Bad : \A r \in Bad : <<r, s>> \notin StrictSubsetOrdering(DOMAIN f)
    <3> HIDE DEF Bad
    <3> QED BY <2>1, FS_StrictSubsetOrderingWellFounded, WFMin
  <2>3. s # {}
    BY <1>5
  <2>4. PICK x \in s : g[s] = f[x] + g[s \ {x}] /\ h[s] = f[x] + h[s \ {x}]
    BY <1>4, <2>3
  <2>5. <<s \ {x}, s>> \in StrictSubsetOrdering(DOMAIN f)
    BY DEF StrictSubsetOrdering
  <2> QED BY <2>2, <2>4, <2>5
<1> QED BY <1>1, <1>3, <1>6


\* The sum of natural numbers is one.
LEMMA SumType ==
  ASSUME NEW f, IsFiniteSet(DOMAIN f), \A x \in DOMAIN f : f[x] \in Nat
  PROVE  Sum(f) \in Nat
BY SumIsCount, UnitsFinite, FS_CardinalityType

\* One summand more.
LEMMA SumExtend ==
  ASSUME NEW f, IsFiniteSet(DOMAIN f), \A x \in DOMAIN f : f[x] \in Nat,
         NEW p, p \notin DOMAIN f,
         NEW g, DOMAIN g = DOMAIN f \cup {p}, g[p] \in Nat,
         \A x \in DOMAIN f : g[x] = f[x]
  PROVE  Sum(g) = Sum(f) + g[p]
<1> DEFINE D == DOMAIN f
<1>1. \A x \in D \cup {p} : g[x] \in Nat
  OBVIOUS
<1>2. IsFiniteSet(D \cup {p})
  BY FS_AddElement
<1>3. Sum(g) = Cardinality(Units(g, D \cup {p})) /\ Sum(f) = Cardinality(Units(f, D))
  BY <1>1, <1>2, SumIsCount
<1>4. Units(g, D) = Units(f, D)
  BY DEF Units
<1>5. IsFiniteSet(Units(g, D))
  BY <1>1, UnitsFinite
<1>6. Cardinality(Units(g, D \cup {p})) = g[p] + Cardinality(Units(g, D))
  BY <1>5, UnitsStep
<1>7. Sum(f) \in Nat
  BY SumType
<1> QED BY <1>3, <1>4, <1>6, <1>7

\* What is summed over more is not less.
LEMMA SumMonotone ==
  ASSUME NEW g, IsFiniteSet(DOMAIN g), \A x \in DOMAIN g : g[x] \in Nat,
         NEW f, DOMAIN f \subseteq DOMAIN g, \A x \in DOMAIN f : f[x] = g[x]
  PROVE  Sum(f) <= Sum(g) /\ (DOMAIN f = DOMAIN g => Sum(f) = Sum(g))
<1>1. IsFiniteSet(DOMAIN f) /\ \A x \in DOMAIN f : f[x] \in Nat
  BY FS_Subset
<1>2. Sum(f) = Cardinality(Units(f, DOMAIN f)) /\ Sum(g) = Cardinality(Units(g, DOMAIN g))
  BY <1>1, SumIsCount
<1>3. Units(f, DOMAIN f) = Units(g, DOMAIN f) /\ Units(g, DOMAIN f) \subseteq Units(g, DOMAIN g)
  BY DEF Units
<1>4. IsFiniteSet(Units(g, DOMAIN g))
  BY UnitsFinite
<1>5. Cardinality(Units(g, DOMAIN f)) <= Cardinality(Units(g, DOMAIN g))
  BY <1>3, <1>4, FS_Subset
<1> QED BY <1>2, <1>3, <1>5

\* Nothing is summed.
LEMMA SumEmpty == ASSUME NEW f, DOMAIN f = {} PROVE Sum(f) = 0
<1>1. Sum(f) = Cardinality(Units(f, {}))
  BY FS_EmptySet, SumIsCount
<1>2. Units(f, {}) = {}
  BY DEF Units
<1> QED BY <1>1, <1>2, FS_EmptySet

-----------------------------------------------------------------------------
(* Numbers: the caches of the sizes, and the least and the greatest of a set. *)

\* A finite set of integers has a greatest element.
LEMMA FiniteMax ==
  ASSUME NEW S, IsFiniteSet(S), S \subseteq Int, S # {}
  PROVE  Max(S) \in S /\ \A x \in S : x <= Max(S)
<1> DEFINE HasMax(T) == \E m \in T : \A x \in T : x <= m
           Bad == {T \in SUBSET S : T # {} /\ ~HasMax(T)}
<1>1. Bad = {}
  <2> SUFFICES ASSUME Bad # {} PROVE FALSE
    OBVIOUS
  <2>1. Bad \subseteq FiniteSubsetsOf(S)
    BY FS_Subset DEF FiniteSubsetsOf
  <2>2. PICK T \in Bad : \A U \in Bad : <<U, T>> \notin StrictSubsetOrdering(S)
    <3> HIDE DEF Bad
    <3> QED BY <2>1, FS_StrictSubsetOrderingWellFounded, WFMin
  <2>3. PICK x \in T : TRUE
    OBVIOUS
  <2> DEFINE U == T \ {x}
  <2>4. <<U, T>> \in StrictSubsetOrdering(S)
    BY <2>3 DEF StrictSubsetOrdering
  <2>5. U \notin Bad
    BY <2>2, <2>4
  <2>6. T \subseteq Int /\ x \in Int
    BY <2>3
  <2>7. CASE U = {}
    <3>1. \A y \in T : y <= x
      BY <2>6, <2>7
    <3> QED BY <2>3, <3>1
  <2>8. CASE U # {}
    <3>1. PICK m \in U : \A y \in U : y <= m
      BY <2>5, <2>8
    <3>2. m \in T /\ m \in Int
      BY <2>6
    <3>3. CASE x <= m
      <4>1. \A y \in T : y <= m
        BY <3>1, <3>3
      <4> QED BY <3>2, <4>1
    <3>4. CASE m <= x
      <4>1. \A y \in T : y <= x
        <5> SUFFICES ASSUME NEW y \in T PROVE y <= x
          OBVIOUS
        <5>1. y = x \/ y <= m
          BY <3>1
        <5> QED BY <2>6, <3>2, <3>4, <5>1
      <4> QED BY <2>3, <4>1
    <3> QED BY <2>6, <3>2, <3>3, <3>4
  <2> QED BY <2>7, <2>8
<1>2. \E m \in S : \A x \in S : x <= m
  BY <1>1
<1>3. \E m \in S : \A x \in S : m >= x
  BY <1>2
<1> QED BY <1>3 DEF Max

\* The least of natural numbers.
LEMMA LeastOf ==
  ASSUME NEW S, S \subseteq Nat, S # {}
  PROVE  Min(S) \in S /\ \A x \in S : Min(S) <= x
<1>1. PICK x \in S : \A y \in S : <<y, x>> \notin OpToRel(<, Nat)
  BY NatLessThanWellFounded, WFMin
<1>2. \A y \in S : x <= y
  <2> SUFFICES ASSUME NEW y \in S PROVE x <= y
    OBVIOUS
  <2>1. x \in Nat /\ y \in Nat
    OBVIOUS
  <2>2. ~(y < x)
    BY <1>1, <2>1, Zenon DEF OpToRel
  <2> QED BY <2>1, <2>2
<1> QED BY <1>2 DEF Min

\* The greater of two,
LEMMA MaxOfTwo ==
  ASSUME NEW a \in Int, NEW b \in Int
  PROVE  Max({a, b}) \in {a, b} /\ a <= Max({a, b}) /\ b <= Max({a, b})
<1>1. \E m \in {a, b} : \A x \in {a, b} : m >= x
  OBVIOUS
<1>2. Max({a, b}) \in {a, b} /\ \A x \in {a, b} : Max({a, b}) >= x
  BY <1>1 DEF Max
<1> QED BY <1>2

\* and the lesser.
LEMMA MinOfTwo ==
  ASSUME NEW a \in Int, NEW b \in Int
  PROVE  Min({a, b}) \in {a, b} /\ Min({a, b}) <= a /\ Min({a, b}) <= b
<1>1. \E m \in {a, b} : \A x \in {a, b} : m <= x
  OBVIOUS
<1>2. Min({a, b}) \in {a, b} /\ \A x \in {a, b} : Min({a, b}) <= x
  BY <1>1 DEF Min
<1> QED BY <1>2

\* MallocPitch() is asked for at least one byte.
LEMMA BytesArePositive ==
  ASSUME NEW r \in Requests
  PROVE  Bytes(r) \in Nat \ {0}
<1>1. r[1] \in Nat \ {0} /\ r[2] \in Nat \ {0}
  BY AllocatorAssumption DEF Requests
<1>2. \A m, n \in Nat \ {0} : m * n \in Nat \ {0}
  OBVIOUS
<1> QED BY <1>1, <1>2 DEF Bytes

\* There are finitely many caches; their indices are natural numbers.
LEMMA CachesAreNumbers ==
  /\ IsFiniteSet(Caches)
  /\ \A r \in Requests : CacheOf(r) \in Caches
  /\ \A c \in Caches : c \in Nat /\ 2^c \in Int
<1>1. IsFiniteSet(Requests)
  BY AllocatorAssumption, FS_Product DEF Requests
<1>2. IsFiniteSet(Caches)
  <2> DEFINE f == [r \in Requests |-> CacheOf(r)]
  <2>1. f \in Surjection(Requests, Caches)
    BY DEF Surjection, Caches
  <2> QED BY <1>1, <2>1, FS_Surjection
<1>3. ASSUME NEW r \in Requests PROVE CacheOf(r) \in Nat
  <2> DEFINE b == Bytes(r)
             S == {n \in 0..b : 2^n <= b}
  <2>1. b \in Nat \ {0}
    BY BytesArePositive
  <2>2. 0 \in S
    <3>1. 2^0 = 1
      OBVIOUS
    <3> HIDE DEF b
    <3> QED BY <2>1, <3>1
  <2>3. S \in SUBSET (0..b) /\ S # {}
    BY <2>2
  <2>4. IsFiniteSet(0..b) /\ 0..b \subseteq Nat
    BY <2>1, FS_Interval
  <2>5. Max(S) \in Nat
    <3> HIDE DEF S, b
    <3>1. IsFiniteSet(S) /\ S \subseteq Int
      <4>1. IsFiniteSet(S)
        BY <2>3, <2>4, FS_Subset
      <4>2. S \subseteq Nat
        BY <2>3, <2>4
      <4> QED BY <4>1, <4>2
    <3>2. Max(S) \in S
      BY <2>3, <3>1, FiniteMax
    <3> QED BY <2>3, <2>4, <3>2
  <2>6. CacheOf(r) = Max(S)
    BY DEF CacheOf, GetCacheForSize, IntegerLog2
  <2> QED BY <2>5, <2>6
<1>4. \A c \in Caches : c \in Nat
  BY <1>3 DEF Caches
<1>5. \A c \in Nat : 2^c \in Int
  OBVIOUS
<1> QED BY <1>2, <1>4, <1>5 DEF Caches

-----------------------------------------------------------------------------
(* Sequences that lose an element. *)

Dropped(s, i, u) ==
    Len(u) = Len(s) - 1 /\ \A k \in 1..Len(u) : u[k] = IF k < i THEN s[k] ELSE s[k + 1]

\* list_.erase() drops the element it is told,
LEMMA RemoveAtDrops ==
  ASSUME NEW S, NEW s \in Seq(S), NEW i \in 1..Len(s)
  PROVE  RemoveAt(s, i) \in Seq(S) /\ Dropped(s, i, RemoveAt(s, i))
<1> DEFINE a == SubSeq(s, 1, i - 1)
           b == SubSeq(s, i + 1, Len(s))
           n == Len(s)
<1>1. n \in Nat /\ i \in Nat /\ 1 <= i /\ i <= n /\ \A k \in 1..n : s[k] \in S
  BY LenProperties, ElementOfSeq
<1>2. a \in Seq(S) /\ Len(a) = i - 1 /\ \A k \in 1..(i - 1) : a[k] = s[k]
  BY <1>1, SubSeqProperties
<1>3. b \in Seq(S) /\ Len(b) = n - i /\ \A k \in 1..(n - i) : b[k] = s[i + k]
  BY <1>1, SubSeqProperties
<1> DEFINE u == a \o b
<1>4. u \in Seq(S) /\ Len(u) = Len(a) + Len(b)
      /\ \A k \in 1..(Len(a) + Len(b)) : u[k] = IF k <= Len(a) THEN a[k] ELSE b[k - Len(a)]
  <2> HIDE DEF a, b
  <2> QED BY <1>2, <1>3, ConcatProperties
<1>5. RemoveAt(s, i) = u
  BY DEF RemoveAt
<1> HIDE DEF a, b, u, n
<1>6. Len(u) = n - 1
  BY <1>1, <1>2, <1>3, <1>4
<1>7. ASSUME NEW k \in 1..(n - 1) PROVE u[k] = IF k < i THEN s[k] ELSE s[k + 1]
  <2>1. CASE k < i
    BY <1>1, <1>2, <1>3, <1>4, <2>1
  <2>2. CASE k >= i
    <3>1. u[k] = b[k - (i - 1)]
      BY <1>1, <1>2, <1>3, <1>4, <2>2
    <3>2. k - (i - 1) \in 1..(n - i) /\ i + (k - (i - 1)) = k + 1
      BY <1>1, <2>2
    <3> QED BY <1>1, <1>3, <2>2, <3>1, <3>2
  <2> QED BY <1>1, <2>1, <2>2
<1> QED BY <1>4, <1>5, <1>6, <1>7 DEF Dropped, n

\* pop_front() the first,
LEMMA TailDrops ==
  ASSUME NEW S, NEW s \in Seq(S), s # <<>>
  PROVE  Tail(s) \in Seq(S) /\ Dropped(s, 1, Tail(s)) /\ 1 \in 1..Len(s)
<1>1. Len(s) \in Nat \ {0}
  BY EmptySeq, LenProperties
<1>2. Tail(s) \in Seq(S) /\ Len(Tail(s)) = Len(s) - 1 /\ \A k \in 1..(Len(s) - 1) : Tail(s)[k] = s[k + 1]
  BY HeadTailProperties
<1> QED BY <1>1, <1>2 DEF Dropped

\* and pop_back() the last one.
LEMMA FrontDrops ==
  ASSUME NEW S, NEW s \in Seq(S), s # <<>>
  PROVE  Front(s) \in Seq(S) /\ Dropped(s, Len(s), Front(s)) /\ Len(s) \in 1..Len(s)
<1> DEFINE n == Len(s) - 1
<1>1. Len(s) \in Nat \ {0} /\ n \in Nat /\ n = Len(s) - 1
  BY EmptySeq, LenProperties
<1>2. \A k \in 1..Len(s) : s[k] \in S
  BY ElementOfSeq
<1>3. Front(s) = SubSeq(s, 1, n)
  BY DEF Front
<1> HIDE DEF n
<1>4. \A k \in 1..n : s[k] \in S
  BY <1>1, <1>2
<1>5. /\ SubSeq(s, 1, n) \in Seq(S)
      /\ Len(SubSeq(s, 1, n)) = IF 1 <= n THEN n - 1 + 1 ELSE 0
      /\ \A k \in 1..(n - 1 + 1) : SubSeq(s, 1, n)[k] = s[1 + k - 1]
  BY <1>1, <1>4, SubSeqProperties
<1>6. Len(Front(s)) = n
  BY <1>1, <1>3, <1>5
<1>7. ASSUME NEW k \in 1..n PROVE Front(s)[k] = s[k]
  BY <1>1, <1>3, <1>5
<1> QED BY <1>1, <1>3, <1>5, <1>6, <1>7 DEF Dropped

OthersOf(s, i, u) ==
    /\ \A k \in DOMAIN u : \E m \in DOMAIN s : m # i /\ u[k] = s[m]
    /\ \A m \in DOMAIN s : m # i => \E k \in DOMAIN u : u[k] = s[m]
    /\ \A k, l \in DOMAIN u : k < l =>
          \E m, n \in DOMAIN s : m < n /\ m # i /\ n # i /\ u[k] = s[m] /\ u[l] = s[n]

\* What is left are the others, in their order.
LEMMA DroppedKeeps ==
  ASSUME NEW S, NEW s \in Seq(S), NEW i \in DOMAIN s, NEW u \in Seq(S), Dropped(s, i, u)
  PROVE  OthersOf(s, i, u)
<1> DEFINE place(k) == IF k < i THEN k ELSE k + 1
<1>1. /\ DOMAIN s = 1..Len(s) /\ DOMAIN u = 1..Len(u) /\ Len(s) \in Nat /\ Len(u) \in Nat
      /\ Len(u) = Len(s) - 1 /\ i \in Nat
  BY LenProperties DEF Dropped
<1>2. \A k \in DOMAIN u : place(k) \in DOMAIN s /\ place(k) # i /\ u[k] = s[place(k)]
  BY <1>1 DEF Dropped
<1>3. \A k, l \in DOMAIN u : k < l => place(k) < place(l)
  BY <1>1
<1>4. ASSUME NEW m \in DOMAIN s, m # i PROVE \E k \in DOMAIN u : u[k] = s[m]
  <2>1. CASE m < i
    <3>1. m \in DOMAIN u /\ place(m) = m
      BY <1>1, <2>1
    <3> QED BY <1>2, <3>1
  <2>2. CASE m > i
    <3>1. m - 1 \in DOMAIN u /\ place(m - 1) = m
      BY <1>1, <2>2
    <3> QED BY <1>2, <3>1
  <2> QED BY <1>1, <1>4, <2>1, <2>2
<1> HIDE DEF place
<1> QED BY <1>2, <1>3, <1>4 DEF OthersOf

-----------------------------------------------------------------------------
(* The elements of the caches. *)

\* The caches are sequences of nodes, those of the map sequences of entries.
LEMMA Domains ==
  ASSUME Typed
  PROVE  /\ \A c \in Caches : /\ list[c] \in Seq(Node) /\ Len(list[c]) \in Nat
                              /\ DOMAIN list[c] = 1..Len(list[c])
                              /\ \A i \in DOMAIN list[c] : list[c][i] \in Node
         /\ \A r \in Requests : /\ map[r] \in Seq(Entry) /\ Len(map[r]) \in Nat
                                /\ DOMAIN map[r] = 1..Len(map[r])
                                /\ \A j \in DOMAIN map[r] : map[r][j] \in Entry
<1>1. ASSUME NEW c \in Caches
      PROVE  /\ list[c] \in Seq(Node) /\ Len(list[c]) \in Nat
             /\ DOMAIN list[c] = 1..Len(list[c])
             /\ \A i \in DOMAIN list[c] : list[c][i] \in Node
  BY LenProperties, ElementOfSeq DEF Typed
<1>2. ASSUME NEW r \in Requests
      PROVE  /\ map[r] \in Seq(Entry) /\ Len(map[r]) \in Nat
             /\ DOMAIN map[r] = 1..Len(map[r])
             /\ \A j \in DOMAIN map[r] : map[r][j] \in Entry
  BY LenProperties, ElementOfSeq DEF Typed
<1> QED BY <1>1, <1>2

\* The element of request r whose node is the i-th of its cache and whose entry
\* is the j-th goes out of the cache.
Goes(r, i, j) ==
    /\ i \in DOMAIN list[CacheOf(r)] /\ j \in DOMAIN map[r]
    /\ list[CacheOf(r)][i] = [request |-> r, t |-> map[r][j].t]
    /\ \E l \in Seq(Node) : /\ Dropped(list[CacheOf(r)], i, l)
                            /\ list' = [list EXCEPT ![CacheOf(r)] = l]
    /\ \E m \in Seq(Entry) : /\ Dropped(map[r], j, m)
                             /\ map' = [map EXCEPT ![r] = m]

\* The other entries stay, and keep their order.
LEMMA OthersStay ==
  ASSUME Typed, NEW r \in Requests, NEW i, NEW j, Goes(r, i, j)
  PROVE  /\ Typed'
         /\ \A q \in Requests : \A k \in DOMAIN map'[q] :
               \E n \in DOMAIN map[q] : map'[q][k] = map[q][n] /\ (q = r => n # j)
         /\ \A q \in Requests : \A n \in DOMAIN map[q] : (q = r => n # j) =>
               \E k \in DOMAIN map'[q] : map'[q][k] = map[q][n]
         /\ \A q \in Requests : \A k, l \in DOMAIN map'[q] : k < l =>
               \E m, n \in DOMAIN map[q] : /\ m < n /\ (q = r => m # j /\ n # j)
                                           /\ map'[q][k] = map[q][m] /\ map'[q][l] = map[q][n]
<1> DEFINE c == CacheOf(r)
<1>1. PICK l \in Seq(Node) : Dropped(list[c], i, l) /\ list' = [list EXCEPT ![c] = l]
  BY DEF Goes
<1>2. PICK m \in Seq(Entry) : Dropped(map[r], j, m) /\ map' = [map EXCEPT ![r] = m]
  BY DEF Goes
<1>3. c \in Caches
  BY CachesAreNumbers
<1>4. Typed'
  BY <1>1, <1>2, <1>3 DEF Typed
<1>5. map[r] \in Seq(Entry) /\ j \in 1..Len(map[r]) /\ DOMAIN map[r] = 1..Len(map[r])
  BY Domains DEF Goes
<1>7. map'[r] = m /\ \A q \in Requests : q # r => map'[q] = map[q]
  BY <1>2 DEF Typed
<1>8. /\ \A k \in DOMAIN m : \E n \in DOMAIN map[r] : n # j /\ m[k] = map[r][n]
      /\ \A n \in DOMAIN map[r] : n # j => \E k \in DOMAIN m : m[k] = map[r][n]
      /\ \A k, o \in DOMAIN m : k < o =>
            \E n, p \in DOMAIN map[r] :
               n < p /\ n # j /\ p # j /\ m[k] = map[r][n] /\ m[o] = map[r][p]
  <2>1. OthersOf(map[r], j, m)
    BY <1>2, <1>5, DroppedKeeps
  <2> QED BY <2>1 DEF OthersOf
<1>9. ASSUME NEW q \in Requests, NEW k \in DOMAIN map'[q]
      PROVE  \E n \in DOMAIN map[q] : map'[q][k] = map[q][n] /\ (q = r => n # j)
  BY <1>7, <1>8
<1>10. ASSUME NEW q \in Requests, NEW n \in DOMAIN map[q], q = r => n # j
       PROVE  \E k \in DOMAIN map'[q] : map'[q][k] = map[q][n]
  BY <1>7, <1>8, <1>10
<1>11. ASSUME NEW q \in Requests, NEW k \in DOMAIN map'[q], NEW o \in DOMAIN map'[q], k < o
       PROVE  \E n, p \in DOMAIN map[q] : /\ n < p /\ (q = r => n # j /\ p # j)
                                          /\ map'[q][k] = map[q][n] /\ map'[q][o] = map[q][p]
  <2>1. CASE q = r
    <3>1. map'[q] = m
      BY <1>7, <2>1
    <3>2. PICK n, p \in DOMAIN map[r] :
             n < p /\ n # j /\ p # j /\ m[k] = map[r][n] /\ m[o] = map[r][p]
      BY <1>8, <1>11, <3>1
    <3> QED BY <2>1, <3>1, <3>2
  <2>2. CASE q # r
    BY <1>7, <1>11, <2>2
  <2> QED BY <2>1, <2>2
<1> QED BY <1>4, <1>9, <1>10, <1>11

\* When an element goes, the order of time stays,
LEMMA OrderOfGoing ==
  ASSUME Typed, InOrder, NEW r \in Requests, NEW i, NEW j, Goes(r, i, j)
  PROVE  InOrder'
<1> DEFINE c == CacheOf(r)
<1>1. PICK l \in Seq(Node) : Dropped(list[c], i, l) /\ list' = [list EXCEPT ![c] = l]
  BY DEF Goes
<1>2. c \in Caches
  BY CachesAreNumbers
<1>3. list[c] \in Seq(Node) /\ i \in 1..Len(list[c]) /\ DOMAIN list[c] = 1..Len(list[c])
  BY <1>2, Domains DEF Goes
<1>5. list'[c] = l /\ \A d \in Caches : d # c => list'[d] = list[d]
  BY <1>1, <1>2 DEF Typed
<1>6. \A k, o \in DOMAIN l : k < o =>
         \E n, p \in DOMAIN list[c] : n < p /\ l[k] = list[c][n] /\ l[o] = list[c][p]
  <2>1. OthersOf(list[c], i, l)
    BY <1>1, <1>3, DroppedKeeps
  <2> QED BY <2>1 DEF OthersOf
<1>7. \A d \in Caches : \A k, o \in DOMAIN list'[d] : k < o => list'[d][k].t < list'[d][o].t
  <2> SUFFICES ASSUME NEW d \in Caches, NEW k \in DOMAIN list'[d], NEW o \in DOMAIN list'[d], k < o
               PROVE  list'[d][k].t < list'[d][o].t
    OBVIOUS
  <2>1. CASE d = c
    BY <1>2, <1>5, <1>6, <2>1 DEF InOrder
  <2>2. CASE d # c
    BY <1>5, <2>2 DEF InOrder
  <2> QED BY <2>1, <2>2
<1>8. \A q \in Requests : \A k, o \in DOMAIN map'[q] : k < o => map'[q][k].t < map'[q][o].t
  BY OthersStay DEF InOrder
<1> QED BY <1>7, <1>8 DEF InOrder

\* and each node still has its entry.
LEMMA MatchOfGoing ==
  ASSUME Typed, InOrder, Matched, NEW r \in Requests, NEW i, NEW j, Goes(r, i, j)
  PROVE  Matched'
<1> DEFINE c == CacheOf(r)
<1>1. PICK l \in Seq(Node) : Dropped(list[c], i, l) /\ list' = [list EXCEPT ![c] = l]
  BY DEF Goes
<1>2. c \in Caches
  BY CachesAreNumbers
<1>3. /\ list[c] \in Seq(Node) /\ i \in 1..Len(list[c]) /\ DOMAIN list[c] = 1..Len(list[c])
      /\ j \in 1..Len(map[r]) /\ DOMAIN map[r] = 1..Len(map[r])
      /\ list[c][i] = [request |-> r, t |-> map[r][j].t]
  BY <1>2, Domains DEF Goes
<1>5. list'[c] = l /\ \A d \in Caches : d # c => list'[d] = list[d]
  BY <1>1, <1>2 DEF Typed
<1>6. /\ \A k \in DOMAIN l : \E n \in DOMAIN list[c] : n # i /\ l[k] = list[c][n]
      /\ \A n \in DOMAIN list[c] : n # i => \E k \in DOMAIN l : l[k] = list[c][n]
  <2>1. OthersOf(list[c], i, l)
    BY <1>1, <1>3, DroppedKeeps
  <2> QED BY <2>1 DEF OthersOf
<1>7. \A n \in DOMAIN list[c] : n # i => list[c][n].t # list[c][i].t
  <2> SUFFICES ASSUME NEW n \in DOMAIN list[c], n # i PROVE list[c][n].t # list[c][i].t
    OBVIOUS
  <2>1. n < i \/ i < n
    BY <1>3
  <2>2. list[c][n].t \in Nat /\ list[c][i].t \in Nat
    BY <1>2, <1>3, Domains DEF Node
  <2> QED BY <1>2, <1>3, <2>1, <2>2 DEF InOrder
<1>8. \A n \in DOMAIN map[r] : n # j => map[r][n].t # map[r][j].t
  <2> SUFFICES ASSUME NEW n \in DOMAIN map[r], n # j PROVE map[r][n].t # map[r][j].t
    OBVIOUS
  <2>1. n < j \/ j < n
    BY <1>3
  <2>2. map[r][n].t \in Nat /\ map[r][j].t \in Nat
    BY <1>3, Domains DEF Entry
  <2> QED BY <1>3, <2>1, <2>2 DEF InOrder
<1>9. ASSUME NEW q \in Requests, NEW n \in DOMAIN map[q], q = r => n # j
      PROVE  \E k \in DOMAIN map'[q] : map'[q][k] = map[q][n]
  BY <1>9, OthersStay
<1>10. ASSUME NEW d \in Caches, NEW k \in DOMAIN list'[d]
       PROVE  \E n \in DOMAIN list[d] : list'[d][k] = list[d][n] /\ (d = c => n # i)
  BY <1>5, <1>6
<1>11. \A d \in Caches : \A k \in DOMAIN list'[d] :
          /\ CacheOf(list'[d][k].request) = d
          /\ \E o \in DOMAIN map'[list'[d][k].request] :
                map'[list'[d][k].request][o].t = list'[d][k].t
  <2> SUFFICES ASSUME NEW d \in Caches, NEW k \in DOMAIN list'[d]
               PROVE  /\ CacheOf(list'[d][k].request) = d
                      /\ \E o \in DOMAIN map'[list'[d][k].request] :
                            map'[list'[d][k].request][o].t = list'[d][k].t
    OBVIOUS
  <2>1. PICK n \in DOMAIN list[d] : list'[d][k] = list[d][n] /\ (d = c => n # i)
    BY <1>10
  <2> DEFINE q == list[d][n].request
  <2>2. q \in Requests
    BY Domains DEF Node
  <2>3. CacheOf(q) = d
    BY DEF Matched
  <2>4. PICK o \in DOMAIN map[q] : map[q][o].t = list[d][n].t
    BY DEF Matched
  <2>5. q = r => o # j
    BY <1>3, <1>7, <2>1, <2>3, <2>4
  <2>6. \E k2 \in DOMAIN map'[q] : map'[q][k2] = map[q][o]
    BY <1>9, <2>2, <2>5
  <2> QED BY <2>1, <2>3, <2>4, <2>6
<1>12. \A q \in Requests : \A k \in DOMAIN map'[q] :
          \E o \in DOMAIN list'[CacheOf(q)] :
             list'[CacheOf(q)][o] = [request |-> q, t |-> map'[q][k].t]
  <2> SUFFICES ASSUME NEW q \in Requests, NEW k \in DOMAIN map'[q]
               PROVE  \E o \in DOMAIN list'[CacheOf(q)] :
                         list'[CacheOf(q)][o] = [request |-> q, t |-> map'[q][k].t]
    OBVIOUS
  <2>1. PICK n \in DOMAIN map[q] : map'[q][k] = map[q][n] /\ (q = r => n # j)
    BY OthersStay
  <2>2. PICK o \in DOMAIN list[CacheOf(q)] :
           list[CacheOf(q)][o] = [request |-> q, t |-> map[q][n].t]
    BY DEF Matched
  <2>3. CacheOf(q) \in Caches
    BY CachesAreNumbers
  <2>4. CacheOf(q) = c => o # i
    BY <1>3, <1>8, <2>1, <2>2
  <2>5. \E p \in DOMAIN list'[CacheOf(q)] : list'[CacheOf(q)][p] = list[CacheOf(q)][o]
    BY <1>5, <1>6, <2>3, <2>4
  <2> QED BY <2>1, <2>2, <2>5
<1> QED BY <1>11, <1>12 DEF Matched

\* The first node of a cache and the first entry of its request are one element.
LEMMA OldestFirst ==
  ASSUME Typed, InOrder, Matched, NEW c \in Caches, list[c] # <<>>,
         NEW r, r = Head(list[c]).request
  PROVE  /\ r \in Requests /\ CacheOf(r) = c
         /\ 1 \in DOMAIN list[c] /\ 1 \in DOMAIN map[r]
         /\ Head(list[c]) = list[c][1]
         /\ list[c][1] = [request |-> r, t |-> map[r][1].t]
         /\ LeastRecentTime(c) = map[r][1].t
<1>1. /\ list[c] \in Seq(Node) /\ DOMAIN list[c] = 1..Len(list[c]) /\ Len(list[c]) \in Nat \ {0}
      /\ \A i \in DOMAIN list[c] : list[c][i] \in Node
  BY Domains, EmptySeq
<1>2. 1 \in DOMAIN list[c]
  BY <1>1
<1>3. Head(list[c]) = list[c][1]
  BY <1>1
<1>4. r \in Requests /\ CacheOf(r) = c
  BY <1>1, <1>2, <1>3 DEF Node, Matched
<1>5. /\ DOMAIN map[r] = 1..Len(map[r]) /\ Len(map[r]) \in Nat
      /\ \A j \in DOMAIN map[r] : map[r][j] \in Entry
  BY <1>4, Domains
<1>6. PICK j \in DOMAIN map[r] : map[r][j].t = list[c][1].t
  BY <1>2, <1>3 DEF Matched
<1>7. 1 \in DOMAIN map[r] /\ j >= 1
  BY <1>5
<1>8. PICK o \in DOMAIN list[c] : list[c][o] = [request |-> r, t |-> map[r][1].t]
  BY <1>4, <1>7 DEF Matched
<1>9. ~(map[r][1].t < list[c][1].t)
  <2>1. o = 1 \/ 1 < o
    BY <1>1
  <2>2. o = 1 \/ list[c][1].t < list[c][o].t
    BY <1>2, <2>1 DEF InOrder
  <2>3. list[c][o].t = map[r][1].t /\ list[c][o].t \in Nat /\ list[c][1].t \in Nat
    BY <1>1, <1>2, <1>8 DEF Node
  <2> QED BY <2>2, <2>3
<1>10. j = 1
  <2>1. j = 1 \/ map[r][1].t < map[r][j].t
    BY <1>4, <1>5, <1>7 DEF InOrder
  <2> QED BY <1>6, <1>9, <2>1
<1>11. list[c][1] = [request |-> r, t |-> map[r][1].t]
  BY <1>1, <1>2, <1>3, <1>6, <1>10 DEF Node
<1>12. LeastRecentTime(c) = map[r][1].t
  BY DEF LeastRecentTime
<1> QED BY <1>2, <1>3, <1>4, <1>7, <1>11, <1>12

\* What FreeSomeCachedMemory() takes out is one element,
LEMMA RemovalGoes ==
  ASSUME Typed, InOrder, Matched, NEW c \in Caches, list[c] # <<>>,
         RemoveLeastRecentlyUsed(c)
  PROVE  Goes(Head(list[c]).request, 1, 1)
<1> DEFINE r == Head(list[c]).request
<1>1. /\ r \in Requests /\ CacheOf(r) = c
      /\ 1 \in DOMAIN list[c] /\ 1 \in DOMAIN map[r]
      /\ list[c][1] = [request |-> r, t |-> map[r][1].t]
  BY OldestFirst
<1>2. list[c] \in Seq(Node) /\ map[r] \in Seq(Entry) /\ map[r] # <<>>
  BY <1>1, Domains, EmptySeq
<1>3. Tail(list[c]) \in Seq(Node) /\ Dropped(list[c], 1, Tail(list[c]))
  BY <1>2, TailDrops
<1>4. Tail(map[r]) \in Seq(Entry) /\ Dropped(map[r], 1, Tail(map[r]))
  BY <1>2, TailDrops
<1>5. list' = [list EXCEPT ![c] = Tail(list[c])] /\ map' = [map EXCEPT ![r] = Tail(map[r])]
  BY DEF RemoveLeastRecentlyUsed
<1> HIDE DEF r
<1>6. Goes(r, 1, 1)
  BY <1>1, <1>3, <1>4, <1>5 DEF Goes
<1> QED BY <1>6 DEF r

\* and so is what Lookup() does.
LEMMA LookupGoes ==
  ASSUME Typed, InOrder, Matched, NEW r \in Requests, Lookup(r)
  PROVE  /\ Goes(r, NewestNode(r), Len(map[r]))
         /\ Last(map[r]) = map[r][Len(map[r])]
<1> DEFINE c == CacheOf(r)
           n == Len(map[r])
           i == NewestNode(r)
<1>1. c \in Caches
  BY CachesAreNumbers
<1>2. /\ list[c] \in Seq(Node) /\ DOMAIN list[c] = 1..Len(list[c])
      /\ \A k \in DOMAIN list[c] : list[c][k] \in Node
  BY <1>1, Domains
<1>3. map[r] \in Seq(Entry) /\ map[r] # <<>> /\ DOMAIN map[r] = 1..Len(map[r])
  BY Domains DEF Lookup
<1>4. n \in DOMAIN map[r] /\ Front(map[r]) \in Seq(Entry) /\ Dropped(map[r], n, Front(map[r]))
  BY <1>3, FrontDrops
<1>5. Last(map[r]) = map[r][n]
  BY DEF Last
<1>6. PICK o \in DOMAIN list[c] : list[c][o] = [request |-> r, t |-> map[r][n].t]
  BY <1>4 DEF Matched
<1>7. i \in DOMAIN list[c] /\ list[c][i].t = map[r][n].t
  BY <1>5, <1>6 DEF NewestNode
<1>8. i = o
  <2>1. i = o \/ i < o \/ o < i
    BY <1>2, <1>7
  <2>2. list[c][i].t \in Nat /\ list[c][o].t \in Nat /\ list[c][o].t = map[r][n].t
    BY <1>2, <1>6, <1>7 DEF Node
  <2>3. (i < o => list[c][i].t < list[c][o].t) /\ (o < i => list[c][o].t < list[c][i].t)
    BY <1>1, <1>7 DEF InOrder
  <2> QED BY <1>7, <2>1, <2>2, <2>3
<1>9. RemoveAt(list[c], i) \in Seq(Node) /\ Dropped(list[c], i, RemoveAt(list[c], i))
  BY <1>2, <1>7, RemoveAtDrops
<1>10. /\ list' = [list EXCEPT ![c] = RemoveAt(list[c], i)]
       /\ map' = [map EXCEPT ![r] = Front(map[r])]
  BY DEF Lookup
<1> HIDE DEF i, n
<1>11. list[c][i] = [request |-> r, t |-> map[r][n].t]
  BY <1>6, <1>8
<1>12. Goes(r, i, n)
  BY <1>4, <1>7, <1>9, <1>10, <1>11 DEF Goes
<1> QED BY <1>5, <1>12 DEF i, n

\* The cached blocks are the others when the element of pointer p has gone.
LEMMA BlocksOfGoing ==
  ASSUME Typed, Blocks, NEW r \in Requests, NEW i, NEW j, Goes(r, i, j),
         DOMAIN device' \ DOMAIN used_map'
            = (DOMAIN device \ DOMAIN used_map) \ {map[r][j].pointer},
         \A p \in DOMAIN device' : p \in DOMAIN device /\ device'[p] = device[p],
         \A p \in DOMAIN used_map' : device'[p] = Bytes(used_map'[p])
  PROVE  Blocks'
<1> DEFINE gone == map[r][j].pointer
<1>1. j \in DOMAIN map[r]
  BY DEF Goes
<1>2. \A q \in Requests : \A n \in DOMAIN map[q] :
         map[q][n].pointer = gone <=> (q = r /\ n = j)
  BY <1>1 DEF Blocks
<1>3. \A q \in Requests : \A k \in DOMAIN map'[q] :
         \E n \in DOMAIN map[q] : map'[q][k] = map[q][n] /\ (q = r => n # j)
  BY OthersStay
<1>4. ASSUME NEW q \in Requests, NEW k \in DOMAIN map'[q]
      PROVE  /\ map'[q][k].pointer \in DOMAIN device' \ DOMAIN used_map'
             /\ device'[map'[q][k].pointer] = Bytes(q)
  <2>1. PICK n \in DOMAIN map[q] : map'[q][k] = map[q][n] /\ (q = r => n # j)
    BY <1>3
  <2>2. /\ map[q][n].pointer \in DOMAIN device \ DOMAIN used_map
        /\ device[map[q][n].pointer] = Bytes(q)
    BY DEF Blocks
  <2>3. map[q][n].pointer # gone
    BY <1>2, <2>1
  <2> QED BY <2>1, <2>2, <2>3
<1>5. ASSUME NEW q \in Requests, NEW s \in Requests,
             NEW k \in DOMAIN map'[q], NEW l \in DOMAIN map'[s],
             map'[q][k].pointer = map'[s][l].pointer
      PROVE  q = s /\ k = l
  <2>1. PICK m \in DOMAIN map[q] : map'[q][k] = map[q][m]
    BY <1>3
  <2>2. PICK n \in DOMAIN map[s] : map'[s][l] = map[s][n]
    BY <1>3
  <2>3. q = s /\ m = n
    BY <1>5, <2>1, <2>2 DEF Blocks
  <2>4. /\ Typed'
        /\ \A x, y \in DOMAIN map'[q] : x < y =>
              \E m1, m2 \in DOMAIN map[q] :
                 m1 < m2 /\ map'[q][x] = map[q][m1] /\ map'[q][y] = map[q][m2]
    BY OthersStay
  <2>5. k \in Nat /\ l \in Nat
    <3>1. map'[q] \in Seq(Entry)
      BY <2>4 DEF Typed
    <3> QED BY <2>3, <3>1, LenProperties
  <2>6. ASSUME NEW x \in DOMAIN map'[q], NEW y \in DOMAIN map'[q], x < y
        PROVE  map'[q][x].pointer # map'[q][y].pointer
    <3>1. PICK m1 \in DOMAIN map[q], m2 \in DOMAIN map[q] :
             m1 < m2 /\ map'[q][x] = map[q][m1] /\ map'[q][y] = map[q][m2]
      BY <2>4, <2>6
    <3>2. m1 # m2
      BY <3>1, Domains
    <3> QED BY <3>1, <3>2 DEF Blocks
  <2>7. k = l \/ k < l \/ l < k
    BY <2>5
  <2> QED BY <1>5, <2>3, <2>6, <2>7
<1>6. ASSUME NEW p \in DOMAIN device' \ DOMAIN used_map'
      PROVE  \E q \in Requests : \E k \in DOMAIN map'[q] : map'[q][k].pointer = p
  <2>1. p \in DOMAIN device \ DOMAIN used_map /\ p # gone
    OBVIOUS
  <2>2. PICK q \in Requests : \E n \in DOMAIN map[q] : map[q][n].pointer = p
    BY <2>1 DEF Blocks
  <2>3. PICK n \in DOMAIN map[q] : map[q][n].pointer = p
    BY <2>2
  <2>4. q = r => n # j
    BY <2>1, <2>3
  <2>5. \E k \in DOMAIN map'[q] : map'[q][k] = map[q][n]
    BY <2>4, OthersStay
  <2> QED BY <2>3, <2>5
<1> QED BY <1>4, <1>5, <1>6 DEF Blocks

\* What is left is as old as it was.
LEMMA TimesOfGoing ==
  ASSUME Typed, Timely, NEW r \in Requests, NEW i, NEW j, Goes(r, i, j),
         t \in Nat, t' \in Nat, t <= t', pc' # "idle" => pc # "idle"
  PROVE  Timely'
<1>1. ASSUME NEW q \in Requests, NEW k \in DOMAIN map'[q]
      PROVE  /\ map'[q][k].t > 0 /\ map'[q][k].t <= t'
             /\ pc' # "idle" => map'[q][k].t < t'
  <2>1. PICK n \in DOMAIN map[q] : map'[q][k] = map[q][n]
    BY OthersStay
  <2>2. map[q][n].t \in Nat
    BY Domains DEF Entry
  <2>3. map[q][n].t > 0 /\ map[q][n].t <= t /\ (pc # "idle" => map[q][n].t < t)
    BY DEF Timely
  <2> QED BY <2>1, <2>2, <2>3
<1> QED BY <1>1 DEF Timely

\* An element comes into a cache.
LEMMA AppendAdds ==
  ASSUME NEW S, NEW s \in Seq(S), NEW e \in S, NEW u, u = Append(s, e)
  PROVE  /\ u \in Seq(S) /\ DOMAIN s \subseteq DOMAIN u
         /\ Len(s) + 1 \in DOMAIN u /\ u[Len(s) + 1] = e
         /\ \A k \in DOMAIN u : k = Len(s) + 1 \/ (k \in DOMAIN s /\ k < Len(s) + 1)
         /\ \A k \in DOMAIN s : u[k] = s[k]
         /\ \A k \in DOMAIN u : k \in Nat
<1>1. /\ u \in Seq(S) /\ Len(u) = Len(s) + 1
      /\ \A k \in 1..Len(s) : u[k] = s[k]
      /\ u[Len(s) + 1] = e
  BY AppendProperties
<1>2. DOMAIN s = 1..Len(s) /\ DOMAIN u = 1..Len(u) /\ Len(s) \in Nat
  BY <1>1, LenProperties
<1> QED BY <1>1, <1>2

\* Insert() puts the newest element last: the order of time stays,
LEMMA OrderOfInsert ==
  ASSUME Typed, InOrder, Matched, Timely, t \in Nat,
         NEW r \in Requests, NEW p \in Nat, NEW time \in Nat, t < time, Insert(r, p, time)
  PROVE  Typed' /\ InOrder'
<1> DEFINE c == CacheOf(r)
           e == [pointer |-> p, t |-> time]
           n == [request |-> r, t |-> time]
<1>1. c \in Caches /\ list[c] \in Seq(Node) /\ map[r] \in Seq(Entry) /\ e \in Entry /\ n \in Node
  BY CachesAreNumbers, Domains DEF Entry, Node
<1>2. list' = [list EXCEPT ![c] = Append(list[c], n)] /\ map' = [map EXCEPT ![r] = Append(map[r], e)]
  BY DEF Insert
<1>3. /\ list'[c] = Append(list[c], n) /\ \A d \in Caches : d # c => list'[d] = list[d]
      /\ map'[r] = Append(map[r], e) /\ \A q \in Requests : q # r => map'[q] = map[q]
  BY <1>1, <1>2 DEF Typed
<1>4. e.t = time /\ n.t = time
  OBVIOUS
<1> HIDE DEF e, n
<1>5. Append(list[c], n) \in Seq(Node) /\ Append(map[r], e) \in Seq(Entry)
  BY <1>1, AppendProperties
<1>6. Typed'
  BY <1>1, <1>2, <1>5 DEF Typed
<1>7. \A q \in Requests : \A k \in DOMAIN map[q] : map[q][k].t < time
  <2> SUFFICES ASSUME NEW q \in Requests, NEW k \in DOMAIN map[q] PROVE map[q][k].t < time
    OBVIOUS
  <2>1. map[q][k].t \in Nat /\ map[q][k].t <= t
    BY Domains DEF Entry, Timely
  <2> QED BY <2>1
<1>8. \A d \in Caches : \A k \in DOMAIN list[d] : list[d][k].t < time
  <2> SUFFICES ASSUME NEW d \in Caches, NEW k \in DOMAIN list[d] PROVE list[d][k].t < time
    OBVIOUS
  <2>1. list[d][k].request \in Requests
    BY Domains DEF Node
  <2>2. PICK o \in DOMAIN map[list[d][k].request] : map[list[d][k].request][o].t = list[d][k].t
    BY DEF Matched
  <2> QED BY <1>7, <2>1, <2>2
<1>9. ASSUME NEW d \in Caches, NEW k \in DOMAIN list'[d], NEW o \in DOMAIN list'[d], k < o
      PROVE  list'[d][k].t < list'[d][o].t
  <2>1. CASE d # c
    BY <1>3, <1>9, <2>1 DEF InOrder
  <2>2. CASE d = c
    <3>1. /\ Len(list[c]) + 1 \in DOMAIN list'[c] /\ list'[c][Len(list[c]) + 1] = n
          /\ \A x \in DOMAIN list'[c] :
                x = Len(list[c]) + 1 \/ (x \in DOMAIN list[c] /\ x < Len(list[c]) + 1)
          /\ \A x \in DOMAIN list[c] : list'[c][x] = list[c][x]
          /\ \A x \in DOMAIN list'[c] : x \in Nat
      BY <1>1, <1>3, AppendAdds
    <3>2. k \in DOMAIN list[c]
      BY <1>1, <1>9, <2>2, <3>1, Domains
    <3>3. CASE o \in DOMAIN list[c]
      BY <1>1, <1>9, <2>2, <3>1, <3>2, <3>3 DEF InOrder
    <3>4. CASE o = Len(list[c]) + 1
      BY <1>1, <1>4, <1>8, <2>2, <3>1, <3>2, <3>4
    <3> QED BY <2>2, <3>1, <3>3, <3>4
  <2> QED BY <2>1, <2>2
<1>10. ASSUME NEW q \in Requests, NEW k \in DOMAIN map'[q], NEW o \in DOMAIN map'[q], k < o
       PROVE  map'[q][k].t < map'[q][o].t
  <2>1. CASE q # r
    BY <1>3, <1>10, <2>1 DEF InOrder
  <2>2. CASE q = r
    <3>1. /\ Len(map[r]) + 1 \in DOMAIN map'[r] /\ map'[r][Len(map[r]) + 1] = e
          /\ \A x \in DOMAIN map'[r] :
                x = Len(map[r]) + 1 \/ (x \in DOMAIN map[r] /\ x < Len(map[r]) + 1)
          /\ \A x \in DOMAIN map[r] : map'[r][x] = map[r][x]
          /\ \A x \in DOMAIN map'[r] : x \in Nat
      BY <1>1, <1>3, AppendAdds
    <3>2. k \in DOMAIN map[r]
      BY <1>1, <1>10, <2>2, <3>1, Domains
    <3>3. CASE o \in DOMAIN map[r]
      BY <1>1, <1>10, <2>2, <3>1, <3>2, <3>3 DEF InOrder
    <3>4. CASE o = Len(map[r]) + 1
      BY <1>1, <1>4, <1>7, <2>2, <3>1, <3>2, <3>4
    <3> QED BY <2>2, <3>1, <3>3, <3>4
  <2> QED BY <2>1, <2>2
<1> QED BY <1>6, <1>9, <1>10 DEF InOrder

\* The new element is the last one of its request; the others are as they were.
LEMMA EntriesOfInsert ==
  ASSUME Typed, NEW r \in Requests, NEW p \in Nat, NEW time \in Nat, Insert(r, p, time)
  PROVE  LET new == Len(map[r]) + 1
         IN  /\ \A q \in Requests : \A k \in DOMAIN map'[q] :
                   \/ q = r /\ k = new
                   \/ k \in DOMAIN map[q] /\ map'[q][k] = map[q][k]
             /\ new \in DOMAIN map'[r] /\ map'[r][new] = [pointer |-> p, t |-> time]
             /\ \A q \in Requests : \A k \in DOMAIN map[q] :
                   k \in DOMAIN map'[q] /\ map'[q][k] = map[q][k]
<1> DEFINE e == [pointer |-> p, t |-> time]
           new == Len(map[r]) + 1
<1>1. map[r] \in Seq(Entry) /\ e \in Entry
  BY Domains DEF Entry
<1>2. map'[r] = Append(map[r], e) /\ \A q \in Requests : q # r => map'[q] = map[q]
  BY DEF Insert, Typed
<1> HIDE DEF e
<1>3. /\ DOMAIN map[r] \subseteq DOMAIN map'[r]
      /\ new \in DOMAIN map'[r] /\ map'[r][new] = e
      /\ \A x \in DOMAIN map'[r] : x = new \/ x \in DOMAIN map[r]
      /\ \A x \in DOMAIN map[r] : map'[r][x] = map[r][x]
  BY <1>1, <1>2, AppendAdds
<1> HIDE DEF new
<1>4. ASSUME NEW q \in Requests, NEW k \in DOMAIN map'[q]
      PROVE  \/ q = r /\ k = new
             \/ k \in DOMAIN map[q] /\ map'[q][k] = map[q][k]
  BY <1>2, <1>3
<1>5. ASSUME NEW q \in Requests, NEW k \in DOMAIN map[q]
      PROVE  k \in DOMAIN map'[q] /\ map'[q][k] = map[q][k]
  BY <1>2, <1>3
<1> QED BY <1>3, <1>4, <1>5 DEF e, new

\* and the new node has the new entry.
LEMMA MatchOfInsert ==
  ASSUME Typed, Matched, NEW r \in Requests, NEW p \in Nat, NEW time \in Nat, Insert(r, p, time)
  PROVE  Matched'
<1> DEFINE c == CacheOf(r)
           n == [request |-> r, t |-> time]
           new == Len(map[r]) + 1
           newest == Len(list[c]) + 1
<1>1. c \in Caches /\ list[c] \in Seq(Node) /\ n \in Node
  BY CachesAreNumbers, Domains DEF Node
<1>2. list'[c] = Append(list[c], n) /\ \A d \in Caches : d # c => list'[d] = list[d]
  BY <1>1 DEF Typed, Insert
<1>3. n.request = r /\ n.t = time
  OBVIOUS
<1> HIDE DEF n
<1>4. /\ newest \in DOMAIN list'[c] /\ list'[c][newest] = n
      /\ \A x \in DOMAIN list'[c] : x = newest \/ x \in DOMAIN list[c]
      /\ \A x \in DOMAIN list[c] : x \in DOMAIN list'[c] /\ list'[c][x] = list[c][x]
  BY <1>1, <1>2, AppendAdds
<1>5. /\ \A q \in Requests : \A k \in DOMAIN map'[q] :
            \/ q = r /\ k = new
            \/ k \in DOMAIN map[q] /\ map'[q][k] = map[q][k]
      /\ new \in DOMAIN map'[r] /\ map'[r][new] = [pointer |-> p, t |-> time]
      /\ \A q \in Requests : \A k \in DOMAIN map[q] :
            k \in DOMAIN map'[q] /\ map'[q][k] = map[q][k]
  BY EntriesOfInsert
<1> HIDE DEF new, newest
<1>6. ASSUME NEW d \in Caches, NEW k \in DOMAIN list'[d]
      PROVE  /\ CacheOf(list'[d][k].request) = d
             /\ \E o \in DOMAIN map'[list'[d][k].request] :
                   map'[list'[d][k].request][o].t = list'[d][k].t
  <2>1. CASE d = c /\ k = newest
    BY <1>3, <1>4, <1>5, <2>1
  <2>2. CASE ~(d = c /\ k = newest)
    <3>1. k \in DOMAIN list[d] /\ list'[d][k] = list[d][k]
      BY <1>2, <1>4, <2>2
    <3>2. list[d][k].request \in Requests
      BY <3>1, Domains DEF Node
    <3> QED BY <1>5, <3>1, <3>2 DEF Matched
  <2> QED BY <2>1, <2>2
<1>7. ASSUME NEW q \in Requests, NEW k \in DOMAIN map'[q]
      PROVE  \E o \in DOMAIN list'[CacheOf(q)] :
                list'[CacheOf(q)][o] = [request |-> q, t |-> map'[q][k].t]
  <2>1. CASE q = r /\ k = new
    <3>1. list'[c][newest] = [request |-> r, t |-> map'[r][new].t]
      BY <1>4, <1>5 DEF n
    <3> QED BY <1>4, <2>1, <3>1
  <2>2. CASE ~(q = r /\ k = new)
    <3>1. k \in DOMAIN map[q] /\ map'[q][k] = map[q][k]
      BY <1>5, <2>2
    <3>2. PICK o \in DOMAIN list[CacheOf(q)] :
             list[CacheOf(q)][o] = [request |-> q, t |-> map[q][k].t]
      BY <3>1 DEF Matched
    <3>3. CacheOf(q) \in Caches
      BY CachesAreNumbers
    <3>4. o \in DOMAIN list'[CacheOf(q)] /\ list'[CacheOf(q)][o] = list[CacheOf(q)][o]
      BY <1>2, <1>4, <3>3
    <3> QED BY <3>1, <3>2, <3>4
  <2> QED BY <2>1, <2>2
<1> QED BY <1>6, <1>7 DEF Matched

\* The user's block p becomes the new element of its cache.
LEMMA BlocksOfInsert ==
  ASSUME Typed, Blocks, NEW p \in DOMAIN used_map, NEW time \in Nat, p \in Nat,
         used_map[p] \in Requests, DOMAIN used_map \subseteq DOMAIN device,
         Insert(used_map[p], p, time), UNCHANGED device,
         DOMAIN used_map' = DOMAIN used_map \ {p},
         \A x \in DOMAIN used_map' : used_map'[x] = used_map[x]
  PROVE  Blocks'
<1> DEFINE r == used_map[p]
           new == Len(map[r]) + 1
<1>1. /\ \A q \in Requests : \A k \in DOMAIN map'[q] :
            \/ q = r /\ k = new
            \/ k \in DOMAIN map[q] /\ map'[q][k] = map[q][k]
      /\ new \in DOMAIN map'[r] /\ map'[r][new] = [pointer |-> p, t |-> time]
      /\ \A q \in Requests : \A k \in DOMAIN map[q] :
            k \in DOMAIN map'[q] /\ map'[q][k] = map[q][k]
  BY EntriesOfInsert
<1>2. map'[r][new].pointer = p /\ r \in Requests /\ device[p] = Bytes(r)
  BY <1>1 DEF Blocks
<1> HIDE DEF r, new
<1>3. \A q \in Requests : \A k \in DOMAIN map[q] : map[q][k].pointer # p
  BY DEF Blocks
<1>4. ASSUME NEW q \in Requests, NEW k \in DOMAIN map'[q]
      PROVE  /\ map'[q][k].pointer \in DOMAIN device' \ DOMAIN used_map'
             /\ device'[map'[q][k].pointer] = Bytes(q)
  <2>1. CASE q = r /\ k = new
    BY <1>2, <2>1
  <2>2. CASE k \in DOMAIN map[q] /\ map'[q][k] = map[q][k]
    BY <2>2 DEF Blocks
  <2> QED BY <1>1, <2>1, <2>2
<1>5. ASSUME NEW q \in Requests, NEW s \in Requests,
             NEW k \in DOMAIN map'[q], NEW l \in DOMAIN map'[s],
             map'[q][k].pointer = map'[s][l].pointer
      PROVE  q = s /\ k = l
  <2>1. (q = r /\ k = new) \/ (k \in DOMAIN map[q] /\ map'[q][k] = map[q][k])
    BY <1>1
  <2>2. (s = r /\ l = new) \/ (l \in DOMAIN map[s] /\ map'[s][l] = map[s][l])
    BY <1>1
  <2> QED BY <1>2, <1>3, <1>5, <2>1, <2>2 DEF Blocks
<1>6. ASSUME NEW x \in DOMAIN device' \ DOMAIN used_map'
      PROVE  \E q \in Requests : \E k \in DOMAIN map'[q] : map'[q][k].pointer = x
  <2>1. CASE x = p
    BY <1>1, <1>2, <2>1
  <2>2. CASE x # p
    <3>1. PICK q \in Requests : \E k \in DOMAIN map[q] : map[q][k].pointer = x
      BY <2>2 DEF Blocks
    <3>2. PICK k \in DOMAIN map[q] : map[q][k].pointer = x
      BY <3>1
    <3> QED BY <1>1, <3>2
  <2> QED BY <2>1, <2>2
<1>7. \A x \in DOMAIN used_map' : device'[x] = Bytes(used_map'[x])
  BY DEF Blocks
<1> QED BY <1>4, <1>5, <1>6, <1>7 DEF Blocks

-----------------------------------------------------------------------------
(* The books. *)

\* A product grows with its factors.
LEMMA ProductGrows ==
  ASSUME NEW a \in Nat, NEW b \in Nat, NEW c \in Nat, a <= b
  PROVE  a * c <= b * c /\ c * a <= c * b /\ a * c \in Nat /\ b * c \in Nat
<1>1. PICK d \in Nat : b = a + d
  <2>1. b - a \in Nat /\ b = a + (b - a)
    OBVIOUS
  <2> QED BY <2>1
<1>2. a * c \in Nat /\ d * c \in Nat /\ (a + d) * c = a * c + d * c /\ c * (a + d) = (a + d) * c
  OBVIOUS
<1> QED BY <1>1, <1>2

\* What may be allocated is at least what the user needs.
LEMMA FactorBounds ==
  ASSUME NEW f \in 100..MemoryFactor, NEW m \in Nat
  PROVE  /\ (f * m) \div 100 \in Nat
         /\ m <= (f * m) \div 100
         /\ 100 * ((f * m) \div 100) <= MemoryFactor * m
<1>1. MemoryFactor \in Nat /\ f \in Nat /\ 100 <= f /\ f <= MemoryFactor
  BY AllocatorAssumption
<1>2. 100 * m <= f * m /\ f * m <= MemoryFactor * m /\ f * m \in Nat /\ MemoryFactor * m \in Nat
  BY <1>1, ProductGrows
<1> DEFINE x == f * m
           y == MemoryFactor * m
<1>3. x \in Nat /\ y \in Nat /\ 100 * m <= x /\ x <= y
  BY <1>2
<1> HIDE DEF x, y
<1>4. x \div 100 \in Nat /\ m <= x \div 100 /\ 100 * (x \div 100) <= y
  BY <1>3
<1> QED BY <1>4 DEF x, y

\* The limit grows with the most that was used.
LEMMA FactorOfMore ==
  ASSUME NEW m \in Nat, NEW n \in Nat, m <= n
  PROVE  MemoryFactor * m <= MemoryFactor * n /\ MemoryFactor * m \in Int /\ MemoryFactor * n \in Int
BY AllocatorAssumption, ProductGrows

\* The user holds finitely many blocks; their bytes are a number.
LEMMA UsedIsFinite ==
  ASSUME Type
  PROVE  /\ IsFiniteSet(DOMAIN used_map)
         /\ \A p \in DOMAIN used_map : Bytes(used_map[p]) \in Nat
         /\ UsedBytes \in Nat /\ Sum(device) \in Nat
<1>1. IsFiniteSet(DOMAIN used_map)
  BY FS_Subset DEF Type
<1>2. \A p \in DOMAIN used_map : Bytes(used_map[p]) \in Nat
  BY BytesArePositive DEF Type
<1>3. UsedBytes \in Nat
  BY <1>1, <1>2, SumType DEF UsedBytes
<1>4. Sum(device) \in Nat
  BY SumType DEF Type
<1> QED BY <1>1, <1>2, <1>3, <1>4

\* The user holds no more than CUDA has allocated, and all of it if nothing is
\* cached.
LEMMA UsedIsPart ==
  ASSUME Type, Blocks
  PROVE  /\ UsedBytes <= Sum(device)
         /\ DOMAIN used_map = DOMAIN device => UsedBytes = Sum(device)
<1> DEFINE f == [p \in DOMAIN used_map |-> Bytes(used_map[p])]
<1>1. IsFiniteSet(DOMAIN device) /\ \A p \in DOMAIN device : device[p] \in Nat
  BY DEF Type
<1>2. DOMAIN f = DOMAIN used_map /\ DOMAIN f \subseteq DOMAIN device
      /\ \A p \in DOMAIN f : f[p] = device[p]
  BY DEF Type, Blocks
<1> HIDE DEF f
<1>3. Sum(f) <= Sum(device) /\ (DOMAIN f = DOMAIN device => Sum(f) = Sum(device))
  BY <1>1, <1>2, SumMonotone
<1> QED BY <1>2, <1>3 DEF f, UsedBytes

\* LeastRecentTime() is zero only for an empty cache.
LEMMA NonEmptyAre ==
  ASSUME Typed, InOrder, Matched, Timely, NEW c \in Caches
  PROVE  c \in NonEmpty <=> list[c] # <<>>
<1>1. CASE list[c] = <<>>
  BY <1>1 DEF NonEmpty, LeastRecentTime
<1>2. CASE list[c] # <<>>
  <2> DEFINE r == Head(list[c]).request
  <2>1. r \in Requests /\ 1 \in DOMAIN map[r] /\ LeastRecentTime(c) = map[r][1].t
    BY <1>2, OldestFirst
  <2>2. map[r][1].t > 0
    BY <2>1 DEF Timely
  <2> QED BY <1>2, <2>1, <2>2 DEF NonEmpty
<1> QED BY <1>1, <1>2

\* If all caches are empty, the user holds every block.
LEMMA NothingIsCached ==
  ASSUME Type, Blocks, InOrder, Matched, Timely, NonEmpty = {}
  PROVE  UsedBytes = Sum(device)
<1>1. ASSUME NEW p \in DOMAIN device \ DOMAIN used_map PROVE FALSE
  <2>1. PICK r \in Requests : \E i \in DOMAIN map[r] : map[r][i].pointer = p
    BY DEF Blocks
  <2>2. PICK i \in DOMAIN map[r] : map[r][i].pointer = p
    BY <2>1
  <2>3. PICK k \in DOMAIN list[CacheOf(r)] :
           list[CacheOf(r)][k] = [request |-> r, t |-> map[r][i].t]
    BY DEF Matched
  <2>4. CacheOf(r) \in Caches
    BY CachesAreNumbers
  <2>5. list[CacheOf(r)] # <<>>
    BY <2>3
  <2> QED BY <2>4, <2>5, NonEmptyAre DEF Type
<1>2. DOMAIN used_map = DOMAIN device
  BY <1>1 DEF Type
<1> QED BY <1>2, UsedIsPart

\* The queue of the caches has a first one.
LEMMA WorstIsCache ==
  ASSUME Type, NonEmpty # {}, InOrder, Matched
  PROVE  WorstCache \in NonEmpty
<1>1. NonEmpty \subseteq Caches /\ IsFiniteSet(NonEmpty)
  <2>1. NonEmpty \subseteq Caches
    BY DEF NonEmpty
  <2> QED BY <2>1, CachesAreNumbers, FS_Subset
<1>2. ASSUME NEW c \in NonEmpty PROVE Cost(c) \in Int
  <2>1. 2^c \in Int /\ t \in Int
    BY <1>1, CachesAreNumbers DEF Type
  <2>2. LeastRecentTime(c) \in Int
    <3>1. CASE list[c] = <<>>
      BY <3>1 DEF LeastRecentTime
    <3>2. CASE list[c] # <<>>
      <4> DEFINE r == Head(list[c]).request
      <4>1. r \in Requests /\ 1 \in DOMAIN map[r] /\ LeastRecentTime(c) = map[r][1].t
        BY <1>1, <3>2, OldestFirst DEF Type
      <4>2. map[r][1].t \in Nat
        BY <4>1, Domains DEF Type, Entry
      <4> QED BY <4>1, <4>2
    <3> QED BY <3>1, <3>2
  <2> QED BY <2>1, <2>2 DEF Cost
<1> DEFINE costs == {Cost(c) : c \in NonEmpty}
           worst == {c \in NonEmpty : \A d \in NonEmpty : Cost(c) >= Cost(d)}
<1>3. IsFiniteSet(costs)
  <2> DEFINE f == [c \in NonEmpty |-> Cost(c)]
  <2>1. f \in Surjection(NonEmpty, costs)
    BY DEF Surjection
  <2> QED BY <1>1, <2>1, FS_Surjection
<1>4. costs \subseteq Int /\ costs # {}
  BY <1>2
<1>5. Max(costs) \in costs /\ \A x \in costs : x <= Max(costs)
  <2> HIDE DEF costs
  <2> QED BY <1>3, <1>4, FiniteMax
<1>6. PICK c \in NonEmpty : Cost(c) = Max(costs)
  BY <1>5
<1>7. c \in worst
  <2>1. \A d \in NonEmpty : Cost(d) <= Cost(c) /\ Cost(c) \in Int /\ Cost(d) \in Int
    BY <1>2, <1>5, <1>6
  <2>2. \A d \in NonEmpty : Cost(c) >= Cost(d)
    <3> HIDE DEF costs
    <3> QED BY <2>1
  <2> QED BY <2>2
<1>8. worst \subseteq NonEmpty /\ worst # {} /\ IsFiniteSet(worst)
  BY <1>1, <1>7, FS_Subset
<1>9. Max(worst) \in worst
  <2> HIDE DEF worst
  <2>1. worst \subseteq Int
    BY <1>1, <1>8, CachesAreNumbers
  <2> QED BY <1>8, <2>1, FiniteMax
<1> QED BY <1>8, <1>9 DEF WorstCache

\* CUDA gives an address that is not in use.
LEMMA NewPointerIsNew ==
  ASSUME IsFiniteSet(DOMAIN device)
  PROVE  NewPointer \in Nat /\ NewPointer \notin DOMAIN device
<1> DEFINE n == Cardinality(DOMAIN device)
           some == (1..(n + 1)) \ DOMAIN device
<1>1. n \in Nat
  BY FS_CardinalityType
<1>2. some # {}
  <2> SUFFICES ASSUME 1..(n + 1) \subseteq DOMAIN device PROVE FALSE
    OBVIOUS
  <2>1. Cardinality(1..(n + 1)) <= n
    BY FS_Subset
  <2>2. Cardinality(1..(n + 1)) = n + 1
    <3> HIDE DEF n
    <3>1. 1 \in Int /\ n + 1 \in Int /\ ~(1 > n + 1) /\ (n + 1) - 1 + 1 = n + 1
      BY <1>1
    <3>2. Cardinality(1..(n + 1)) = IF 1 > n + 1 THEN 0 ELSE (n + 1) - 1 + 1
      BY <3>1, FS_Interval
    <3> QED BY <3>1, <3>2
  <2> HIDE DEF n
  <2> QED BY <1>1, <2>1, <2>2
<1>3. some \subseteq Nat
  BY <1>1
<1>4. Min(some) \in some
  <2> HIDE DEF some
  <2> QED BY <1>2, <1>3, LeastOf
<1> QED BY <1>3, <1>4 DEF NewPointer

-----------------------------------------------------------------------------
(* The steps. *)

\* The constructor establishes the invariant.
LEMMA InitIInv == Init => IInv
<1> SUFFICES ASSUME Init PROVE IInv
  OBVIOUS
<1> USE DEF Init
<1>1. used_map = <<>> /\ device = <<>> /\ DOMAIN used_map = {} /\ DOMAIN device = {}
  OBVIOUS
<1>2. Type
  <2>1. Typed
    <3>1. <<>> \in Seq(Node) /\ <<>> \in Seq(Entry)
      OBVIOUS
    <3> QED BY <3>1 DEF Typed
  <2>2. MemoryFactor \in 100..MemoryFactor
    BY AllocatorAssumption
  <2>3. IsFiniteSet({})
    BY FS_EmptySet
  <2> QED BY <1>1, <2>1, <2>2, <2>3 DEF Type
<1>3. \A r \in Requests : DOMAIN map[r] = {}
  OBVIOUS
<1>4. \A c \in Caches : DOMAIN list[c] = {}
  OBVIOUS
<1>5. Blocks
  BY <1>1, <1>3 DEF Blocks
<1>6. InOrder /\ Matched /\ Timely
  BY <1>3, <1>4 DEF InOrder, Matched, Timely
<1>7. Books
  <2>1. UsedBytes = 0
    BY <1>1, SumEmpty DEF UsedBytes
  <2>2. Sum(device) = 0
    BY <1>1, SumEmpty
  <2>3. MemoryFactor * 0 = 0
    BY AllocatorAssumption
  <2> QED BY <2>1, <2>2, <2>3, AllocatorAssumption DEF Books, ToCome
<1>8. Limits /\ Returned
  BY DEF Limits, Returned
<1> QED BY <1>2, <1>5, <1>6, <1>7, <1>8 DEF IInv

\* A call of MallocPitch() or of Free() begins: only the sizes matter.
LEMMA Entered ==
  ASSUME Type, Books, NEW r \in Requests, Enter(r)
  PROVE  /\ max_bytes_used' \in Nat /\ t' \in Nat \ {0} /\ t' = t + 1
         /\ max_bytes_used <= max_bytes_used'
         /\ cur_bytes_used + Bytes(r) <= max_bytes_used'
         /\ MemoryFactor * max_bytes_used <= MemoryFactor * max_bytes_used'
         /\ MemoryFactor * max_bytes_used \in Int /\ MemoryFactor * max_bytes_used' \in Int
<1>1. Bytes(r) \in Nat /\ cur_bytes_used + Bytes(r) \in Nat /\ max_bytes_used \in Nat
  BY BytesArePositive DEF Type
<1>2. max_bytes_used' = Max({max_bytes_used, cur_bytes_used + Bytes(r)})
  BY DEF Enter
<1>3. /\ max_bytes_used' \in Nat /\ max_bytes_used <= max_bytes_used'
      /\ cur_bytes_used + Bytes(r) <= max_bytes_used'
  <2> DEFINE asked == cur_bytes_used + Bytes(r)
  <2>1. asked \in Nat /\ max_bytes_used' = Max({max_bytes_used, asked})
    BY <1>1, <1>2
  <2> HIDE DEF asked
  <2>2. /\ Max({max_bytes_used, asked}) \in {max_bytes_used, asked}
        /\ max_bytes_used <= Max({max_bytes_used, asked})
        /\ asked <= Max({max_bytes_used, asked})
    BY <1>1, <2>1, MaxOfTwo
  <2>3. max_bytes_used' \in Nat /\ max_bytes_used <= max_bytes_used' /\ asked <= max_bytes_used'
    BY <1>1, <2>1, <2>2
  <2> QED BY <2>3 DEF asked
<1>4. t' \in Nat \ {0} /\ t' = t + 1
  BY DEF Enter, Type
<1> QED BY <1>1, <1>3, <1>4, FactorOfMore

\* used_map_ gains a block, and the user its bytes.
LEMMA UserGets ==
  ASSUME Type, NEW r \in Requests, NEW p, p \notin DOMAIN used_map, GiveToUser(r, p)
  PROVE  /\ DOMAIN used_map' = DOMAIN used_map \cup {p}
         /\ used_map'[p] = r
         /\ \A x \in DOMAIN used_map : used_map'[x] = used_map[x]
         /\ \A x \in DOMAIN used_map' : used_map'[x] \in Requests
         /\ UsedBytes' = UsedBytes + Bytes(r)
         /\ cur_bytes_used' = cur_bytes_used + Bytes(r)
<1>1. /\ DOMAIN used_map' = DOMAIN used_map \cup {p} /\ used_map'[p] = r
      /\ \A x \in DOMAIN used_map : used_map'[x] = used_map[x]
  BY DEF GiveToUser
<1>2. \A x \in DOMAIN used_map' : used_map'[x] \in Requests
  BY <1>1 DEF Type
<1> DEFINE f == [x \in DOMAIN used_map |-> Bytes(used_map[x])]
           g == [x \in DOMAIN used_map' |-> Bytes(used_map'[x])]
<1>3. IsFiniteSet(DOMAIN f) /\ \A x \in DOMAIN f : f[x] \in Nat
  BY UsedIsFinite
<1>4. /\ p \notin DOMAIN f /\ DOMAIN g = DOMAIN f \cup {p} /\ g[p] = Bytes(r) /\ g[p] \in Nat
      /\ \A x \in DOMAIN f : g[x] = f[x]
  BY <1>1, BytesArePositive
<1>5. Sum(g) = Sum(f) + g[p]
  <2> HIDE DEF f, g
  <2> QED BY <1>3, <1>4, SumExtend
<1>6. UsedBytes' = Sum(g) /\ UsedBytes = Sum(f)
  BY DEF UsedBytes
<1>7. cur_bytes_used' = cur_bytes_used + Bytes(r)
  BY DEF GiveToUser
<1> QED BY <1>1, <1>2, <1>4, <1>5, <1>6, <1>7

\* MallocPitch() from the cache keeps the invariant,
LEMMA MallocCachedStep ==
  ASSUME IInv, NEW r \in Requests, MallocCached(r)
  PROVE  IInv'
<1> USE DEF IInv
<1> DEFINE i == NewestNode(r)
           n == Len(map[r])
           p == map[r][n].pointer
<1>1. /\ Lookup(r) /\ Enter(r) /\ pc = "idle"
      /\ UNCHANGED <<memory_factor, cur_bytes_allocated, pc, call, loop, device>>
  BY DEF MallocCached, Enter
<1>2. Typed
  BY DEF Type
<1>3. Goes(r, i, n) /\ Last(map[r]) = map[r][n]
  BY <1>1, <1>2, LookupGoes
<1>4. n \in DOMAIN map[r]
  BY <1>3 DEF Goes
<1>5. p \in DOMAIN device \ DOMAIN used_map /\ device[p] = Bytes(r)
  BY <1>4 DEF Blocks
<1>6. GiveToUser(r, p)
  BY <1>3 DEF MallocCached
<1> HIDE DEF i, n
<1>7. /\ DOMAIN used_map' = DOMAIN used_map \cup {p} /\ used_map'[p] = r
      /\ \A x \in DOMAIN used_map : used_map'[x] = used_map[x]
      /\ \A x \in DOMAIN used_map' : used_map'[x] \in Requests
      /\ UsedBytes' = UsedBytes + Bytes(r)
      /\ cur_bytes_used' = cur_bytes_used + Bytes(r)
  BY <1>5, <1>6, UserGets
<1>8. /\ max_bytes_used' \in Nat /\ t' \in Nat \ {0} /\ t' = t + 1
      /\ max_bytes_used <= max_bytes_used'
      /\ cur_bytes_used + Bytes(r) <= max_bytes_used'
      /\ MemoryFactor * max_bytes_used <= MemoryFactor * max_bytes_used'
      /\ MemoryFactor * max_bytes_used \in Int /\ MemoryFactor * max_bytes_used' \in Int
  BY <1>1, Entered
<1>9. Typed'
  BY <1>2, <1>3, OthersStay
<1>10. Bytes(r) \in Nat /\ cur_bytes_used \in Nat
  BY BytesArePositive DEF Type
<1>11. Type'
  BY <1>1, <1>5, <1>7, <1>8, <1>9, <1>10 DEF Type
<1>12. Blocks'
  <2>1. DOMAIN device' \ DOMAIN used_map'
           = (DOMAIN device \ DOMAIN used_map) \ {map[r][n].pointer}
    BY <1>1, <1>7
  <2>2. \A x \in DOMAIN used_map' : device'[x] = Bytes(used_map'[x])
    BY <1>1, <1>5, <1>7 DEF Blocks
  <2> QED BY <1>1, <1>2, <1>3, <2>1, <2>2, BlocksOfGoing
<1>13. InOrder' /\ Matched'
  BY <1>2, <1>3, OrderOfGoing, MatchOfGoing
<1>14. Timely'
  <2>1. t \in Nat /\ t' \in Nat /\ t <= t' /\ (pc' # "idle" => pc # "idle")
    BY <1>1, <1>8 DEF Type
  <2> QED BY <1>2, <1>3, <2>1, TimesOfGoing
<1>15. Books'
  <2>1. Sum(device)' = Sum(device) /\ ToCome' = ToCome
    BY <1>1 DEF ToCome
  <2>2. 100 * cur_bytes_allocated' <= MemoryFactor * max_bytes_used'
    BY <1>1, <1>8 DEF Books, Type
  <2> QED BY <1>1, <1>7, <1>8, <1>10, <2>1, <2>2 DEF Books
<1>16. Limits' /\ Returned'
  BY <1>1 DEF Limits, Returned
<1> QED BY <1>11, <1>12, <1>13, <1>14, <1>15, <1>16

\* What FreeSomeCachedMemory() sets out to free.
LEMMA FreeingStarts ==
  ASSUME NEW bytes \in Int, MemoryCached \in Int, max_bytes_used' \in Nat, StartFreeing(bytes)
  PROVE  /\ loop' \in [to_free : Int, freed : Nat, cache : Int]
         /\ loop'.freed = 0
         /\ loop'.to_free <= MemoryCached
         /\ loop'.to_free = MemoryCached \/ bytes <= loop'.to_free
<1> DEFINE m == (max_bytes_used' * DeleteFactor) \div 100
           most == Max({bytes, m})
<1>1. m \in Int
  <2>1. DeleteFactor \in Nat
    BY AllocatorAssumption
  <2>2. \A x, y \in Nat : x * y \in Nat
    OBVIOUS
  <2>3. max_bytes_used' * DeleteFactor \in Nat
    BY <2>1, <2>2
  <2> QED BY <2>3
<1>2. most \in {bytes, m} /\ bytes <= most
  <2> HIDE DEF m
  <2> QED BY <1>1, MaxOfTwo
<1> HIDE DEF m
<1>3. most \in Int
  BY <1>1, <1>2
<1>4. loop' = [to_free |-> Min({MemoryCached, most}), freed |-> 0, cache |-> -1]
  BY DEF StartFreeing, m
<1> HIDE DEF most
<1>5. /\ Min({MemoryCached, most}) \in {MemoryCached, most}
      /\ Min({MemoryCached, most}) <= MemoryCached
  BY <1>3, MinOfTwo
<1> QED BY <1>2, <1>3, <1>4, <1>5

\* Where neither the caches nor the blocks change:
LEMMA SameBlocks ==
  ASSUME Typed, Blocks, InOrder, Matched, UNCHANGED <<cached, used_map, device>>
  PROVE  /\ Typed' /\ Blocks' /\ InOrder' /\ Matched'
         /\ UsedBytes' = UsedBytes /\ Sum(device)' = Sum(device)
         /\ list' = list /\ map' = map /\ used_map' = used_map /\ device' = device
<1>1. list' = list /\ map' = map /\ used_map' = used_map /\ device' = device
  BY DEF cached
<1>2. Typed'
  BY <1>1 DEF Typed
<1>3. Blocks'
  BY <1>1 DEF Blocks
<1>4. InOrder'
  BY <1>1 DEF InOrder
<1>5. Matched'
  BY <1>1 DEF Matched
<1>6. UsedBytes' = UsedBytes /\ Sum(device)' = Sum(device)
  BY <1>1 DEF UsedBytes
<1> QED BY <1>1, <1>2, <1>3, <1>4, <1>5, <1>6

\* and the elements of the caches stay in the past.
LEMMA TimesStay ==
  ASSUME Typed, Timely, map' = map, t \in Nat, t' \in Nat,
         (t' = t /\ (pc' # "idle" => pc # "idle")) \/ t < t'
  PROVE  Timely'
<1>1. ASSUME NEW r \in Requests, NEW j \in DOMAIN map[r]
      PROVE  map[r][j].t \in Nat /\ map[r][j].t > 0 /\ map[r][j].t <= t
             /\ (pc # "idle" => map[r][j].t < t)
  BY Domains DEF Entry, Timely
<1>2. ASSUME NEW r \in Requests, NEW j \in DOMAIN map'[r]
      PROVE  /\ map'[r][j].t > 0 /\ map'[r][j].t <= t'
             /\ pc' # "idle" => map'[r][j].t < t'
  BY <1>1
<1> QED BY <1>2 DEF Timely

\* MallocPitch() of what is not cached: what it frees first is enough.
LEMMA MallocNewStep ==
  ASSUME IInv, NEW r \in Requests, MallocNew(r)
  PROVE  IInv'
<1> USE DEF IInv
<1>1. /\ Enter(r) /\ pc = "idle" /\ call' = [request |-> r, failed |-> 0, cached |-> 0]
      /\ UNCHANGED <<cached, used_map, memory_factor, cur_bytes_allocated, cur_bytes_used, device>>
      /\ pc' \in {"freeing", "allocate"}
      /\ pc' = "freeing" => StartFreeing(Overflow(r))
      /\ pc' = "allocate" => ~(Overflow(r) > 0) /\ loop' = loop
  BY DEF MallocNew, Enter
<1>2. /\ max_bytes_used' \in Nat /\ t' \in Nat \ {0} /\ t' = t + 1
      /\ max_bytes_used <= max_bytes_used'
      /\ cur_bytes_used + Bytes(r) <= max_bytes_used'
      /\ MemoryFactor * max_bytes_used <= MemoryFactor * max_bytes_used'
      /\ MemoryFactor * max_bytes_used \in Int /\ MemoryFactor * max_bytes_used' \in Int
  BY <1>1, Entered
<1>3. /\ Typed' /\ Blocks' /\ InOrder' /\ Matched'
      /\ UsedBytes' = UsedBytes /\ Sum(device)' = Sum(device)
      /\ list' = list /\ map' = map /\ used_map' = used_map /\ device' = device
  BY <1>1, SameBlocks DEF Type
<1>4. Timely'
  <2>1. t \in Nat /\ t' \in Nat /\ t < t'
    BY <1>2 DEF Type
  <2> QED BY <1>3, <2>1, TimesStay DEF Type
<1>5. /\ Allocatable' \in Nat /\ max_bytes_used' <= Allocatable'
      /\ 100 * Allocatable' <= MemoryFactor * max_bytes_used'
  <2>1. Allocatable' = (memory_factor * max_bytes_used') \div 100
    BY <1>1 DEF Allocatable
  <2>2. memory_factor \in 100..MemoryFactor
    BY DEF Type
  <2> QED BY <1>2, <2>1, <2>2, FactorBounds
<1>6. /\ Bytes(r) \in Nat /\ cur_bytes_allocated \in Nat /\ cur_bytes_used \in Nat
      /\ BytesAskedFor' = Bytes(r) /\ call'.failed = 0 /\ call'.request = r
  BY <1>1, BytesArePositive DEF Type, BytesAskedFor
<1>7. MemoryCached \in Int /\ MemoryCached = cur_bytes_allocated - cur_bytes_used
      /\ MemoryCached' = MemoryCached
  BY <1>1, <1>6 DEF MemoryCached
<1>8. Overflow(r) \in Int /\ Overflow(r) = cur_bytes_allocated + Bytes(r) - Allocatable'
      /\ Overflow(r) <= MemoryCached
  BY <1>2, <1>5, <1>6, <1>7 DEF Overflow
<1>9. CASE pc' = "freeing"
  <2>1. StartFreeing(Overflow(r))
    BY <1>1, <1>9
  <2>2. /\ loop' \in [to_free : Int, freed : Nat, cache : Int]
        /\ loop'.freed = 0
        /\ loop'.to_free <= MemoryCached
        /\ loop'.to_free = MemoryCached \/ Overflow(r) <= loop'.to_free
    BY <1>2, <1>7, <1>8, <2>1, FreeingStarts
  <2>3. Type'
    BY <1>1, <1>2, <1>3, <1>9, <2>2 DEF Type
  <2>4. ToCome' = 0
    BY <1>9, <2>2 DEF ToCome
  <2>5. Books'
    BY <1>1, <1>2, <1>3, <1>6, <2>4 DEF Books, Type, ToCome
  <2>6. loop'.to_free \in Int
    BY <2>2
  <2>7. loop'.to_free >= cur_bytes_allocated + Bytes(r) - Allocatable'
    BY <1>7, <1>8, <2>2, <2>6
  <2>8. Limits' /\ Returned'
    BY <1>1, <1>6, <1>7, <1>9, <2>2, <2>7 DEF Limits, Returned
  <2> QED BY <1>3, <1>4, <2>3, <2>5, <2>8
<1>10. CASE pc' = "allocate"
  <2>1. Type'
    BY <1>1, <1>2, <1>3, <1>10 DEF Type
  <2>2. Books'
    BY <1>1, <1>2, <1>3, <1>6, <1>10 DEF Books, Type, ToCome
  <2>3. cur_bytes_allocated + Bytes(r) <= Allocatable'
    BY <1>1, <1>5, <1>6, <1>8, <1>10
  <2>4. Limits' /\ Returned'
    BY <1>1, <1>6, <1>10, <2>3 DEF Limits, Returned
  <2> QED BY <1>3, <1>4, <2>1, <2>2, <2>4
<1> QED BY <1>1, <1>9, <1>10

\* FreeSomeCachedMemory() ends: what it was to free is free.
LEMMA FreedEnoughStep ==
  ASSUME IInv, FreedEnough
  PROVE  IInv'
<1> USE DEF IInv
<1>1. /\ pc = "freeing" /\ pc' = "allocate" /\ loop.freed >= loop.to_free
      /\ cur_bytes_allocated' = cur_bytes_allocated - loop.freed
      /\ UNCHANGED <<cached, used_map, memory_factor, cur_bytes_used, max_bytes_used,
                     t, call, loop, device>>
  BY DEF FreedEnough
<1>2. /\ Typed' /\ Blocks' /\ InOrder' /\ Matched'
      /\ UsedBytes' = UsedBytes /\ Sum(device)' = Sum(device)
      /\ list' = list /\ map' = map /\ used_map' = used_map /\ device' = device
  BY <1>1, SameBlocks DEF Type
<1>3. Timely'
  BY <1>1, <1>2, TimesStay DEF Type
<1>4. /\ cur_bytes_allocated \in Nat /\ cur_bytes_used \in Nat /\ max_bytes_used \in Nat
      /\ loop.freed \in Nat /\ loop.to_free \in Int
      /\ Sum(device) \in Nat /\ UsedBytes <= Sum(device) /\ UsedBytes = cur_bytes_used
      /\ cur_bytes_allocated = Sum(device) + loop.freed
      /\ cur_bytes_allocated <= DeviceBytes /\ DeviceBytes \in Nat
      /\ BytesAskedFor \in Nat
  BY <1>1, UsedIsFinite, UsedIsPart, BytesArePositive, AllocatorAssumption
     DEF Type, Books, ToCome, BytesAskedFor
<1>5. cur_bytes_allocated' = Sum(device) /\ cur_bytes_allocated' <= cur_bytes_allocated
  BY <1>1, <1>4
<1>6. Type'
  BY <1>1, <1>2, <1>4, <1>5 DEF Type
<1>7. /\ MemoryFactor * max_bytes_used \in Int /\ BytesAskedFor' = BytesAskedFor
      /\ Allocatable' = Allocatable /\ ToCome' = 0 /\ Allocatable \in Nat
  <2>1. MemoryFactor * max_bytes_used \in Int
    BY <1>4, FactorOfMore
  <2>2. Allocatable \in Nat
    BY <1>4, FactorBounds DEF Type, Allocatable
  <2> QED BY <1>1, <2>1, <2>2 DEF BytesAskedFor, Allocatable, ToCome
<1>8. 100 * cur_bytes_allocated' <= MemoryFactor * max_bytes_used
  <2>1. 100 * cur_bytes_allocated <= MemoryFactor * max_bytes_used
    BY DEF Books
  <2> QED BY <1>4, <1>5, <1>7, <2>1
<1>9. Books'
  BY <1>1, <1>2, <1>4, <1>5, <1>7, <1>8 DEF Books
<1>10. call.failed = 0 => cur_bytes_allocated' + BytesAskedFor <= Allocatable
  <2>1. call.failed = 0 => loop.to_free >= cur_bytes_allocated + BytesAskedFor - Allocatable
    BY <1>1 DEF Limits
  <2> QED BY <1>1, <1>4, <1>5, <1>7, <2>1
<1>11. call.failed > 0 =>
          100 * (cur_bytes_allocated' + BytesAskedFor) <= MemoryFactor * max_bytes_used
  <2>1. call.failed > 0 =>
           100 * (cur_bytes_allocated + BytesAskedFor) <= MemoryFactor * max_bytes_used
    BY <1>1 DEF Limits
  <2> QED BY <1>4, <1>5, <1>7, <2>1
<1>12. Returned'
  <2>1. /\ MemoryCached = cur_bytes_allocated - cur_bytes_used
        /\ MemoryCached' = MemoryCached - loop.freed
        /\ MemoryCached' <= MemoryCached - loop.to_free
        /\ MemoryCached \in Int /\ MemoryCached' \in Int /\ call.cached \in Int
        /\ call.failed \in 0..2
    BY <1>1, <1>4 DEF MemoryCached, Type
  <2>2. CASE call.failed = 0
    BY <1>1, <2>2 DEF Returned
  <2>3. CASE call.failed = 1
    <3>1. /\ MemoryCached = call.cached
          /\ 2 * loop.to_free >= MemoryCached - 1
          /\ loop.to_free >= MemoryCached \/ loop.to_free >= BytesAskedFor
      BY <1>1, <2>3 DEF Returned
    <3>2. 2 * MemoryCached' <= call.cached + 1
      BY <1>4, <2>1, <3>1
    <3>3. MemoryCached' <= 0 \/ MemoryCached' + BytesAskedFor <= call.cached
      BY <1>4, <2>1, <3>1
    <3> QED BY <1>1, <1>7, <2>3, <3>2, <3>3 DEF Returned
  <2>4. CASE call.failed = 2
    <3>1. /\ 2 * MemoryCached <= call.cached + 1
          /\ MemoryCached <= 0 \/ MemoryCached + BytesAskedFor <= call.cached
          /\ 2 * loop.to_free >= MemoryCached - 1
          /\ loop.to_free >= MemoryCached \/ loop.to_free >= BytesAskedFor
      BY <1>1, <2>4 DEF Returned
    <3>2. 4 * MemoryCached' <= call.cached + 3
      BY <1>4, <2>1, <3>1
    <3>3. MemoryCached' <= 0 \/ MemoryCached' + 2 * BytesAskedFor <= call.cached
      BY <1>4, <2>1, <3>1
    <3> QED BY <1>1, <1>7, <2>4, <3>2, <3>3 DEF Returned
  <2> QED BY <2>1, <2>2, <2>3, <2>4
<1>13. Limits'
  BY <1>1, <1>2, <1>7, <1>10, <1>11 DEF Limits
<1> QED BY <1>2, <1>3, <1>6, <1>9, <1>12, <1>13

\* A block is still cached as long as not enough is freed.
LEMMA SomethingIsCached ==
  ASSUME IInv, pc = "freeing", loop.freed < loop.to_free
  PROVE  NonEmpty # {}
<1> SUFFICES ASSUME NonEmpty = {} PROVE FALSE
  OBVIOUS
<1> USE DEF IInv
<1>1. UsedBytes = Sum(device)
  BY NothingIsCached DEF Type
<1>2. /\ cur_bytes_used = UsedBytes /\ cur_bytes_allocated = Sum(device) + loop.freed
      /\ loop.to_free <= MemoryCached /\ MemoryCached = cur_bytes_allocated - cur_bytes_used
  BY DEF Books, ToCome, Limits, MemoryCached
<1>3. loop.freed \in Nat /\ loop.to_free \in Int /\ UsedBytes \in Nat
  BY UsedIsFinite DEF Type
<1> QED BY <1>1, <1>2, <1>3

\* An element of the worst cache goes back to CUDA.
LEMMA FreeOneStep ==
  ASSUME IInv, FreeOne
  PROVE  IInv'
<1> USE DEF IInv
<1> DEFINE c == WorstCache
           r == Head(list[c]).request
           p == map[r][1].pointer
<1>1. /\ pc = "freeing" /\ loop.freed < loop.to_free
      /\ RemoveLeastRecentlyUsed(c)
      /\ loop' = [loop EXCEPT !.freed = @ + Bytes(r), !.cache = c]
      /\ UNCHANGED <<used_map, memory_factor, cur_bytes_allocated, cur_bytes_used,
                     max_bytes_used, t, pc, call>>
  BY DEF FreeOne, books
<1>2. c \in NonEmpty
  BY <1>1, SomethingIsCached, WorstIsCache
<1>3. c \in Caches /\ list[c] # <<>> /\ Typed
  BY <1>2, NonEmptyAre DEF NonEmpty, Type
<1>4. /\ r \in Requests /\ 1 \in DOMAIN map[r]
      /\ Goes(r, 1, 1)
  BY <1>1, <1>3, OldestFirst, RemovalGoes
<1>5. device' = Restrict(device, DOMAIN device \ {p})
  BY <1>1 DEF RemoveLeastRecentlyUsed
<1>6. c \in Int
  BY <1>3, CachesAreNumbers
<1> HIDE DEF c, r
<1>7. p \in DOMAIN device \ DOMAIN used_map /\ device[p] = Bytes(r)
  BY <1>4 DEF Blocks
<1>8. /\ DOMAIN device' = DOMAIN device \ {p}
      /\ \A x \in DOMAIN device' : device'[x] = device[x]
  BY <1>5 DEF Restrict
<1>9. IsFiniteSet(DOMAIN device') /\ \A x \in DOMAIN device' : device'[x] \in Nat
  BY <1>8, FS_Subset DEF Type
<1>10. Sum(device) = Sum(device') + Bytes(r)
  <2>1. /\ p \notin DOMAIN device' /\ DOMAIN device = DOMAIN device' \cup {p}
        /\ device[p] \in Nat /\ \A x \in DOMAIN device' : device[x] = device'[x]
    BY <1>7, <1>8 DEF Type
  <2> QED BY <1>7, <1>9, <2>1, SumExtend
<1>11. Bytes(r) \in Nat /\ Sum(device') \in Nat
  BY <1>4, <1>9, BytesArePositive, SumType
<1>12. /\ loop' \in [to_free : Int, freed : Nat, cache : Int]
       /\ loop'.to_free = loop.to_free /\ loop'.freed = loop.freed + Bytes(r)
  <2>1. loop \in [to_free : Int, freed : Nat, cache : Int]
    BY DEF Type
  <2> DEFINE n == loop.freed + Bytes(r)
  <2>2. n \in Nat
    BY <1>11, <2>1
  <2>3. loop' = [loop EXCEPT !.freed = n, !.cache = c]
    BY <1>1
  <2> HIDE DEF n
  <2>4. loop' \in [to_free : Int, freed : Nat, cache : Int]
    BY <1>6, <2>1, <2>2, <2>3
  <2>5. loop'.to_free = loop.to_free /\ loop'.freed = n
    BY <2>1, <2>3
  <2> QED BY <2>4, <2>5 DEF n
<1>13. Typed'
  BY <1>3, <1>4, OthersStay
<1>14. Type'
  <2>1. DOMAIN used_map' \subseteq DOMAIN device' /\ DOMAIN device' \subseteq Nat
    BY <1>1, <1>7, <1>8 DEF Type
  <2> QED BY <1>1, <1>8, <1>9, <1>12, <1>13, <2>1 DEF Type
<1>15. Blocks'
  <2>1. DOMAIN device' \ DOMAIN used_map'
           = (DOMAIN device \ DOMAIN used_map) \ {map[r][1].pointer}
    BY <1>1, <1>8
  <2>2. \A x \in DOMAIN used_map' : device'[x] = Bytes(used_map'[x])
    BY <1>1, <1>7, <1>8 DEF Blocks, Type
  <2> QED BY <1>3, <1>4, <1>8, <2>1, <2>2, BlocksOfGoing
<1>16. InOrder' /\ Matched'
  BY <1>3, <1>4, OrderOfGoing, MatchOfGoing
<1>17. Timely'
  <2>1. t \in Nat /\ t' \in Nat /\ t <= t' /\ (pc' # "idle" => pc # "idle")
    BY <1>1 DEF Type
  <2> QED BY <1>3, <1>4, <2>1, TimesOfGoing
<1>18. Books'
  <2>1. UsedBytes' = UsedBytes /\ BytesAskedFor' = BytesAskedFor
    BY <1>1 DEF UsedBytes, BytesAskedFor
  <2>2. Sum(device)' = Sum(device') /\ ToCome' = loop.freed + Bytes(r) /\ ToCome = loop.freed
    BY <1>1, <1>12 DEF ToCome
  <2>3. Sum(device)' + ToCome' = Sum(device) + ToCome
    <3>1. loop.freed \in Nat
      BY DEF Type
    <3> QED BY <1>10, <1>11, <2>2, <3>1
  <2> QED BY <1>1, <2>1, <2>3 DEF Books
<1>19. Limits'
  <2>1. BytesAskedFor' = BytesAskedFor /\ Allocatable' = Allocatable /\ MemoryCached' = MemoryCached
    BY <1>1 DEF BytesAskedFor, Allocatable, MemoryCached
  <2> QED BY <1>1, <1>12, <2>1 DEF Limits
<1>20. Returned'
  <2>1. BytesAskedFor' = BytesAskedFor /\ MemoryCached' = MemoryCached
    BY <1>1 DEF BytesAskedFor, MemoryCached
  <2> QED BY <1>1, <1>12, <2>1 DEF Returned
<1> QED BY <1>14, <1>15, <1>16, <1>17, <1>18, <1>19, <1>20

\* Between two calls of FreeSomeCachedMemory(), what is asked for is within the limit.
LEMMA WithinLimit ==
  ASSUME IInv, pc = "allocate"
  PROVE  /\ 100 * (cur_bytes_allocated + BytesAskedFor) <= MemoryFactor * max_bytes_used
         /\ cur_bytes_allocated = Sum(device)
         /\ MemoryFactor * max_bytes_used \in Int
         /\ BytesAskedFor \in Nat
<1> USE DEF IInv
<1>1. cur_bytes_allocated \in Nat /\ BytesAskedFor \in Nat /\ call.failed \in 0..2
      /\ max_bytes_used \in Nat /\ memory_factor \in 100..MemoryFactor /\ Sum(device) \in Nat
  BY BytesArePositive, UsedIsFinite DEF Type, BytesAskedFor
<1>2. Allocatable \in Nat /\ 100 * Allocatable <= MemoryFactor * max_bytes_used
  BY <1>1, FactorBounds DEF Allocatable
<1>3. MemoryFactor * max_bytes_used \in Int
  BY <1>1, FactorOfMore
<1>4. cur_bytes_allocated = Sum(device)
  BY <1>1 DEF Books, ToCome
<1>5. CASE call.failed = 0
  <2>1. cur_bytes_allocated + BytesAskedFor <= Allocatable
    BY <1>5 DEF Limits
  <2> QED BY <1>1, <1>2, <1>3, <1>4, <2>1
<1>6. CASE call.failed > 0
  <2>1. 100 * (cur_bytes_allocated + BytesAskedFor) <= MemoryFactor * max_bytes_used
    BY <1>6 DEF Limits
  <2> QED BY <1>1, <1>3, <1>4, <2>1
<1> QED BY <1>1, <1>5, <1>6

\* cudaMalloc*() succeeds.
LEMMA SystemAllocatesStep ==
  ASSUME IInv, SystemAllocates
  PROVE  IInv'
<1> USE DEF IInv
<1> DEFINE r == call.request
           p == NewPointer
<1>1. /\ pc = "allocate" /\ pc' = "idle"
      /\ DeviceHas(Bytes(r))
      /\ device' = [x \in DOMAIN device \cup {p} |-> IF x = p THEN Bytes(r) ELSE device[x]]
      /\ cur_bytes_allocated' = cur_bytes_allocated + Bytes(r)
      /\ GiveToUser(r, p)
      /\ list' = list /\ map' = map
      /\ UNCHANGED <<memory_factor, max_bytes_used, t, call, loop>>
  BY DEF SystemAllocates, cached
<1>2. r \in Requests /\ Bytes(r) \in Nat /\ Bytes(r) = BytesAskedFor
  BY <1>1, BytesArePositive DEF Type, BytesAskedFor
<1>3. p \in Nat /\ p \notin DOMAIN device
  BY NewPointerIsNew DEF Type
<1> HIDE DEF p, r
<1>4. p \notin DOMAIN used_map
  BY <1>3 DEF Type
<1>5. /\ DOMAIN used_map' = DOMAIN used_map \cup {p} /\ used_map'[p] = r
      /\ \A x \in DOMAIN used_map : used_map'[x] = used_map[x]
      /\ \A x \in DOMAIN used_map' : used_map'[x] \in Requests
      /\ UsedBytes' = UsedBytes + Bytes(r)
      /\ cur_bytes_used' = cur_bytes_used + Bytes(r)
  BY <1>1, <1>2, <1>4, UserGets
<1>6. /\ DOMAIN device' = DOMAIN device \cup {p} /\ device'[p] = Bytes(r)
      /\ \A x \in DOMAIN device : device'[x] = device[x]
  BY <1>1, <1>3
<1>7. Sum(device') = Sum(device) + Bytes(r)
  <2>1. /\ IsFiniteSet(DOMAIN device) /\ \A x \in DOMAIN device : device[x] \in Nat
        /\ device'[p] \in Nat
    BY <1>2, <1>6 DEF Type
  <2>2. Sum(device') = Sum(device) + device'[p]
    BY <1>3, <1>6, <2>1, SumExtend, Zenon
  <2> QED BY <1>6, <2>2
<1>8. IsFiniteSet(DOMAIN device') /\ DOMAIN device' \subseteq Nat
  BY <1>3, <1>6, FS_AddElement DEF Type
<1>9. Type'
  <2>1. cur_bytes_allocated' \in Nat /\ cur_bytes_used' \in Nat
    BY <1>1, <1>2, <1>5 DEF Type
  <2>2. \A x \in DOMAIN device' : device'[x] \in Nat
    BY <1>2, <1>6 DEF Type
  <2>3. Typed'
    BY <1>1 DEF Type, Typed
  <2> QED BY <1>1, <1>5, <1>6, <1>8, <2>1, <2>2, <2>3 DEF Type
<1>10. Blocks'
  <2>1. DOMAIN device' \ DOMAIN used_map' = DOMAIN device \ DOMAIN used_map
    BY <1>3, <1>5, <1>6 DEF Type
  <2>2. \A x \in DOMAIN used_map' : device'[x] = Bytes(used_map'[x])
    <3> SUFFICES ASSUME NEW x \in DOMAIN used_map' PROVE device'[x] = Bytes(used_map'[x])
      OBVIOUS
    <3>1. CASE x = p
      BY <1>5, <1>6, <3>1
    <3>2. CASE x # p
      BY <1>5, <1>6, <3>2 DEF Blocks, Type
    <3> QED BY <3>1, <3>2
  <2>3. \A q \in Requests : \A i \in DOMAIN map[q] :
           /\ map[q][i].pointer \in DOMAIN device' \ DOMAIN used_map'
           /\ device'[map[q][i].pointer] = Bytes(q)
    BY <1>6, <2>1 DEF Blocks
  <2>4. \A x \in DOMAIN device' \ DOMAIN used_map' :
           \E q \in Requests : \E i \in DOMAIN map[q] : map[q][i].pointer = x
    BY <2>1 DEF Blocks
  <2>5. \A q, s \in Requests : \A i \in DOMAIN map[q], j \in DOMAIN map[s] :
           map[q][i].pointer = map[s][j].pointer => q = s /\ i = j
    BY DEF Blocks
  <2>6. map' = map
    BY <1>1
  <2>7. \A q \in Requests : \A i \in DOMAIN map'[q] :
           /\ map'[q][i].pointer \in DOMAIN device' \ DOMAIN used_map'
           /\ device'[map'[q][i].pointer] = Bytes(q)
    BY <2>3, <2>6
  <2>8. \A x \in DOMAIN device' \ DOMAIN used_map' :
           \E q \in Requests : \E i \in DOMAIN map'[q] : map'[q][i].pointer = x
    BY <2>4, <2>6
  <2>9. \A q, s \in Requests : \A i \in DOMAIN map'[q], j \in DOMAIN map'[s] :
           map'[q][i].pointer = map'[s][j].pointer => q = s /\ i = j
    BY <2>5, <2>6
  <2> QED BY <2>2, <2>7, <2>8, <2>9 DEF Blocks
<1>11. InOrder' /\ Matched'
  BY <1>1 DEF InOrder, Matched
<1>12. Timely'
  BY <1>1, TimesStay DEF Type
<1>13. /\ 100 * (cur_bytes_allocated + Bytes(r)) <= MemoryFactor * max_bytes_used
       /\ cur_bytes_allocated = Sum(device)
  BY <1>1, <1>2, WithinLimit
<1>14. Books'
  <2>1. cur_bytes_used + Bytes(r) <= max_bytes_used /\ cur_bytes_used = UsedBytes
    BY <1>1, <1>2 DEF Books
  <2>2. Sum(device) + Bytes(r) <= DeviceBytes
    BY <1>1 DEF DeviceHas
  <2>3. ToCome' = 0 /\ Sum(device)' = Sum(device')
    BY <1>1 DEF ToCome
  <2>4. cur_bytes_allocated' \in Nat
    BY <1>9 DEF Type
  <2> QED BY <1>1, <1>5, <1>7, <1>13, <2>1, <2>2, <2>3, <2>4 DEF Books
<1>15. Limits' /\ Returned'
  BY <1>1 DEF Limits, Returned
<1> QED BY <1>9, <1>10, <1>11, <1>12, <1>14, <1>15

\* cudaMalloc*() fails once or twice: what is freed then is half of what is cached,
\* and all of it or as much as was asked for.
LEMMA SystemFailsStep ==
  ASSUME IInv, SystemFails
  PROVE  IInv'
<1> USE DEF IInv
<1> DEFINE asked == Min({MemoryCached, BytesAskedFor})
           half == MemoryCached \div 2
           bytes == Max({half, asked})
<1>1. /\ pc = "allocate" /\ pc' = "freeing" /\ call.failed < 2
      /\ Failed
      /\ memory_factor' = Min({memory_factor, 110})
      /\ StartFreeing(bytes)
      /\ UNCHANGED <<cached, used_map, cur_bytes_allocated, cur_bytes_used, max_bytes_used,
                     t, device>>
  BY DEF SystemFails, BytesAskedFor
<1>2. /\ Typed' /\ Blocks' /\ InOrder' /\ Matched'
      /\ UsedBytes' = UsedBytes /\ Sum(device)' = Sum(device)
      /\ list' = list /\ map' = map /\ used_map' = used_map /\ device' = device
  BY <1>1, SameBlocks DEF Type
<1>3. Timely'
  BY <1>1, <1>2, TimesStay DEF Type
<1>4. /\ 100 * (cur_bytes_allocated + BytesAskedFor) <= MemoryFactor * max_bytes_used
      /\ cur_bytes_allocated = Sum(device)
      /\ BytesAskedFor \in Nat
  BY <1>1, WithinLimit
<1>5. MemoryCached \in Int /\ MemoryCached' = MemoryCached /\ half \in Int
  <2>1. MemoryCached \in Int
    BY DEF MemoryCached, Type
  <2>2. MemoryCached' = MemoryCached
    BY <1>1 DEF MemoryCached
  <2> QED BY <2>1, <2>2
<1>5a. 2 * half >= MemoryCached - 1
  BY <1>5
<1> HIDE DEF half
<1>6. asked \in {MemoryCached, BytesAskedFor}
  <2>1. MemoryCached \in Int /\ BytesAskedFor \in Int
    BY <1>4, <1>5
  <2> QED BY <2>1, MinOfTwo, Zenon
<1>7. asked \in Int
  BY <1>4, <1>5, <1>6
<1> HIDE DEF asked
<1>8. bytes \in Int /\ asked <= bytes /\ half <= bytes
  BY <1>5, <1>7, MaxOfTwo
<1> HIDE DEF bytes
<1>9. max_bytes_used' \in Nat
  BY <1>1 DEF Type
<1>10. /\ loop' \in [to_free : Int, freed : Nat, cache : Int]
       /\ loop'.freed = 0
       /\ loop'.to_free <= MemoryCached
       /\ loop'.to_free = MemoryCached \/ bytes <= loop'.to_free
  BY <1>1, <1>5, <1>8, <1>9, FreeingStarts
<1>11. loop'.to_free >= MemoryCached \/ loop'.to_free >= BytesAskedFor
  <2>1. loop'.to_free \in Int
    BY <1>10
  <2> QED BY <1>4, <1>5, <1>6, <1>7, <1>8, <1>10, <2>1
<1>11a. 2 * loop'.to_free >= MemoryCached - 1
  <2>1. loop'.to_free \in Int
    BY <1>10
  <2>2. MemoryCached >= 0
    BY <1>4, UsedIsPart DEF MemoryCached, Books, Type
  <2> QED BY <1>5, <1>5a, <1>8, <1>10, <2>1, <2>2
<1>12. /\ call'.failed = call.failed + 1 /\ call'.request = call.request
       /\ call' = [request |-> call'.request, failed |-> call'.failed,
                   cached |-> call'.cached]
       /\ call.failed \in 0..2 /\ call.cached \in Int
       /\ call'.cached = IF call.failed = 0 THEN MemoryCached ELSE call.cached
  <2>1. /\ call = [request |-> call.request, failed |-> call.failed,
                   cached |-> call.cached]
        /\ call.failed \in 0..2 /\ call.cached \in Int
    BY DEF Type
  <2> DEFINE c == IF call.failed = 0 THEN MemoryCached ELSE call.cached
  <2>2. call' = [request |-> call.request, failed |-> call.failed + 1, cached |-> c]
    BY <1>1, <2>1 DEF Failed
  <2> QED BY <2>1, <2>2
<1>13. memory_factor' \in 100..MemoryFactor
  <2>1. memory_factor \in 100..MemoryFactor /\ MemoryFactor \in Nat
    BY AllocatorAssumption DEF Type
  <2>2. /\ Min({memory_factor, 110}) \in {memory_factor, 110}
        /\ Min({memory_factor, 110}) <= memory_factor
    BY <2>1, MinOfTwo
  <2> QED BY <1>1, <2>1, <2>2
<1>14. Type'
  <2>1. call'.failed \in 0..2 /\ call'.cached \in Int
    BY <1>1, <1>5, <1>12
  <2>2. call'.request \in Requests
    BY <1>1, <1>12 DEF Type
  <2> QED BY <1>1, <1>2, <1>10, <1>12, <1>13, <2>1, <2>2 DEF Type
<1>15. BytesAskedFor' = BytesAskedFor
  BY <1>12 DEF BytesAskedFor
<1>16. Books'
  <2>1. ToCome' = 0 /\ ToCome = 0
    BY <1>1, <1>10 DEF ToCome
  <2> QED BY <1>1, <1>2, <1>15, <2>1 DEF Books
<1>17. Limits'
  <2>1. call'.failed > 0 /\ ~(call'.failed = 0)
    BY <1>12
  <2> QED BY <1>1, <1>4, <1>5, <1>10, <1>15, <2>1 DEF Limits
<1>18. Returned'
  <2>1. CASE call.failed = 0
    BY <1>1, <1>5, <1>11, <1>11a, <1>12, <1>15, <2>1 DEF Returned
  <2>2. CASE call.failed = 1
    <3>1. /\ 2 * MemoryCached <= call.cached + 1
          /\ MemoryCached <= 0 \/ MemoryCached + BytesAskedFor <= call.cached
      BY <1>1, <2>2 DEF Returned
    <3>2. pc' = "freeing" /\ call'.failed = 2 /\ call'.cached = call.cached
      BY <1>1, <1>12, <2>2
    <3>3. /\ 2 * MemoryCached' <= call'.cached + 1
          /\ MemoryCached' <= 0 \/ MemoryCached' + BytesAskedFor' <= call'.cached
      BY <1>5, <1>15, <3>1, <3>2
    <3>4. /\ 2 * loop'.to_free >= MemoryCached' - 1
          /\ loop'.to_free >= MemoryCached' \/ loop'.to_free >= BytesAskedFor'
      BY <1>5, <1>11, <1>11a, <1>15
    <3> QED BY <3>2, <3>3, <3>4 DEF Returned
  <2> QED BY <1>1, <1>12, <2>1, <2>2
<1> QED BY <1>2, <1>3, <1>14, <1>16, <1>17, <1>18

\* cudaMalloc*() fails for the third time.
LEMMA MallocThrowsStep ==
  ASSUME IInv, MallocThrows
  PROVE  IInv'
<1> USE DEF IInv
<1>1. /\ pc = "allocate" /\ pc' = "idle"
      /\ UNCHANGED <<cached, used_map, memory_factor, cur_bytes_allocated, cur_bytes_used,
                     max_bytes_used, t, call, loop, device>>
  BY DEF MallocThrows, books
<1>2. /\ Typed' /\ Blocks' /\ InOrder' /\ Matched'
      /\ UsedBytes' = UsedBytes /\ Sum(device)' = Sum(device)
      /\ list' = list /\ map' = map /\ used_map' = used_map /\ device' = device
  BY <1>1, SameBlocks DEF Type
<1>3. Timely'
  BY <1>1, <1>2, TimesStay DEF Type
<1>4. Type'
  BY <1>1, <1>2 DEF Type
<1>5. Books'
  BY <1>1, <1>2 DEF Books, ToCome
<1>6. Limits' /\ Returned'
  BY <1>1 DEF Limits, Returned
<1> QED BY <1>2, <1>3, <1>4, <1>5, <1>6

\* Free() of a pointer that was not allocated: only t grows.
LEMMA FreeUnknownStep ==
  ASSUME IInv, FreeUnknown
  PROVE  IInv'
<1> USE DEF IInv
<1>1. /\ pc = "idle" /\ t' = t + 1
      /\ UNCHANGED <<cached, used_map, memory_factor, cur_bytes_allocated, cur_bytes_used,
                     max_bytes_used, pc, call, loop, device>>
  BY DEF FreeUnknown, books
<1>2. /\ Typed' /\ Blocks' /\ InOrder' /\ Matched'
      /\ UsedBytes' = UsedBytes /\ Sum(device)' = Sum(device)
      /\ list' = list /\ map' = map /\ used_map' = used_map /\ device' = device
  BY <1>1, SameBlocks DEF Type
<1>3. Timely'
  <2>1. t \in Nat /\ t' \in Nat /\ t < t'
    BY <1>1 DEF Type
  <2> QED BY <1>1, <1>2, <2>1, TimesStay DEF Type
<1>4. Type'
  BY <1>1, <1>2 DEF Type
<1>5. Books'
  BY <1>1, <1>2 DEF Books, ToCome
<1>6. Limits' /\ Returned'
  BY <1>1 DEF Limits, Returned
<1> QED BY <1>2, <1>3, <1>4, <1>5, <1>6

\* Free() moves a block from the user to the cache of its request.
LEMMA FreeStep ==
  ASSUME IInv, NEW p \in DOMAIN used_map, Free(p)
  PROVE  IInv'
<1> USE DEF IInv
<1> DEFINE r == used_map[p]
<1>1. /\ pc = "idle" /\ t' = t + 1
      /\ cur_bytes_used' = cur_bytes_used - Bytes(r)
      /\ Insert(r, p, t')
      /\ used_map' = Restrict(used_map, DOMAIN used_map \ {p})
      /\ UNCHANGED <<memory_factor, cur_bytes_allocated, max_bytes_used, pc, call,
                     loop, device>>
  BY DEF Free
<1>2. /\ r \in Requests /\ Bytes(r) \in Nat /\ p \in Nat /\ p \in DOMAIN device
      /\ t \in Nat \ {0} /\ t' \in Nat \ {0} /\ t < t'
      /\ DOMAIN used_map \subseteq DOMAIN device /\ Typed
  BY <1>1, BytesArePositive DEF Type
<1>3. /\ DOMAIN used_map' = DOMAIN used_map \ {p}
      /\ \A x \in DOMAIN used_map' : used_map'[x] = used_map[x]
  BY <1>1 DEF Restrict
<1>4. Typed' /\ InOrder'
  <2>1. t \in Nat /\ t' \in Nat
    BY <1>2
  <2> QED BY <1>1, <1>2, <2>1, OrderOfInsert
<1>5. Matched'
  BY <1>1, <1>2, MatchOfInsert
<1>6. Blocks'
  BY <1>1, <1>2, <1>3, BlocksOfInsert
<1>7. Timely'
  <2> DEFINE new == Len(map[r]) + 1
  <2>1. /\ \A q \in Requests : \A k \in DOMAIN map'[q] :
              \/ q = r /\ k = new
              \/ k \in DOMAIN map[q] /\ map'[q][k] = map[q][k]
        /\ map'[r][new] = [pointer |-> p, t |-> t']
    BY <1>1, <1>2, EntriesOfInsert
  <2> HIDE DEF new
  <2> SUFFICES ASSUME NEW q \in Requests, NEW k \in DOMAIN map'[q]
               PROVE  map'[q][k].t > 0 /\ map'[q][k].t <= t'
    BY <1>1 DEF Timely
  <2>2. CASE q = r /\ k = new
    BY <1>2, <2>1, <2>2
  <2>3. CASE k \in DOMAIN map[q] /\ map'[q][k] = map[q][k]
    <3>1. map[q][k].t \in Nat
      BY <1>2, <2>3, Domains DEF Entry
    <3>2. map[q][k].t > 0 /\ map[q][k].t <= t
      BY <2>3 DEF Timely
    <3> QED BY <1>2, <2>3, <3>1, <3>2
  <2> QED BY <2>1, <2>2, <2>3
<1>8. UsedBytes = UsedBytes' + Bytes(r) /\ UsedBytes' \in Nat
  <2> DEFINE f == [x \in DOMAIN used_map' |-> Bytes(used_map'[x])]
             g == [x \in DOMAIN used_map |-> Bytes(used_map[x])]
  <2>1. IsFiniteSet(DOMAIN f) /\ \A x \in DOMAIN f : f[x] \in Nat
    <3>1. IsFiniteSet(DOMAIN f)
      BY <1>3, UsedIsFinite, FS_Subset
    <3>2. \A x \in DOMAIN f : f[x] \in Nat
      BY <1>3, UsedIsFinite
    <3> QED BY <3>1, <3>2
  <2>2. /\ p \notin DOMAIN f /\ DOMAIN g = DOMAIN f \cup {p} /\ g[p] = Bytes(r) /\ g[p] \in Nat
        /\ \A x \in DOMAIN f : g[x] = f[x]
    BY <1>2, <1>3
  <2>3. UsedBytes' = Sum(f) /\ UsedBytes = Sum(g)
    BY DEF UsedBytes
  <2> HIDE DEF f, g
  <2> QED BY <2>1, <2>2, <2>3, SumExtend, SumType
<1> HIDE DEF r
<1>9. cur_bytes_used = UsedBytes /\ cur_bytes_used' = UsedBytes' /\ cur_bytes_used' <= cur_bytes_used
  BY <1>1, <1>2, <1>8 DEF Books
<1>10. Type'
  <2>1. cur_bytes_used' \in Nat
    BY <1>8, <1>9
  <2> QED BY <1>1, <1>2, <1>3, <1>4, <2>1 DEF Type
<1>11. Books'
  <2>1. Sum(device)' = Sum(device) /\ ToCome' = ToCome
    BY <1>1 DEF ToCome
  <2>2. cur_bytes_used' <= max_bytes_used'
    BY <1>1, <1>2, <1>8, <1>9 DEF Books, Type
  <2> QED BY <1>1, <1>9, <2>1, <2>2 DEF Books
<1>12. Limits' /\ Returned'
  BY <1>1 DEF Limits, Returned
<1> QED BY <1>4, <1>5, <1>6, <1>7, <1>10, <1>11, <1>12

\* Nothing happens.
LEMMA StutterStep ==
  ASSUME IInv, UNCHANGED vars
  PROVE  IInv'
<1>1. /\ UNCHANGED <<list, map, used_map, memory_factor, cur_bytes_allocated, cur_bytes_used,
                     max_bytes_used, t, pc, call, loop, device>>
      /\ UNCHANGED <<cached, used_map, device>>
  BY DEF vars, cached, books
<1> USE DEF IInv
<1>2. /\ Typed' /\ Blocks' /\ InOrder' /\ Matched'
      /\ UsedBytes' = UsedBytes /\ Sum(device)' = Sum(device)
  BY <1>1, SameBlocks DEF Type
<1>3. Type' /\ Timely'
  BY <1>1, <1>2 DEF Type, Timely
<1>4. Books' /\ Limits' /\ Returned'
  BY <1>1, <1>2 DEF Books, Limits, Returned, ToCome, BytesAskedFor, Allocatable, MemoryCached
<1> QED BY <1>2, <1>3, <1>4

\* The invariant holds throughout.
LEMMA InvariantIsInductive == Spec => []IInv
<1>1. IInv /\ [Next]_vars => IInv'
  <2> SUFFICES ASSUME IInv, [Next]_vars PROVE IInv'
    OBVIOUS
  <2>1. ASSUME NEW r \in Requests, MallocCached(r) PROVE IInv'
    BY <2>1, MallocCachedStep
  <2>2. ASSUME NEW r \in Requests, MallocNew(r) PROVE IInv'
    BY <2>2, MallocNewStep
  <2>3. ASSUME NEW p \in DOMAIN used_map, Free(p) PROVE IInv'
    BY <2>3, FreeStep
  <2>4. CASE FreeOne
    BY <2>4, FreeOneStep
  <2>5. CASE FreedEnough
    BY <2>5, FreedEnoughStep
  <2>6. CASE SystemAllocates
    BY <2>6, SystemAllocatesStep
  <2>7. CASE SystemFails
    BY <2>7, SystemFailsStep
  <2>8. CASE MallocThrows
    BY <2>8, MallocThrowsStep
  <2>9. CASE FreeUnknown
    BY <2>9, FreeUnknownStep
  <2>10. CASE UNCHANGED vars
    BY <2>10, StutterStep
  <2> QED BY <2>1, <2>2, <2>3, <2>4, <2>5, <2>6, <2>7, <2>8, <2>9, <2>10 DEF Next, Finished
<1> QED BY InitIInv, <1>1, PTL DEF Spec

-----------------------------------------------------------------------------
(* What the invariant says of the allocator. *)

\* It implies the invariants that the run checks.
LEMMA BlocksAreOnce == ASSUME IInv PROVE EveryBlockOnce
<1> USE DEF IInv
<1> DEFINE Entries(p) ==
             UNION {{<<r, i>> : i \in {j \in DOMAIN map[r] : map[r][j].pointer = p}} :
                    r \in Requests}
<1>1. ASSUME NEW p, NEW e
      PROVE  e \in Entries(p) <=>
                \E r \in Requests : \E i \in DOMAIN map[r] :
                   map[r][i].pointer = p /\ e = <<r, i>>
  OBVIOUS
<1> HIDE DEF Entries
<1>2. DOMAIN used_map \cup UNION {{e.pointer : e \in ToSet(map[r])} : r \in Requests}
         = DOMAIN device
  <2>1. ASSUME NEW p \in UNION {{e.pointer : e \in ToSet(map[r])} : r \in Requests}
        PROVE  p \in DOMAIN device
    <3>1. PICK r \in Requests : \E e \in ToSet(map[r]) : p = e.pointer
      BY <2>1
    <3>2. PICK i \in DOMAIN map[r] : p = map[r][i].pointer
      BY <3>1 DEF ToSet
    <3> QED BY <3>2 DEF Blocks
  <2>2. ASSUME NEW p \in DOMAIN device, p \notin DOMAIN used_map
        PROVE  p \in UNION {{e.pointer : e \in ToSet(map[r])} : r \in Requests}
    <3>1. PICK r \in Requests : \E i \in DOMAIN map[r] : map[r][i].pointer = p
      BY <2>2 DEF Blocks
    <3>2. PICK i \in DOMAIN map[r] : map[r][i].pointer = p
      BY <3>1
    <3>3. map[r][i] \in ToSet(map[r])
      BY DEF ToSet
    <3> QED BY <3>2, <3>3
  <2>3. DOMAIN used_map \subseteq DOMAIN device
    BY DEF Type
  <2> QED BY <2>1, <2>2, <2>3
<1>3. ASSUME NEW p \in DOMAIN device
      PROVE  IF p \in DOMAIN used_map
             THEN Entries(p) = {} /\ device[p] = Bytes(used_map[p])
             ELSE \E e \in Entries(p) : Entries(p) = {e} /\ device[p] = Bytes(e[1])
  <2>1. CASE p \in DOMAIN used_map
    <3>1. ASSUME NEW e \in Entries(p) PROVE FALSE
      BY <1>1, <2>1 DEF Blocks
    <3>2. device[p] = Bytes(used_map[p])
      BY <2>1 DEF Blocks
    <3> QED BY <2>1, <3>1, <3>2
  <2>2. CASE p \notin DOMAIN used_map
    <3>1. PICK r \in Requests : \E i \in DOMAIN map[r] : map[r][i].pointer = p
      BY <2>2 DEF Blocks
    <3>2. PICK i \in DOMAIN map[r] : map[r][i].pointer = p
      BY <3>1
    <3> DEFINE e == <<r, i>>
    <3>3. e \in Entries(p) /\ e[1] = r
      BY <1>1, <3>2
    <3>4. ASSUME NEW d \in Entries(p) PROVE d = e
      <4>1. PICK q \in Requests : \E j \in DOMAIN map[q] : map[q][j].pointer = p /\ d = <<q, j>>
        BY <1>1
      <4>2. PICK j \in DOMAIN map[q] : map[q][j].pointer = p /\ d = <<q, j>>
        BY <4>1
      <4>3. q = r /\ j = i
        BY <3>2, <4>2 DEF Blocks
      <4> QED BY <4>2, <4>3
    <3>5. device[p] = Bytes(r)
      BY <3>2 DEF Blocks
    <3> HIDE DEF e
    <3>6. Entries(p) = {e}
      BY <3>3, <3>4
    <3> QED BY <2>2, <3>3, <3>5, <3>6
  <2> QED BY <2>1, <2>2
<1> QED BY <1>2, <1>3 DEF EveryBlockOnce, Entries

\* The second one: the times in both structures are the same.
LEMMA ListAndMapAgree == ASSUME IInv PROVE CachesAgree
<1> USE DEF IInv
<1>1. Typed
  BY DEF Type
<1>2. ASSUME NEW r \in Requests
      PROVE  {n.t : n \in {m \in ToSet(list[CacheOf(r)]) : m.request = r}}
                = {e.t : e \in ToSet(map[r])}
  <2> DEFINE c == CacheOf(r)
  <2>1. c \in Caches
    BY CachesAreNumbers
  <2>2. ASSUME NEW x \in {n.t : n \in {m \in ToSet(list[c]) : m.request = r}}
        PROVE  x \in {e.t : e \in ToSet(map[r])}
    <3>1. PICK i \in DOMAIN list[c] : list[c][i].request = r /\ x = list[c][i].t
      BY DEF ToSet
    <3>2. PICK j \in DOMAIN map[r] : map[r][j].t = x
      BY <2>1, <3>1 DEF Matched
    <3>3. map[r][j] \in ToSet(map[r])
      BY DEF ToSet
    <3> QED BY <3>2, <3>3
  <2>3. ASSUME NEW x \in {e.t : e \in ToSet(map[r])}
        PROVE  x \in {n.t : n \in {m \in ToSet(list[c]) : m.request = r}}
    <3>1. PICK j \in DOMAIN map[r] : map[r][j].t = x
      BY DEF ToSet
    <3>2. PICK i \in DOMAIN list[c] : list[c][i] = [request |-> r, t |-> x]
      BY <3>1 DEF Matched
    <3>3. list[c][i] \in ToSet(list[c]) /\ list[c][i].request = r /\ list[c][i].t = x
      BY <3>2 DEF ToSet
    <3> QED BY <3>3
  <2> QED BY <2>2, <2>3
<1>3. ASSUME NEW c \in Caches, list[c] # <<>>
      PROVE  /\ LeastRecentTime(c) = Head(list[c]).t
             /\ pc = "freeing" => t > LeastRecentTime(c)
  <2> DEFINE r == Head(list[c]).request
  <2>1. /\ r \in Requests /\ 1 \in DOMAIN map[r]
        /\ Head(list[c]) = list[c][1] /\ list[c][1] = [request |-> r, t |-> map[r][1].t]
        /\ LeastRecentTime(c) = map[r][1].t
    BY <1>1, <1>3, OldestFirst
  <2> HIDE DEF r
  <2>2. LeastRecentTime(c) = Head(list[c]).t
    BY <2>1
  <2>3. map[r][1].t \in Nat /\ t \in Nat
    BY <1>1, <2>1, Domains DEF Entry, Type
  <2>4. pc = "freeing" => map[r][1].t < t
    BY <2>1 DEF Timely
  <2> QED BY <2>1, <2>2, <2>3, <2>4
<1>4. ASSUME pc = "freeing", NEW c \in NonEmpty PROVE t > LeastRecentTime(c)
  <2>1. c \in Caches /\ list[c] # <<>>
    BY <1>1, NonEmptyAre DEF NonEmpty
  <2> QED BY <1>3, <1>4, <2>1
<1>5. pc = "freeing" /\ loop.freed < loop.to_free => NonEmpty # {}
  BY SomethingIsCached
<1> QED BY <1>2, <1>3, <1>4, <1>5 DEF CachesAgree, InOrder

\* The third one.
LEMMA BooksAreRight == ASSUME IInv PROVE BooksBalance
<1> USE DEF IInv
<1>1. /\ cur_bytes_used = Sum([p \in DOMAIN used_map |-> Bytes(used_map[p])])
      /\ cur_bytes_allocated = Sum(device) + (IF pc = "freeing" THEN loop.freed ELSE 0)
      /\ cur_bytes_used <= max_bytes_used
      /\ 100 * cur_bytes_allocated <= MemoryFactor * max_bytes_used
  BY DEF Books, UsedBytes, ToCome
<1>2. pc = "allocate" /\ call.failed = 0 =>
         cur_bytes_allocated + Bytes(call.request) <= Allocatable
  BY DEF Limits, BytesAskedFor
<1>3. ASSUME pc = "freeing", call.failed = 0
      PROVE  cur_bytes_allocated + Bytes(call.request) - Allocatable <= MemoryCached
  <2>1. /\ loop.to_free <= MemoryCached
        /\ loop.to_free >= cur_bytes_allocated + Bytes(call.request) - Allocatable
    BY <1>3 DEF Limits, BytesAskedFor
  <2>2. cur_bytes_allocated \in Nat /\ cur_bytes_used \in Nat /\ loop.to_free \in Int
        /\ Bytes(call.request) \in Nat /\ Allocatable \in Nat
    BY <1>3, BytesArePositive, FactorBounds DEF Type, Allocatable
  <2>3. MemoryCached \in Int
    BY <2>2 DEF MemoryCached
  <2> QED BY <2>1, <2>2, <2>3
<1> QED BY <1>1, <1>2, <1>3 DEF BooksBalance

(***************************************************************************)
(* Every block that CUDA has allocated is with the user or once in the     *)
(* cache of its request: MallocPitch(), Free() and FreeSomeCachedMemory()  *)
(* leak none and give none away twice, whatever the sizes and the order of *)
(* the calls.                                                              *)
(***************************************************************************)
THEOREM EveryBlockIsOnce == Spec => []EveryBlockOnce
<1>1. IInv => EveryBlockOnce
  BY BlocksAreOnce
<1> QED BY <1>1, InvariantIsInductive, PTL

(***************************************************************************)
(* list_ and map_ of a MruCache hold the same elements, the least recently *)
(* used one first: LeastRecentTime() is that of the element that           *)
(* RemoveLeastRecentlyUsed() takes out, and the assertions of              *)
(* FreeSomeCachedMemory() hold (there is a cache in the queue as long as   *)
(* not enough is freed, and nothing in it is from the future).             *)
(***************************************************************************)
THEOREM CachesDoAgree == Spec => []CachesAgree
<1>1. IInv => CachesAgree
  BY ListAndMapAgree
<1> QED BY <1>1, InvariantIsInductive, PTL

(***************************************************************************)
(* The byte counts are those of the blocks, and the limits that            *)
(* MallocPitch() asserts hold, before and after it frees.                  *)
(***************************************************************************)
THEOREM BooksDoBalance == Spec => []BooksBalance
<1>1. IInv => BooksBalance
  BY BooksAreRight
<1> QED BY <1>1, InvariantIsInductive, PTL

\* Before the last attempt of MallocPitchInternal(), all of the cache was given
\* back to CUDA or twice the bytes of the request, and at most a quarter is left.
THEOREM CacheIsGivenBack == Spec => []CacheGivenBack
<1>1. IInv => CacheGivenBack
  <2> SUFFICES ASSUME IInv, pc = "allocate", call.failed = 2 PROVE CacheGivenBack
    BY DEF CacheGivenBack
  <2>1. /\ 4 * MemoryCached <= call.cached + 3
        /\ MemoryCached <= 0 \/ MemoryCached + 2 * BytesAskedFor <= call.cached
    BY DEF IInv, Returned
  <2>2. MemoryCached = Sum(device) - cur_bytes_used
    BY WithinLimit DEF MemoryCached
  <2>3. MemoryCached \in Int /\ MemoryCached >= 0
    BY <2>2, UsedIsPart, UsedIsFinite DEF IInv, Books, Type
  <2> QED BY <2>1, <2>2, <2>3 DEF CacheGivenBack, BytesAskedFor
<1> QED BY <1>1, InvariantIsInductive, PTL
=============================================================================
