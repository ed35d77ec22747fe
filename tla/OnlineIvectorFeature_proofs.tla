-------------------- MODULE OnlineIvectorFeature_proofs --------------------
(***************************************************************************)
(* Proofs about the silence-weighted statistics, for any frames, paths and *)
(* weights: TokensOfBestPath, ChangesAddUp, WeightsAreMeant and            *)
(* AssertionsHold.  In this order:                                         *)
(*   - the sum behind ChangesAddUp, as a difference of cardinalities;      *)
(*   - GetDeltaWeights(): its pass over the frames gives the meant weights *)
(*   - the queue of changes: what is added and what is popped              *)
(*   - ComputeCurrentTraceback() and the frames it leaves                  *)
(*   - the invariant Inv of both programs and, for the assertion on the    *)
(*     weights, InRange of the single-threaded one                         *)
(***************************************************************************)
EXTENDS OnlineIvectorFeature, FiniteSetTheorems, WellFoundedInduction, TLAPS

-----------------------------------------------------------------------------
(***************************************************************************)
(* Sums of integers.  The provers cannot do induction on the fold behind   *)
(* SumFunction, so that it is shown to be the difference of two counts: of *)
(* the units of the positive summands and of those of the negative ones.   *)
(***************************************************************************)
Units(f, s) == UNION {{x} \X (1..f[x]) : x \in s}
Negated(f) == [x \in DOMAIN f |-> -f[x]]
Balance(f, s) == Cardinality(Units(f, s)) - Cardinality(Units(Negated(f), s))

\* A positive summand has as many units as it says, any other none.
LEMMA Column ==
  ASSUME NEW x, NEW n \in Int
  PROVE  /\ IsFiniteSet({x} \X (1..n))
         /\ Cardinality({x} \X (1..n)) = IF n > 0 THEN n ELSE 0
<1> DEFINE A == {x}
           B == 1..n
<1>1. IsFiniteSet(A) /\ Cardinality(A) = 1
  BY FS_Singleton
<1>2. IsFiniteSet(B)
  BY FS_Interval
<1>3. Cardinality(B) = IF n > 0 THEN n ELSE 0
  BY FS_Interval
<1> HIDE DEF A, B
<1>4. IsFiniteSet(A \X B) /\ Cardinality(A \X B) = Cardinality(A) * Cardinality(B)
  BY <1>1, <1>2, FS_Product
<1>5. Cardinality(A \X B) = IF n > 0 THEN n ELSE 0
  BY <1>1, <1>3, <1>4
<1> QED BY <1>4, <1>5 DEF A, B

\* Finitely many summands have finitely many units.
LEMMA UnitsFinite ==
  ASSUME NEW f, NEW S, IsFiniteSet(S), \A x \in S : f[x] \in Int
  PROVE  IsFiniteSet(Units(f, S)) /\ Cardinality(Units(f, S)) \in Nat
<1>1. IsFiniteSet({{x} \X (1..f[x]) : x \in S})
  <2> DEFINE g == [x \in S |-> {x} \X (1..f[x])]
             T == {{x} \X (1..f[x]) : x \in S}
  <2>1. g \in Surjection(S, T)
    BY DEF Surjection
  <2> QED BY <2>1, FS_Surjection
<1>2. ASSUME NEW x \in S PROVE IsFiniteSet({x} \X (1..f[x]))
  BY <1>2, Column
<1> QED BY <1>1, <1>2, FS_UNION, FS_CardinalityType DEF Units

\* One summand more adds its units.
LEMMA UnitsStep ==
  ASSUME NEW f, NEW S, IsFiniteSet(S), NEW x, x \notin S, \A y \in S \cup {x} : f[y] \in Int
  PROVE  Cardinality(Units(f, S \cup {x}))
            = Cardinality(Units(f, S)) + (IF f[x] > 0 THEN f[x] ELSE 0)
<1> DEFINE A == Units(f, S)
           B == {x} \X (1..f[x])
<1>1. IsFiniteSet(B) /\ Cardinality(B) = IF f[x] > 0 THEN f[x] ELSE 0
  BY Column
<1>2. IsFiniteSet(A) /\ Cardinality(A) \in Nat
  BY UnitsFinite
<1>3. Units(f, S \cup {x}) = A \cup B /\ A \cap B = {}
  BY DEF Units
<1> HIDE DEF A, B
<1>4. Cardinality(A \cup B) = Cardinality(A) + Cardinality(B) - Cardinality(A \cap B)
  BY <1>1, <1>2, FS_Union
<1>5. Cardinality(A \cap B) = 0
  BY <1>3, FS_EmptySet
<1>6. Cardinality(B) \in Nat
  BY <1>1, FS_CardinalityType
<1>7. Cardinality(A \cup B) = Cardinality(A) + Cardinality(B)
  BY <1>2, <1>4, <1>5, <1>6
<1>8. Cardinality(Units(f, S \cup {x})) = Cardinality(A) + Cardinality(B)
  BY <1>3, <1>7
<1> QED BY <1>1, <1>8 DEF A

\* One summand more is added to the balance.
LEMMA BalanceStep ==
  ASSUME NEW f, IsFiniteSet(DOMAIN f), \A y \in DOMAIN f : f[y] \in Int,
         NEW S \in SUBSET DOMAIN f, NEW x \in DOMAIN f, x \notin S
  PROVE  Balance(f, S \cup {x}) = f[x] + Balance(f, S) /\ Balance(f, S) \in Int
<1>1. IsFiniteSet(S)
  BY FS_Subset
<1> DEFINE g == Negated(f)
<1>2. \A y \in S \cup {x} : f[y] \in Int /\ g[y] \in Int /\ g[y] = -f[y]
  BY DEF Negated
<1> HIDE DEF g
<1>3. Cardinality(Units(f, S \cup {x})) = Cardinality(Units(f, S)) + (IF f[x] > 0 THEN f[x] ELSE 0)
  BY <1>1, <1>2, UnitsStep
<1>4. Cardinality(Units(g, S \cup {x})) = Cardinality(Units(g, S)) + (IF g[x] > 0 THEN g[x] ELSE 0)
  BY <1>1, <1>2, UnitsStep
<1>5. Cardinality(Units(f, S)) \in Nat /\ Cardinality(Units(g, S)) \in Nat
  BY <1>1, <1>2, UnitsFinite
<1>6. f[x] \in Int /\ g[x] = -f[x]
  BY <1>2
<1> QED BY <1>3, <1>4, <1>5, <1>6 DEF Balance, g

\* Nothing is balanced.
LEMMA BalanceOfNone == ASSUME NEW f PROVE Balance(f, {}) = 0
<1>1. Units(f, {}) = {} /\ Units(Negated(f), {}) = {}
  BY DEF Units
<1> QED BY <1>1, FS_EmptySet DEF Balance

\* The sum is the balance: the recursion behind the one and the other agree on
\* every set of summands, as there is no least one on which they differ.
LEMMA SumIsBalance ==
  ASSUME NEW f, IsFiniteSet(DOMAIN f), \A x \in DOMAIN f : f[x] \in Int
  PROVE  SumFunction(f) = Balance(f, DOMAIN f)
<1> DEFINE Eq(g) == g = [s \in SUBSET DOMAIN f |->
                           IF s = {} THEN 0
                           ELSE LET x == CHOOSE x \in s : TRUE IN f[x] + g[s \ {x}]]
           h == [s \in SUBSET DOMAIN f |-> Balance(f, s)]
<1>1. SumFunction(f) = (CHOOSE g : Eq(g))[DOMAIN f]
  BY DEF SumFunction, SumFunctionOnSet, FoldFunctionOnSet, MapThenFoldSet
<1>2. Eq(h)
  <2>1. ASSUME NEW s \in SUBSET DOMAIN f
        PROVE  h[s] = IF s = {} THEN 0
                      ELSE f[CHOOSE x \in s : TRUE] + h[s \ {CHOOSE x \in s : TRUE}]
    <3>1. CASE s = {}
      BY <3>1, BalanceOfNone
    <3>2. CASE s # {}
      <4> DEFINE x == CHOOSE x \in s : TRUE
                 r == s \ {x}
      <4>1. x \in s
        BY <3>2
      <4>2. x \notin r /\ r \in SUBSET DOMAIN f /\ s = r \cup {x} /\ x \in DOMAIN f
        BY <4>1
      <4> HIDE DEF x, r
      <4>3. Balance(f, r \cup {x}) = f[x] + Balance(f, r)
        BY <4>2, BalanceStep
      <4>4. h[s] = f[x] + h[r]
        BY <4>2, <4>3
      <4> QED BY <3>2, <4>4 DEF x, r
    <3> QED BY <3>1, <3>2
  <2> HIDE DEF h
  <2>2. h = [s \in SUBSET DOMAIN f |-> h[s]]
    BY DEF h
  <2> QED BY <2>1, <2>2
<1>3. PICK g : g = (CHOOSE g1 : Eq(g1)) /\ Eq(g)
  BY <1>2
<1>4. ASSUME NEW s \in SUBSET DOMAIN f, s # {}
      PROVE  \E x \in s : g[s] = f[x] + g[s \ {x}] /\ h[s] = f[x] + h[s \ {x}]
  <2>1. (CHOOSE x \in s : TRUE) \in s
    BY <1>4
  <2> HIDE DEF h
  <2> QED BY <1>2, <1>3, <1>4, <2>1
<1>5. g[{}] = 0 /\ h[{}] = 0
  <2>1. {} \in SUBSET DOMAIN f
    OBVIOUS
  <2> HIDE DEF h
  <2> QED BY <1>2, <1>3, <2>1
<1>6. \A s \in SUBSET DOMAIN f : g[s] = h[s]
  <2> HIDE DEF h, Eq
  <2> DEFINE Bad == {s \in SUBSET DOMAIN f : g[s] # h[s]}
  <2> SUFFICES ASSUME Bad # {} PROVE FALSE
    OBVIOUS
  <2>1. Bad \subseteq FiniteSubsetsOf(DOMAIN f)
    BY FS_Subset DEF FiniteSubsetsOf
  <2>2. PICK s \in Bad : \A r \in Bad : <<r, s>> \notin StrictSubsetOrdering(DOMAIN f)
    <3> HIDE DEF Bad
    <3> QED BY <2>1, FS_StrictSubsetOrderingWellFounded, WFMin
  <2>3. s # {}
    BY <1>5
  <2>4. PICK x \in s : g[s] = f[x] + g[s \ {x}] /\ h[s] = f[x] + h[s \ {x}]
    BY <1>4, <2>3
  <2>5. <<s \ {x}, s>> \in StrictSubsetOrdering(DOMAIN f)
    BY DEF StrictSubsetOrdering
  <2> QED BY <2>2, <2>4, <2>5
<1> QED BY <1>1, <1>3, <1>6

\* Taking a summand away.
LEMMA SumWithout ==
  ASSUME NEW f, IsFiniteSet(DOMAIN f), \A y \in DOMAIN f : f[y] \in Int,
         NEW x \in DOMAIN f,
         NEW g, DOMAIN g = DOMAIN f \ {x}, \A y \in DOMAIN g : g[y] = f[y]
  PROVE  SumFunction(f) = f[x] + SumFunction(g) /\ SumFunction(g) \in Int
<1> DEFINE D == DOMAIN f \ {x}
<1>1. IsFiniteSet(D) /\ D \in SUBSET DOMAIN f /\ x \notin D /\ DOMAIN f = D \cup {x}
  BY FS_Subset
<1>2. SumFunction(g) = Balance(g, D) /\ SumFunction(f) = Balance(f, D \cup {x})
  BY <1>1, SumIsBalance
<1>3. Units(g, D) = Units(f, D) /\ Units(Negated(g), D) = Units(Negated(f), D)
  BY DEF Units, Negated
<1>4. Balance(g, D) = Balance(f, D)
  BY <1>3 DEF Balance
<1>5. Balance(f, D \cup {x}) = f[x] + Balance(f, D) /\ Balance(f, D) \in Int
  BY <1>1, BalanceStep
<1> QED BY <1>2, <1>4, <1>5

\* Sums are integers, and equal summands have equal sums.
LEMMA SumOfSame ==
  ASSUME NEW f, IsFiniteSet(DOMAIN f), \A y \in DOMAIN f : f[y] \in Int,
         NEW g, DOMAIN g = DOMAIN f, \A y \in DOMAIN g : g[y] = f[y]
  PROVE  SumFunction(g) = SumFunction(f) /\ SumFunction(f) \in Int
<1>1. SumFunction(f) = Balance(f, DOMAIN f) /\ SumFunction(g) = Balance(g, DOMAIN f)
  BY SumIsBalance
<1>2. \A y \in DOMAIN f : Negated(f)[y] \in Int
  BY DEF Negated
<1>3. Cardinality(Units(f, DOMAIN f)) \in Nat /\ Cardinality(Units(Negated(f), DOMAIN f)) \in Nat
  BY <1>2, UnitsFinite
<1>4. Units(g, DOMAIN f) = Units(f, DOMAIN f) /\ Units(Negated(g), DOMAIN f) = Units(Negated(f), DOMAIN f)
  BY DEF Units, Negated
<1> QED BY <1>1, <1>3, <1>4 DEF Balance

\* Zeros sum to zero.
LEMMA SumOfZeros ==
  ASSUME NEW f, IsFiniteSet(DOMAIN f), \A y \in DOMAIN f : f[y] = 0
  PROVE  SumFunction(f) = 0
<1>1. SumFunction(f) = Balance(f, DOMAIN f)
  BY SumIsBalance
<1>2. Units(f, DOMAIN f) = {} /\ Units(Negated(f), DOMAIN f) = {}
  <2>1. \A y \in DOMAIN f : f[y] = 0 /\ Negated(f)[y] = 0
    BY DEF Negated
  <2>2. 1..0 = {}
    OBVIOUS
  <2> QED BY <2>1, <2>2 DEF Units
<1> QED BY <1>1, <1>2, FS_EmptySet DEF Balance

\* A summand that is added, changed or taken away adds its difference.
LEMMA SumChange ==
  ASSUME NEW f, IsFiniteSet(DOMAIN f), \A y \in DOMAIN f : f[y] \in Int,
         NEW g, \A y \in DOMAIN g : g[y] \in Int,
         NEW x, DOMAIN g \ {x} = DOMAIN f \ {x}, \A y \in DOMAIN g \ {x} : g[y] = f[y]
  PROVE  /\ SumFunction(g) - SumFunction(f)
              = (IF x \in DOMAIN g THEN g[x] ELSE 0) - (IF x \in DOMAIN f THEN f[x] ELSE 0)
         /\ SumFunction(f) \in Int /\ SumFunction(g) \in Int
<1> DEFINE h == [y \in DOMAIN f \ {x} |-> f[y]]
<1>1. DOMAIN h = DOMAIN f \ {x} /\ \A y \in DOMAIN h : h[y] = f[y] /\ h[y] = g[y]
  OBVIOUS
<1>2. IsFiniteSet(DOMAIN h) /\ IsFiniteSet(DOMAIN g)
  <2>1. IsFiniteSet(DOMAIN f \ {x})
    BY FS_Subset
  <2>2. DOMAIN g \subseteq (DOMAIN f \ {x}) \cup {x}
    OBVIOUS
  <2>3. IsFiniteSet((DOMAIN f \ {x}) \cup {x})
    BY <2>1, FS_AddElement
  <2> QED BY <1>1, <2>1, <2>2, <2>3, FS_Subset
<1> HIDE DEF h
<1>3. /\ SumFunction(f) = (IF x \in DOMAIN f THEN f[x] ELSE 0) + SumFunction(h)
      /\ SumFunction(h) \in Int
  <2>1. CASE x \in DOMAIN f
    BY <1>1, <2>1, SumWithout
  <2>2. CASE x \notin DOMAIN f
    <3>1. DOMAIN h = DOMAIN f
      BY <1>1, <2>2
    <3> QED BY <1>1, <2>2, <3>1, SumOfSame
  <2> QED BY <2>1, <2>2
<1>4. SumFunction(g) = (IF x \in DOMAIN g THEN g[x] ELSE 0) + SumFunction(h)
  <2>1. CASE x \in DOMAIN g
    BY <1>1, <1>2, <2>1, SumWithout
  <2>2. CASE x \notin DOMAIN g
    <3>1. DOMAIN h = DOMAIN g
      BY <1>1, <2>2
    <3> QED BY <1>1, <1>2, <2>2, <3>1, SumOfSame
  <2> QED BY <2>1, <2>2
<1> QED BY <1>3, <1>4
-----------------------------------------------------------------------------
(***************************************************************************)
(* GetDeltaWeights(): one pass over the frames gives each the weight that  *)
(* is meant.  "n" is the number of frames that have a transition-id.       *)
(***************************************************************************)
Known(info, n) ==
    /\ n \in 0 .. Len(info)
    /\ \A t \in DOMAIN info : info[t].transition_id # NoId <=> t <= n

\* The frame u is in a run that is known, at frame t, to have ended.
Ended(info, u, t) ==
    t = Len(info) \/ \E v \in u .. t + 1 : info[v].transition_id # info[u].transition_id

\* The frames from t back that have the transition-id of frame r.
RunUpTo(info, t, r) ==
    {u \in 1 .. t : \A v \in u .. r : info[v].transition_id = info[r].transition_id}

\* What the pass has found out when it is at frame t.
WeightSoFar(info, n, u, t) ==
    LET w == IF u <= n THEN u ELSE n
    IN  IF \/ info[w].transition_id \in SilenceIds
           \/ /\ MaxStateDuration > 0 /\ Ended(info, w, t)
              /\ Cardinality(RunAround(info, w)) >= MaxStateDuration
        THEN SilenceWeight ELSE FullWeight

SoFar(info, n, t) ==
    [weights |-> [u \in 1 .. t |-> WeightSoFar(info, n, u, t)],
     run |-> IF t >= n THEN 0 ELSE Cardinality(RunUpTo(info, t, t + 1))]

\* A set of numbers up to t that has with each number the greater ones is an
\* interval, and its size says where it begins.
LEMMA UpperPart ==
  ASSUME NEW t \in Nat, NEW S \in SUBSET (1 .. t),
         \A u \in S : u .. t \subseteq S
  PROVE  /\ IsFiniteSet(S) /\ Cardinality(S) \in Nat
         /\ \A u \in 1 .. t : u \in S <=> u > t - Cardinality(S)
<1>1. IsFiniteSet(1 .. t)
  BY FS_Interval
<1>2. IsFiniteSet(S) /\ Cardinality(S) \in Nat
  BY <1>1, FS_Subset, FS_CardinalityType
<1>3. ASSUME NEW u \in S PROVE u > t - Cardinality(S)
  <2>1. u \in Int /\ t \in Int /\ u <= t
    OBVIOUS
  <2>2. Cardinality(u .. t) = t - u + 1
    BY <2>1, FS_Interval
  <2>3. Cardinality(u .. t) <= Cardinality(S)
    BY <1>2, FS_Subset
  <2> QED BY <1>2, <2>1, <2>2, <2>3
<1>4. ASSUME NEW u \in 1 .. t, u \notin S PROVE u <= t - Cardinality(S)
  <2>1. u + 1 \in Int /\ t \in Int /\ u \in Int /\ u <= t
    OBVIOUS
  <2>2. S \subseteq u + 1 .. t
    <3> SUFFICES ASSUME NEW x \in S, x <= u PROVE FALSE
      BY <2>1
    <3> QED BY <1>4
  <2>3. IsFiniteSet(u + 1 .. t) /\ Cardinality(u + 1 .. t) = t - u
    <3>1. IsFiniteSet(u + 1 .. t) /\ Cardinality(u + 1 .. t) = IF u + 1 > t THEN 0 ELSE t - (u + 1) + 1
      BY <2>1, FS_Interval
    <3> QED BY <2>1, <3>1
  <2>4. Cardinality(S) <= Cardinality(u + 1 .. t)
    BY <2>2, <2>3, FS_Subset
  <2> QED BY <1>2, <2>1, <2>3, <2>4
<1> QED BY <1>2, <1>3, <1>4

\* What "run" counts, at frame t: the frames of its run up to there.
LEMMA RunCounted ==
  ASSUME NEW info, Len(info) \in Nat, NEW n \in Nat, NEW t \in 1 .. n
  PROVE  /\ SoFar(info, n, t - 1).run + 1 = Cardinality(RunUpTo(info, t, t))
         /\ Cardinality(RunUpTo(info, t, t)) \in Nat
         /\ \A u \in 1 .. t : u \in RunUpTo(info, t, t)
                                <=> u > t - (SoFar(info, n, t - 1).run + 1)
<1> DEFINE S == RunUpTo(info, t, t)
           E == RunUpTo(info, t - 1, t)
<1>1. S \in SUBSET (1 .. t) /\ \A u \in S : u .. t \subseteq S
  BY DEF RunUpTo
<1>2. IsFiniteSet(S) /\ Cardinality(S) \in Nat /\ \A u \in 1 .. t : u \in S <=> u > t - Cardinality(S)
  BY <1>1, UpperPart
<1>3. S = E \cup {t} /\ t \notin E
  BY DEF RunUpTo
<1>4. E \subseteq S
  BY <1>3
<1>5. SoFar(info, n, t - 1).run = Cardinality(E)
  BY DEF SoFar
<1> HIDE DEF S, E
<1>6. IsFiniteSet(E) /\ Cardinality(E) \in Nat
  BY <1>2, <1>4, FS_Subset, FS_CardinalityType
<1>7. Cardinality(S) = Cardinality(E) + 1
  BY <1>3, <1>6, FS_AddElement
<1> QED BY <1>2, <1>5, <1>6, <1>7 DEF S

\* The run of a frame, when frame t is the last one of it.
LEMMA RunIsWhole ==
  ASSUME NEW info, Len(info) \in Nat, DOMAIN info = 1 .. Len(info),
         NEW t \in DOMAIN info, NEW u \in RunUpTo(info, t, t),
         t = Len(info) \/ info[t + 1].transition_id # info[t].transition_id
  PROVE  RunAround(info, u) = RunUpTo(info, t, t)
<1>1. u \in DOMAIN info /\ u <= t /\ t <= Len(info) /\ u >= 1
      /\ \A v \in u .. t : info[v].transition_id = info[t].transition_id
  BY DEF RunUpTo
<1>2. ASSUME NEW x \in RunAround(info, u) PROVE x \in RunUpTo(info, t, t)
  <2>1. x \in 1 .. Len(info)
        /\ \A v \in DOMAIN info : v \in x .. u \cup u .. x => info[v].transition_id = info[u].transition_id
    BY <1>2 DEF RunAround
  <2>2. x <= t
    <3> SUFFICES ASSUME x > t PROVE FALSE
      BY <2>1
    <3>1. t + 1 \in DOMAIN info /\ t + 1 \in u .. x
      BY <1>1, <2>1
    <3> QED BY <1>1, <2>1, <3>1
  <2>3. ASSUME NEW v \in x .. t PROVE info[v].transition_id = info[t].transition_id
    <3>1. v \in DOMAIN info
      BY <1>1, <2>1, <2>3
    <3>2. CASE v <= u
      BY <1>1, <2>1, <2>3, <3>1, <3>2
    <3>3. CASE v > u
      BY <1>1, <2>1, <2>3, <3>1, <3>3
    <3> QED BY <1>1, <3>1, <3>2, <3>3
  <2> QED BY <2>1, <2>2, <2>3 DEF RunUpTo
<1>3. ASSUME NEW x \in RunUpTo(info, t, t) PROVE x \in RunAround(info, u)
  <2>1. x \in 1 .. t /\ \A v \in x .. t : info[v].transition_id = info[t].transition_id
    BY <1>3 DEF RunUpTo
  <2>2. x \in DOMAIN info
    BY <2>1
  <2>3. ASSUME NEW v \in DOMAIN info, v \in x .. u \cup u .. x
        PROVE  info[v].transition_id = info[u].transition_id
    <3>1. v \in x .. t \/ v \in u .. t
      BY <1>1, <2>1, <2>3
    <3>2. u \in u .. t
      BY <1>1
    <3> QED BY <1>1, <2>1, <3>1, <3>2
  <2> QED BY <2>2, <2>3 DEF RunAround
<1> QED BY <1>2, <1>3

\* One step of the pass on a frame with a transition-id.
LEMMA WeighKnown ==
  ASSUME NEW info, Len(info) \in Nat, DOMAIN info = 1 .. Len(info),
         NEW n, Known(info, n), NEW t \in 1 .. n
  PROVE  Weigh(info, SoFar(info, n, t - 1), t) = SoFar(info, n, t)
<1> DEFINE run == SoFar(info, n, t - 1).run + 1
           ends == t = Len(info) \/ info[t + 1].transition_id # info[t].transition_id
           long == MaxStateDuration > 0 /\ ends /\ run >= MaxStateDuration
           own == IF info[t].transition_id \in SilenceIds THEN SilenceWeight ELSE FullWeight
           G == RunUpTo(info, t, t)
           before == SoFar(info, n, t - 1)
<1>1. /\ n \in Nat /\ n <= Len(info) /\ t \in DOMAIN info /\ t - 1 \in Nat /\ t \in Nat
      /\ \A u \in DOMAIN info : info[u].transition_id # NoId <=> u <= n
  BY DEF Known
<1>0. t \in Nat /\ n \in Nat /\ Len(info) \in Nat /\ 1 <= t /\ t <= n /\ n <= Len(info)
  BY <1>1
<1>2. /\ run = Cardinality(G) /\ run \in Nat
      /\ \A u \in 1 .. t : u \in G <=> u > t - run
  BY <1>1, RunCounted
<1>3. \A u \in G : ends => RunAround(info, u) = G
  BY <1>1, RunIsWhole
<1>4. t \in G /\ \A u \in G : info[u].transition_id = info[t].transition_id
  BY <1>1 DEF RunUpTo
<1>5. Weigh(info, before, t) =
        [weights |-> [u \in 1 .. t |->
                        IF long /\ u > t - run THEN SilenceWeight
                        ELSE IF u < t THEN before.weights[u] ELSE own],
         run |-> IF ends THEN 0 ELSE run]
  <2>1. info[t].transition_id # NoId
    BY <1>1
  <2> QED BY <2>1 DEF Weigh, WeighFrame
<1>6. (IF ends THEN 0 ELSE run) = SoFar(info, n, t).run
  <2>1. CASE ends /\ t < n
    <3>1. t # Len(info)
      <4>1. t < n
        BY <2>1
      <4> QED BY ONLY <1>0, <4>1
    <3>2. info[t + 1].transition_id # info[t].transition_id
      BY <2>1, <3>1
    <3>3. RunUpTo(info, t, t + 1) = {}
      <4> SUFFICES ASSUME NEW u \in RunUpTo(info, t, t + 1) PROVE FALSE
        OBVIOUS
      <4>1. t \in u .. t + 1
        BY <1>1 DEF RunUpTo
      <4> QED BY <3>2, <4>1 DEF RunUpTo
    <3>4. SoFar(info, n, t).run = 0
      BY <1>1, <2>1, <3>3, FS_EmptySet DEF SoFar
    <3> QED BY <2>1, <3>4
  <2>2. CASE ends /\ t >= n
    BY <2>2 DEF SoFar
  <2>3. CASE ~ends
    <3>1. t # Len(info) /\ info[t + 1].transition_id = info[t].transition_id
      BY <2>3
    <3>2. t + 1 \in DOMAIN info
      <4>1. t + 1 \in 1 .. Len(info)
        BY ONLY <1>0, <3>1
      <4> QED BY <4>1
    <3>3. t < n
      <4>1. info[t].transition_id # NoId
        BY <1>1, <1>0
      <4>2. t + 1 <= n
        BY ONLY <1>1, <3>1, <3>2, <4>1
      <4> QED BY ONLY <1>0, <4>2
    <3>4. RunUpTo(info, t, t + 1) = G
      <4>1. \A u \in 1 .. t : \A v \in u .. t + 1 : v \in u .. t \/ v = t + 1
        BY <1>1
      <4>2. \A u \in 1 .. t : u .. t \subseteq u .. t + 1 /\ t + 1 \in u .. t + 1
        BY <1>1
      <4> QED BY <3>1, <4>1, <4>2 DEF RunUpTo
    <3>5. SoFar(info, n, t).run = Cardinality(G)
      BY <1>1, <3>3, <3>4 DEF SoFar
    <3> QED BY <1>2, <2>3, <3>5
  <2>4. t < n \/ t >= n
    BY <1>1
  <2> QED BY <2>1, <2>2, <2>3, <2>4
<1>7. ASSUME NEW u \in 1 .. t
      PROVE  (IF long /\ u > t - run THEN SilenceWeight
              ELSE IF u < t THEN before.weights[u] ELSE own) = WeightSoFar(info, n, u, t)
  <2> DEFINE longRun == Cardinality(RunAround(info, u)) >= MaxStateDuration
  <2>1. u \in DOMAIN info /\ u <= n /\ u \in Nat
    BY <1>1
  <2>2. WeightSoFar(info, n, u, t) =
          IF info[u].transition_id \in SilenceIds
             \/ (MaxStateDuration > 0 /\ Ended(info, u, t) /\ longRun)
          THEN SilenceWeight ELSE FullWeight
    BY <2>1 DEF WeightSoFar
  <2>3. u < t => before.weights[u] =
          IF info[u].transition_id \in SilenceIds
             \/ (MaxStateDuration > 0 /\ Ended(info, u, t - 1) /\ longRun)
          THEN SilenceWeight ELSE FullWeight
    BY <1>1, <2>1 DEF SoFar, WeightSoFar
  <2>4. CASE u \in G
    <3>1. info[u].transition_id = info[t].transition_id
          /\ \A v \in u .. t : info[v].transition_id = info[u].transition_id
      BY <1>4, <2>4 DEF RunUpTo
    <3>2. Ended(info, u, t) <=> ends
      <4>1. \A v \in u .. t + 1 : v \in u .. t \/ v = t + 1
        BY <1>1, <2>1
      <4>2. t + 1 \in u .. t + 1
        BY <1>1, <2>1
      <4> QED BY <3>1, <4>1, <4>2 DEF Ended
    <3>3. ~Ended(info, u, t - 1)
      <4>1. t - 1 # Len(info) /\ (t - 1) + 1 = t
        BY <1>1
      <4> QED BY <3>1, <4>1 DEF Ended
    <3>4. ends => (longRun <=> run >= MaxStateDuration)
      BY <1>2, <1>3, <2>4
    <3>5. u > t - run
      BY <1>2, <2>4
    <3>6. ~(u < t) => u = t
      BY <1>1, <2>1
    <3> HIDE DEF run, ends, longRun
    <3> QED BY <2>2, <2>3, <3>1, <3>2, <3>3, <3>4, <3>5, <3>6
  <2>5. CASE u \notin G
    <3>1. ~(u > t - run) /\ u < t
      BY <1>1, <1>2, <1>4, <2>1, <2>5
    <3>2. PICK v \in u .. t : info[v].transition_id # info[t].transition_id
      BY <2>5 DEF RunUpTo
    <3>3. Ended(info, u, t - 1)
      <4>1. (t - 1) + 1 = t /\ t \in u .. t
        BY <1>1, <3>1
      <4> QED BY <3>2, <4>1 DEF Ended
    <3>4. Ended(info, u, t)
      <4>1. v \in u .. t + 1 /\ t \in u .. t + 1
        BY <1>1, <2>1, <3>1
      <4> QED BY <3>2, <4>1 DEF Ended
    <3> QED BY <2>2, <2>3, <3>1, <3>3, <3>4
  <2> QED BY <2>4, <2>5
<1> HIDE DEF run, ends, long, own, before
<1>8. SoFar(info, n, t) = [weights |-> [u \in 1 .. t |-> WeightSoFar(info, n, u, t)],
                           run |-> SoFar(info, n, t).run]
  BY DEF SoFar
<1> QED BY <1>5, <1>6, <1>7, <1>8 DEF before

\* One step of the pass on a frame without one.
LEMMA WeighUnknown ==
  ASSUME NEW info, Len(info) \in Nat, DOMAIN info = 1 .. Len(info),
         NEW n, Known(info, n), n > 0, NEW t \in n + 1 .. Len(info)
  PROVE  Weigh(info, SoFar(info, n, t - 1), t) = SoFar(info, n, t)
<1> DEFINE w(u, s) == WeightSoFar(info, n, u, s)
           before == [u \in 1 .. t - 1 |-> w(u, t - 1)]
<1>1. /\ n \in Nat /\ t \in DOMAIN info /\ t \in Nat /\ t - 1 \in Nat /\ t - 1 >= n /\ t > n
      /\ \A u \in DOMAIN info : info[u].transition_id # NoId <=> u <= n
  BY DEF Known
<1>2. \A u \in 1 .. n : Ended(info, u, t - 1) /\ Ended(info, u, t)
  <2>1. n + 1 \in DOMAIN info /\ info[n + 1].transition_id = NoId
    BY <1>1
  <2>2. \A u \in 1 .. n : info[u].transition_id # NoId /\ n + 1 \in u .. t /\ n + 1 \in u .. t + 1
    BY <1>1
  <2>3. (t - 1) + 1 = t
    BY <1>1
  <2> QED BY <2>1, <2>2, <2>3 DEF Ended
<1>3. \A u \in 1 .. t : w(u, t) = w(IF u < t THEN u ELSE t - 1, t - 1)
  <2> SUFFICES ASSUME NEW u \in 1 .. t
               PROVE  w(u, t) = w(IF u < t THEN u ELSE t - 1, t - 1)
    OBVIOUS
  <2> DEFINE x == IF u < t THEN u ELSE t - 1
             y == IF u <= n THEN u ELSE n
  <2>1. (IF x <= n THEN x ELSE n) = y /\ y \in 1 .. n
    BY <1>1
  <2>2. Ended(info, y, t - 1) /\ Ended(info, y, t)
    BY <1>2, <2>1
  <2> HIDE DEF x, y
  <2>3. w(u, t) = w(x, t - 1)
    BY <2>1, <2>2 DEF WeightSoFar, y
  <2> QED BY <2>3 DEF x
<1>4. /\ SoFar(info, n, t - 1) = [weights |-> before, run |-> 0]
      /\ SoFar(info, n, t) = [weights |-> [u \in 1 .. t |-> w(u, t)], run |-> 0]
  BY <1>1 DEF SoFar
<1>5. Weigh(info, SoFar(info, n, t - 1), t) = [weights |-> Append(before, Last(before)), run |-> 0]
  <2> DEFINE sofar == [weights |-> before, run |-> 0]
  <2>1. info[t].transition_id = NoId
    BY <1>1
  <2>2. Weigh(info, sofar, t) = [sofar EXCEPT !.weights = Append(@, Last(@))]
    BY <2>1 DEF Weigh, WeighFrame
  <2> HIDE DEF before
  <2>3. [sofar EXCEPT !.weights = Append(@, Last(@))] = [weights |-> Append(before, Last(before)), run |-> 0]
    OBVIOUS
  <2> QED BY <1>4, <2>2, <2>3
<1>6. Append(before, Last(before)) = [u \in 1 .. t |-> w(u, t)]
  <2>1. Len(before) = t - 1 /\ DOMAIN before = 1 .. t - 1
    BY <1>1
  <2>2. Last(before) = w(t - 1, t - 1)
    BY <1>1, <2>1 DEF Last
  <2>3. Append(before, Last(before)) = [u \in 1 .. t |-> IF u < t THEN before[u] ELSE Last(before)]
    BY <1>1, <2>1
  <2>4. \A u \in 1 .. t : (IF u < t THEN before[u] ELSE Last(before)) = w(u, t)
    BY <1>1, <1>3, <2>2
  <2> HIDE DEF before, w
  <2> QED BY <2>3, <2>4
<1> QED BY <1>4, <1>5, <1>6

\* At the last frame the pass has found out what is meant.
LEMMA MeantSoFar ==
  ASSUME NEW info, Len(info) \in Nat, DOMAIN info = 1 .. Len(info),
         NEW n, Known(info, n), n > 0, NEW u \in DOMAIN info
  PROVE  WeightSoFar(info, n, u, Len(info)) = MeantWeight(info, u)
<1> DEFINE decoded == {x \in 1 .. u : info[x].transition_id # NoId}
           w == IF u <= n THEN u ELSE n
<1>1. n \in Nat /\ n <= Len(info) /\ u \in Nat /\ 1 <= u /\ u <= Len(info)
  BY DEF Known
<1>2. \A x \in 1 .. u : info[x].transition_id # NoId <=> x <= n
  BY DEF Known
<1>3. decoded = {x \in 1 .. u : x <= n}
  BY <1>2
<1>4. w \in decoded /\ \A x \in decoded : w >= x
  BY <1>1, <1>3
<1>5. Max(decoded) = w
  <2>1. \E m \in decoded : \A x \in decoded : m >= x
    BY <1>4
  <2>2. Max(decoded) \in decoded /\ \A x \in decoded : Max(decoded) >= x
    BY <2>1 DEF Max
  <2>3. Max(decoded) >= w /\ w >= Max(decoded) /\ Max(decoded) \in Int /\ w \in Int
    BY <1>1, <1>4, <2>2
  <2> HIDE DEF w, decoded
  <2> QED BY <2>3
<1>6. Ended(info, w, Len(info))
  BY DEF Ended
<1> HIDE DEF w
<1>7. MeantWeight(info, u) = IF IsDownweighted(info, w) THEN SilenceWeight ELSE FullWeight
  BY <1>4, <1>5 DEF MeantWeight
<1> QED BY <1>6, <1>7 DEF WeightSoFar, IsDownweighted, w

\* All frames get the weight that is meant.
LEMMA WeightsMeant ==
  ASSUME NEW info, Len(info) \in Nat, DOMAIN info = 1 .. Len(info),
         Len(info) = 0 => info = << >>,
         NEW n, Known(info, n)
  PROVE  FrameWeights(info) = [t \in DOMAIN info |-> MeantWeight(info, t)]
<1>1. CASE n = 0 /\ Len(info) # 0
  <2>1. 1 \in DOMAIN info /\ \A t \in DOMAIN info : info[t].transition_id = NoId
    BY <1>1 DEF Known
  <2>2. info # << >>
    BY <1>1
  <2>3. \A t \in DOMAIN info : MeantWeight(info, t) = SilenceWeight
    <3> SUFFICES ASSUME NEW t \in DOMAIN info PROVE MeantWeight(info, t) = SilenceWeight
      OBVIOUS
    <3>1. {u \in 1 .. t : info[u].transition_id # NoId} = {}
      BY <2>1
    <3> QED BY <3>1 DEF MeantWeight
  <2> QED BY <2>1, <2>2, <2>3 DEF FrameWeights
<1>2. CASE ~(n = 0 /\ Len(info) # 0)
  <2> DEFINE N == Len(info)
             Eq(f) == f = [t \in 0 .. N |-> IF t = 0 THEN [weights |-> << >>, run |-> 0]
                                            ELSE Weigh(info, f[t - 1], t)]
             f == CHOOSE g : Eq(g)
             h == [t \in 0 .. N |-> IF t = 0 THEN [weights |-> << >>, run |-> 0]
                                    ELSE SoFar(info, n, t)]
  <2>1. n \in Nat /\ n <= N /\ (N # 0 => n > 0 /\ info[1].transition_id # NoId)
    BY <1>2 DEF Known
  <2>2. FrameWeights(info) = f[N].weights
    <3>1. ~(info # << >> /\ info[1].transition_id = NoId)
      BY <2>1
    <3> QED BY <3>1 DEF FrameWeights
  <2>3. ASSUME NEW t \in 1 .. N
        PROVE  t - 1 \in 0 .. N /\ t \in 0 .. N /\ h[t] = Weigh(info, h[t - 1], t)
    <3>1. t \in Nat /\ t # 0 /\ t - 1 \in 0 .. N /\ t \in 0 .. N /\ n > 0
      BY <2>1, <2>3
    <3>2. h[t - 1] = SoFar(info, n, t - 1)
      <4>1. CASE t = 1
        <5>1. RunUpTo(info, 0, 1) = {} /\ [u \in 1 .. 0 |-> WeightSoFar(info, n, u, 0)] = << >>
          BY DEF RunUpTo
        <5>2. SoFar(info, n, 0) = [weights |-> << >>, run |-> 0]
          <6>1. ~(0 >= n) /\ 0 + 1 = 1
            BY <2>1, <3>1
          <6>2. Cardinality(RunUpTo(info, 0, 0 + 1)) = 0
            BY <5>1, <6>1, FS_EmptySet
          <6> QED BY <5>1, <6>1, <6>2 DEF SoFar
        <5>3. t - 1 = 0
          BY <4>1
        <5> QED BY <3>1, <5>2, <5>3
      <4>2. CASE t # 1
        <5>1. t - 1 # 0
          BY <3>1, <4>2
        <5> QED BY <3>1, <5>1
      <4> QED BY <4>1, <4>2
    <3>3. h[t] = SoFar(info, n, t)
      BY <3>1
    <3>4. t \in 1 .. n \/ t \in n + 1 .. Len(info)
      BY <2>1, <2>3
    <3>5. Weigh(info, SoFar(info, n, t - 1), t) = SoFar(info, n, t)
      <4> HIDE DEF h, f
      <4> QED BY <3>1, <3>4, WeighKnown, WeighUnknown
    <3> QED BY <3>1, <3>2, <3>3, <3>5
  <2>4. h[0] = [weights |-> << >>, run |-> 0]
    <3>1. 0 \in 0 .. N
      OBVIOUS
    <3> QED BY <3>1
  <2>5. Eq(h)
    <3>1. \A t \in 0 .. N : h[t] = IF t = 0 THEN [weights |-> << >>, run |-> 0]
                                   ELSE Weigh(info, h[t - 1], t)
      <4> SUFFICES ASSUME NEW t \in 0 .. N
                   PROVE  h[t] = IF t = 0 THEN [weights |-> << >>, run |-> 0]
                                 ELSE Weigh(info, h[t - 1], t)
        OBVIOUS
      <4>1. t = 0 \/ t \in 1 .. N
        OBVIOUS
      <4> HIDE DEF h
      <4> QED BY <2>3, <2>4, <4>1
    <3>2. h = [t \in 0 .. N |-> h[t]]
      OBVIOUS
    <3> HIDE DEF h
    <3> QED BY <3>1, <3>2
  <2>6. Eq(f)
    <3> HIDE DEF h, Eq
    <3> QED BY <2>5
  <2>7. f[0] = [weights |-> << >>, run |-> 0]
    <3>1. 0 \in 0 .. N
      OBVIOUS
    <3> HIDE DEF f
    <3> QED BY <2>6, <3>1
  <2>8. \A t \in 1 .. N : f[t] = Weigh(info, f[t - 1], t)
    <3> SUFFICES ASSUME NEW t \in 1 .. N PROVE f[t] = Weigh(info, f[t - 1], t)
      OBVIOUS
    <3>1. t \in 0 .. N /\ t # 0
      OBVIOUS
    <3> HIDE DEF f
    <3> QED BY <2>6, <3>1
  <2> HIDE DEF f, h, Eq
  <2>9. \A t \in 0 .. N : f[t] = h[t]
    <3> DEFINE Bad == {t \in 0 .. N : f[t] # h[t]}
    <3> SUFFICES ASSUME Bad # {} PROVE FALSE
      OBVIOUS
    <3>1. PICK t \in Bad : \A r \in Bad : <<r, t>> \notin OpToRel(<, Nat)
      <4>1. Bad \subseteq Nat
        OBVIOUS
      <4> HIDE DEF Bad
      <4> QED BY <4>1, NatLessThanWellFounded, WFMin
    <3>2. t # 0
      BY <2>4, <2>7
    <3>3. t \in 1 .. N /\ t - 1 \in Nat /\ t \in Nat /\ t - 1 < t
      BY <3>2
    <3>4. <<t - 1, t>> \in OpToRel(<, Nat)
      BY <3>3, Zenon DEF OpToRel
    <3>5. t - 1 \in 0 .. N /\ t - 1 \notin Bad
      BY <2>3, <3>1, <3>3, <3>4
    <3>6. f[t - 1] = h[t - 1]
      BY <3>5
    <3> QED BY <2>3, <2>8, <3>1, <3>3, <3>6
  <2>10. f[N] = h[N]
    <3>1. N \in 0 .. N
      OBVIOUS
    <3> QED BY <2>9, <3>1
  <2>11. h[N].weights = [t \in DOMAIN info |-> MeantWeight(info, t)]
    <3>1. CASE N = 0
      <4>1. h[N].weights = << >> /\ DOMAIN info = {}
        BY <2>4, <3>1
      <4> QED BY <4>1
    <3>2. CASE N # 0
      <4>1. h[N].weights = [u \in 1 .. N |-> WeightSoFar(info, n, u, N)]
        <5>1. N \in 0 .. N
          OBVIOUS
        <5>2. h[N] = SoFar(info, n, N)
          BY <3>2, <5>1 DEF h
        <5> QED BY <5>2 DEF SoFar
      <4>2. \A u \in DOMAIN info : WeightSoFar(info, n, u, N) = MeantWeight(info, u)
        BY <2>1, <3>2, MeantSoFar
      <4> QED BY <4>1, <4>2
    <3> QED BY <3>1, <3>2
  <2> QED BY <2>2, <2>10, <2>11
<1> QED BY <1>1, <1>2
-----------------------------------------------------------------------------
(***************************************************************************)
(* delta_weights_: changes of weight by frame.                             *)
(***************************************************************************)
WaitingFor(Q, t) == {p \in BagToSet(Q) : p[1] = t}
Pending(Q, t) == SumFunction([p \in WaitingFor(Q, t) |-> p[2] * Q[p]])

\* A queue of changes of the first n frames.
IsQueue(Q, n) ==
    /\ IsFiniteSet(DOMAIN Q) /\ DOMAIN Q \subseteq (1 .. n) \X Int
    /\ \A p \in DOMAIN Q : Q[p] \in Nat \ {0}

\* What is waiting for a frame is finitely many integers.
LEMMA WaitingIsFinite ==
  ASSUME NEW n, NEW Q, IsQueue(Q, n), NEW t
  PROVE  /\ IsFiniteSet(WaitingFor(Q, t))
         /\ \A p \in WaitingFor(Q, t) : p[1] \in 1 .. n /\ p[2] \in Int /\ p[2] * Q[p] \in Int
<1>1. IsFiniteSet(WaitingFor(Q, t))
  BY FS_Subset DEF WaitingFor, IsQueue, BagToSet
<1>2. ASSUME NEW p \in WaitingFor(Q, t)
      PROVE  p[1] \in 1 .. n /\ p[2] \in Int /\ p[2] * Q[p] \in Int
  <2>1. p \in (1 .. n) \X Int /\ Q[p] \in Nat
    BY DEF WaitingFor, IsQueue, BagToSet
  <2>2. \A a \in Int, b \in Nat : a * b \in Int
    OBVIOUS
  <2> QED BY <2>1, <2>2
<1> QED BY <1>1, <1>2

\* A frame for which nothing waits, or only changes by zero.
LEMMA NothingPending ==
  ASSUME NEW n, NEW Q, IsQueue(Q, n), NEW t, \A p \in WaitingFor(Q, t) : p[2] = 0
  PROVE  Pending(Q, t) = 0
<1> DEFINE f == [p \in WaitingFor(Q, t) |-> p[2] * Q[p]]
<1>1. IsFiniteSet(DOMAIN f)
  BY WaitingIsFinite
<1>2. \A p \in DOMAIN f : f[p] = 0
  <2>1. \A p \in WaitingFor(Q, t) : Q[p] \in Nat
    BY DEF WaitingFor, IsQueue, BagToSet
  <2>2. \A b \in Nat : 0 * b = 0
    OBVIOUS
  <2> QED BY <2>1, <2>2
<1> HIDE DEF f
<1>3. SumFunction(f) = 0
  BY <1>1, <1>2, SumOfZeros
<1> QED BY <1>3 DEF f, Pending

\* A change more or less, of one frame, that waits k times.
LEMMA PendingChange ==
  ASSUME NEW m, NEW Q, IsQueue(Q, m), NEW n, NEW R, IsQueue(R, n), NEW t, NEW d \in Int,
         \A p \in DOMAIN R \ {<<t, d>>} : p[1] = t => p \in DOMAIN Q /\ R[p] = Q[p],
         \A p \in DOMAIN Q \ {<<t, d>>} : p[1] = t => p \in DOMAIN R
  PROVE  /\ Pending(R, t) - Pending(Q, t)
              = (IF <<t, d>> \in DOMAIN R THEN d * R[<<t, d>>] ELSE 0)
                  - (IF <<t, d>> \in DOMAIN Q THEN d * Q[<<t, d>>] ELSE 0)
         /\ Pending(Q, t) \in Int /\ Pending(R, t) \in Int
<1> DEFINE f == [p \in WaitingFor(Q, t) |-> p[2] * Q[p]]
           g == [p \in WaitingFor(R, t) |-> p[2] * R[p]]
           x == <<t, d>>
<1>1. /\ IsFiniteSet(DOMAIN f) /\ \A p \in DOMAIN f : f[p] \in Int
      /\ \A p \in DOMAIN g : g[p] \in Int
  BY WaitingIsFinite
<1>2. x[1] = t /\ x[2] = d
  OBVIOUS
<1>3. /\ x \in DOMAIN f <=> x \in DOMAIN Q
      /\ x \in DOMAIN g <=> x \in DOMAIN R
  BY <1>2 DEF WaitingFor, BagToSet
<1>4. /\ x \in DOMAIN f => f[x] = d * Q[x]
      /\ x \in DOMAIN g => g[x] = d * R[x]
  BY <1>2
<1>5. DOMAIN g \ {x} = DOMAIN f \ {x} /\ \A p \in DOMAIN g \ {x} : g[p] = f[p]
  BY DEF WaitingFor, BagToSet
<1> HIDE DEF f, g, x
<1>6. /\ SumFunction(g) - SumFunction(f)
           = (IF x \in DOMAIN g THEN g[x] ELSE 0) - (IF x \in DOMAIN f THEN f[x] ELSE 0)
      /\ SumFunction(f) \in Int /\ SumFunction(g) \in Int
  BY <1>1, <1>5, SumChange
<1>7. Pending(R, t) = SumFunction(g) /\ Pending(Q, t) = SumFunction(f)
  BY DEF Pending, f, g
<1>8. (IF x \in DOMAIN g THEN g[x] ELSE 0) = (IF x \in DOMAIN R THEN d * R[x] ELSE 0)
  BY <1>3, <1>4
<1>9. (IF x \in DOMAIN f THEN f[x] ELSE 0) = (IF x \in DOMAIN Q THEN d * Q[x] ELSE 0)
  BY <1>3, <1>4
<1> QED BY <1>6, <1>7, <1>8, <1>9 DEF x

\* The pairs of some frames and the differences of two weightings.
Differences(old, new, F) == {<<t, new[t] - old[t]>> : t \in F}

\* The difference of one of the first n frames, and of any other frame.
Difference(old, new, n, t) == IF t \in 1 .. n THEN new[t] - old[t] ELSE 0

\* The queue with these.
Queued(Q, old, new, F) == Q (+) SetToBag(Differences(old, new, F))

\* A queue of changes of some frames is one of more frames.
LEMMA QueueOfMore ==
  ASSUME NEW m \in Nat, NEW n \in Nat, m <= n, NEW Q, IsQueue(Q, m)
  PROVE  IsQueue(Q, n)
<1>1. 1 .. m \subseteq 1 .. n
  OBVIOUS
<1> QED BY <1>1 DEF IsQueue

\* The queue with the differences of some of the first n frames.
LEMMA ChangesQueued ==
  ASSUME NEW n \in Nat, NEW Q, IsQueue(Q, n),
         NEW old, NEW new, \A t \in 1 .. n : old[t] \in Int /\ new[t] \in Int,
         NEW F \in SUBSET (1 .. n)
  PROVE  IsQueue(Queued(Q, old, new, F), n)
<1> DEFINE D == Differences(old, new, F)
           R == Queued(Q, old, new, F)
<1>0. D = {<<t, new[t] - old[t]>> : t \in F}
  BY DEF Differences
<1> HIDE DEF D, R
<1>1. /\ DOMAIN R = DOMAIN Q \cup D
      /\ \A p \in DOMAIN R : R[p] = (IF p \in DOMAIN Q THEN Q[p] ELSE 0) + (IF p \in D THEN 1 ELSE 0)
  <2>1. R = Q (+) SetToBag(D)
    BY DEF Queued, D, R
  <2> QED BY <2>1 DEF (+), SetToBag
<1>2. D \subseteq (1 .. n) \X Int
  <2>1. \A t \in F : t \in 1 .. n /\ new[t] - old[t] \in Int
    OBVIOUS
  <2> QED BY <1>0, <2>1
<1>3. IsFiniteSet(D)
  <2> DEFINE f == [t \in F |-> <<t, new[t] - old[t]>>]
  <2>1. f \in Surjection(F, D)
    BY <1>0 DEF Surjection
  <2>2. IsFiniteSet(F)
    <3>1. IsFiniteSet(1 .. n)
      BY FS_Interval
    <3> QED BY <3>1, FS_Subset
  <2> QED BY <2>1, <2>2, FS_Surjection
<1>4. IsQueue(R, n)
  <2>1. IsFiniteSet(DOMAIN R)
    <3>1. IsFiniteSet(DOMAIN Q)
      BY DEF IsQueue
    <3>2. IsFiniteSet(DOMAIN Q \cup D)
      BY <1>3, <3>1, FS_Union
    <3> QED BY <1>1, <3>2
  <2>2. DOMAIN R \subseteq (1 .. n) \X Int
    BY <1>1, <1>2 DEF IsQueue
  <2>3. \A p \in DOMAIN R : R[p] \in Nat \ {0}
    BY <1>1 DEF IsQueue
  <2> QED BY <2>1, <2>2, <2>3 DEF IsQueue
<1> QED BY <1>4 DEF R

\* If these are all the frames that differ, the sum of the changes of every
\* frame changes by its difference.
LEMMA ChangesPending ==
  ASSUME NEW n \in Nat, NEW Q, IsQueue(Q, n),
         NEW old, NEW new, \A s \in 1 .. n : old[s] \in Int /\ new[s] \in Int,
         NEW F \in SUBSET (1 .. n),
         \A s \in 1 .. n \ F : old[s] = new[s], NEW t
  PROVE  Pending(Queued(Q, old, new, F), t) = Pending(Q, t) + Difference(old, new, n, t)
<1> DEFINE D == Differences(old, new, F)
           R == Queued(Q, old, new, F)
<1>1. D = {<<s, new[s] - old[s]>> : s \in F}
  BY DEF Differences
<1>2. IsQueue(R, n)
  BY ChangesQueued
<1> HIDE DEF D, R
<1>3. /\ DOMAIN R = DOMAIN Q \cup D
      /\ \A p \in DOMAIN R : R[p] = (IF p \in DOMAIN Q THEN Q[p] ELSE 0) + (IF p \in D THEN 1 ELSE 0)
  <2>1. R = Q (+) SetToBag(D)
    BY DEF Queued, D, R
  <2> QED BY <2>1 DEF (+), SetToBag
<1>4. CASE t \in F
  <2> DEFINE d == new[t] - old[t]
             x == <<t, d>>
  <2>1. t \in 1 .. n /\ d \in Int /\ x \in D
    <3>1. t \in 1 .. n /\ x \in D
      BY <1>1, <1>4
    <3>2. old[t] \in Int /\ new[t] \in Int
      BY <3>1
    <3> QED BY <3>1, <3>2
  <2>2. ASSUME NEW p \in D, p[1] = t PROVE p = x
    <3>1. PICK s \in F : p = <<s, new[s] - old[s]>>
      BY <1>1
    <3>2. s = t
      BY <2>2, <3>1
    <3> QED BY <3>1, <3>2
  <2> HIDE DEF d
  <2>3. \A p \in DOMAIN R \ {x} : p[1] = t => p \in DOMAIN Q /\ R[p] = Q[p]
    BY <1>3, <2>2 DEF IsQueue
  <2>4. \A p \in DOMAIN Q \ {x} : p[1] = t => p \in DOMAIN R
    BY <1>3
  <2>5. /\ Pending(R, t) - Pending(Q, t)
             = (IF x \in DOMAIN R THEN d * R[x] ELSE 0) - (IF x \in DOMAIN Q THEN d * Q[x] ELSE 0)
        /\ Pending(Q, t) \in Int /\ Pending(R, t) \in Int
    BY <1>2, <2>1, <2>3, <2>4, PendingChange
  <2>6. Pending(R, t) - Pending(Q, t) = d
    <3> HIDE DEF x
    <3>1. x \in DOMAIN R
      BY <1>3, <2>1
    <3>2. CASE x \in DOMAIN Q
      <4>1. Q[x] \in Nat /\ R[x] = Q[x] + 1
        BY <1>3, <2>1, <3>1, <3>2 DEF IsQueue
      <4>2. \A a \in Int, b \in Nat : a * (b + 1) = a * b + a /\ a * b \in Int
        OBVIOUS
      <4>3. d * R[x] = d * Q[x] + d /\ d * Q[x] \in Int
        BY <2>1, <4>1, <4>2
      <4> QED BY <2>1, <2>5, <3>1, <3>2, <4>3
    <3>3. CASE x \notin DOMAIN Q
      <4>1. R[x] = 1
        BY <1>3, <2>1, <3>1, <3>3
      <4>2. d * R[x] = d
        BY <2>1, <4>1
      <4> QED BY <2>1, <2>5, <3>1, <3>3, <4>2
    <3> QED BY <3>2, <3>3
  <2>7. Pending(R, t) = Pending(Q, t) + d
    BY <2>1, <2>5, <2>6
  <2> QED BY <2>1, <2>7 DEF d, R, Difference
<1>5. CASE t \notin F
  <2>1. \A p \in D : p[1] # t
    BY <1>1, <1>5
  <2>2. \A p \in DOMAIN R \ {<<t, 0>>} : p[1] = t => p \in DOMAIN Q /\ R[p] = Q[p]
    BY <1>3, <2>1 DEF IsQueue
  <2>3. \A p \in DOMAIN Q \ {<<t, 0>>} : p[1] = t => p \in DOMAIN R
    BY <1>3
  <2>4. <<t, 0>> \in DOMAIN R <=> <<t, 0>> \in DOMAIN Q
    BY <1>3, <2>1
  <2>5. /\ Pending(R, t) - Pending(Q, t)
             = (IF <<t, 0>> \in DOMAIN R THEN 0 * R[<<t, 0>>] ELSE 0)
                 - (IF <<t, 0>> \in DOMAIN Q THEN 0 * Q[<<t, 0>>] ELSE 0)
        /\ Pending(Q, t) \in Int /\ Pending(R, t) \in Int
    BY <1>2, <2>2, <2>3, PendingChange
  <2>6. \A a \in Nat : 0 * a = 0
    OBVIOUS
  <2>7. /\ <<t, 0>> \in DOMAIN R => 0 * R[<<t, 0>>] = 0
        /\ <<t, 0>> \in DOMAIN Q => 0 * Q[<<t, 0>>] = 0
    BY <1>2, <2>6 DEF IsQueue
  <2>8. Pending(R, t) - Pending(Q, t) = 0
    <3>1. CASE <<t, 0>> \in DOMAIN R
      BY <2>4, <2>5, <2>7, <3>1
    <3>2. CASE <<t, 0>> \notin DOMAIN R
      BY <2>4, <2>5, <3>2
    <3> QED BY <3>1, <3>2
  <2>9. Difference(old, new, n, t) = 0
    <3>1. t \in 1 .. n => new[t] = old[t] /\ new[t] \in Int
      BY <1>5
    <3> QED BY <3>1 DEF Difference
  <2> QED BY <2>5, <2>8, <2>9 DEF R, Difference
<1> QED BY <1>4, <1>5

\* One change is popped from the queue.
Popped(Q, x) == Q (-) SetToBag({x})

\* It no longer counts for its frame, and all others do.
LEMMA ChangePopped ==
  ASSUME NEW n \in Nat, NEW Q, IsQueue(Q, n), NEW x \in DOMAIN Q
  PROVE  /\ IsQueue(Popped(Q, x), n)
         /\ DOMAIN Popped(Q, x) \subseteq DOMAIN Q
         /\ x \in DOMAIN Popped(Q, x) <=> Q[x] # 1
         /\ \A p \in DOMAIN Q \ {x} : p \in DOMAIN Popped(Q, x) /\ Popped(Q, x)[p] = Q[p]
         /\ Pending(Popped(Q, x), x[1]) = Pending(Q, x[1]) - x[2]
         /\ Pending(Q, x[1]) \in Int
         /\ \A t : t # x[1] => Pending(Popped(Q, x), t) = Pending(Q, t)
<1> DEFINE R == Popped(Q, x)
<1> DEFINE k(p) == Q[p] - (IF p = x THEN 1 ELSE 0)
<1>1. R = [p \in {q \in DOMAIN Q : k(q) > 0} |-> k(p)]
  <2> DEFINE B == [p \in DOMAIN Q |-> IF p \in {x} THEN Q[p] - 1 ELSE Q[p]]
  <2>1. R = [p \in {q \in DOMAIN Q : B[q] > 0} |-> B[p]]
    BY DEF (-), SetToBag, Popped
  <2>2. \A p \in DOMAIN Q : B[p] = k(p)
    BY DEF IsQueue
  <2> HIDE DEF B, k, R
  <2> QED BY <2>1, <2>2
<1> HIDE DEF R
<1>2. /\ DOMAIN R \subseteq DOMAIN Q
      /\ \A p \in DOMAIN R : R[p] \in Nat \ {0}
      /\ \A p \in DOMAIN Q \ {x} : p \in DOMAIN R /\ R[p] = Q[p]
      /\ x \in DOMAIN R <=> Q[x] # 1
      /\ x \in DOMAIN R => R[x] = Q[x] - 1
  BY <1>1 DEF IsQueue
<1> HIDE DEF k
<1>3. IsQueue(R, n)
  BY <1>2, FS_Subset DEF IsQueue
<1>4. x = <<x[1], x[2]>> /\ x[2] \in Int /\ Q[x] \in Nat \ {0}
  BY DEF IsQueue
<1>5. Pending(R, x[1]) = Pending(Q, x[1]) - x[2] /\ Pending(Q, x[1]) \in Int
  <2> DEFINE t == x[1]
             d == x[2]
  <2>1. /\ Pending(R, t) - Pending(Q, t)
             = (IF x \in DOMAIN R THEN d * R[x] ELSE 0) - (IF x \in DOMAIN Q THEN d * Q[x] ELSE 0)
        /\ Pending(Q, t) \in Int /\ Pending(R, t) \in Int
    <3> HIDE DEF t, d
    <3>1. x = <<t, d>> /\ d \in Int
      BY <1>4 DEF t, d
    <3>2. \A p \in DOMAIN R \ {<<t, d>>} : p[1] = t => p \in DOMAIN Q /\ R[p] = Q[p]
      BY <1>2, <3>1
    <3>3. \A p \in DOMAIN Q \ {<<t, d>>} : p[1] = t => p \in DOMAIN R
      BY <1>2, <3>1
    <3>4. /\ Pending(R, t) - Pending(Q, t)
               = (IF <<t, d>> \in DOMAIN R THEN d * R[<<t, d>>] ELSE 0)
                   - (IF <<t, d>> \in DOMAIN Q THEN d * Q[<<t, d>>] ELSE 0)
          /\ Pending(Q, t) \in Int /\ Pending(R, t) \in Int
      <4>1. d \in Int
        BY <3>1
      <4>2. IsQueue(Q, n)
        OBVIOUS
      <4> QED BY ONLY <1>3, <3>2, <3>3, <4>1, <4>2, PendingChange
    <3> QED BY <3>1, <3>4
  <2> HIDE DEF t, d
  <2>2. (IF x \in DOMAIN R THEN d * R[x] ELSE 0) = d * (Q[x] - 1)
    <3>1. CASE x \in DOMAIN R
      <4>1. R[x] = Q[x] - 1
        BY <1>2, <3>1
      <4> QED BY <3>1, <4>1
    <3>2. CASE x \notin DOMAIN R
      <4>1. Q[x] - 1 = 0
        BY <1>2, <3>2
      <4>2. d * 0 = 0
        BY <1>4 DEF d
      <4> QED BY <3>2, <4>1, <4>2
    <3> QED BY <3>1, <3>2
  <2>3. d \in Int /\ Q[x] \in Int
    BY <1>4 DEF d
  <2>4. d * (Q[x] - 1) = d * Q[x] - d /\ d * Q[x] \in Int
    <3>1. \A a, b \in Int : a * (b - 1) = a * b - a /\ a * b \in Int
      OBVIOUS
    <3> QED BY <2>3, <3>1
  <2>5. Pending(R, t) = Pending(Q, t) - d
    BY <2>1, <2>2, <2>3, <2>4
  <2> QED BY <2>1, <2>5 DEF t, d
<1>6. ASSUME NEW t, t # x[1] PROVE Pending(R, t) = Pending(Q, t)
  <2>1. WaitingFor(R, t) = WaitingFor(Q, t) /\ \A p \in WaitingFor(R, t) : R[p] = Q[p]
    BY <1>2, <1>6 DEF WaitingFor, BagToSet
  <2>2. [p \in WaitingFor(R, t) |-> p[2] * R[p]] = [p \in WaitingFor(Q, t) |-> p[2] * Q[p]]
    BY <2>1
  <2> QED BY <2>2 DEF Pending
<1> QED BY <1>2, <1>3, <1>5, <1>6 DEF R
-----------------------------------------------------------------------------
(***************************************************************************)
(* frame_info_, its traceback and its weights.                             *)
(***************************************************************************)
Tokens == Seq(TransitionIds) \cup {NoToken}
Infos == [token : Tokens, transition_id : TransitionIds \cup {NoId}, current_weight : Int]

\* The frames have been traced back along a path, and no further.
Follows(info, path) ==
    \A t \in DOMAIN info :
        IF t <= Len(path)
        THEN info[t].token = TokenBefore(path, t) /\ info[t].transition_id \in TransitionIds
        ELSE info[t].token = NoToken /\ info[t].transition_id = NoId

\* A frame that is not in frame_info_ has no weight yet.
WeightOf(info, t) == IF t \in DOMAIN info THEN info[t].current_weight ELSE 0

\* The greatest of finitely many integers.
LEMMA GreatestOf ==
  ASSUME NEW S, IsFiniteSet(S), S \subseteq Int, S # {}
  PROVE  Max(S) \in S /\ \A x \in S : x <= Max(S)
<1> DEFINE HasMax(T) == \E m \in T : \A x \in T : x <= m
           Bad == {T \in SUBSET S : T # {} /\ ~HasMax(T)}
<1>1. Bad = {}
  <2> SUFFICES ASSUME Bad # {} PROVE FALSE
    OBVIOUS
  <2>1. Bad \subseteq FiniteSubsetsOf(S)
    BY FS_Subset DEF FiniteSubsetsOf
  <2>2. PICK T \in Bad : \A U \in Bad : <<U, T>> \notin StrictSubsetOrdering(S)
    <3> HIDE DEF Bad
    <3> QED BY <2>1, FS_StrictSubsetOrderingWellFounded, WFMin
  <2>3. PICK x \in T : TRUE
    OBVIOUS
  <2>4. <<T \ {x}, T>> \in StrictSubsetOrdering(S)
    BY <2>3 DEF StrictSubsetOrdering
  <2>5. T \ {x} \notin Bad
    BY <2>2, <2>4
  <2>6. T \subseteq Int /\ x \in Int
    BY <2>3
  <2>7. CASE T \ {x} = {}
    <3>1. \A y \in T : y <= x
      BY <2>6, <2>7
    <3> QED BY <2>3, <3>1
  <2>8. CASE T \ {x} # {}
    <3>1. PICK m \in T \ {x} : \A y \in T \ {x} : y <= m
      BY <2>5, <2>8
    <3>2. m \in T /\ m \in Int
      BY <2>6
    <3>3. CASE x <= m
      <4>1. \A y \in T : y <= m
        BY <3>1, <3>3
      <4> QED BY <3>2, <4>1
    <3>4. CASE m <= x
      <4>1. \A y \in T : y <= x
        <5> SUFFICES ASSUME NEW y \in T PROVE y <= x
          OBVIOUS
        <5>1. y = x \/ y <= m
          BY <3>1
        <5> QED BY <2>6, <3>2, <3>4, <5>1
      <4> QED BY <2>3, <4>1
    <3> QED BY <2>6, <3>2, <3>3, <3>4
  <2> QED BY <2>7, <2>8
<1>2. \E m \in S : \A x \in S : m >= x
  BY <1>1
<1>3. Max(S) \in S /\ \A x \in S : Max(S) >= x
  BY <1>2 DEF Max
<1> QED BY <1>3

\* The greater of two, and the lesser.
LEMMA GreaterOf ==
  ASSUME NEW a \in Int, NEW b \in Int
  PROVE  Max({a, b}) = (IF a <= b THEN b ELSE a) /\ Min({a, b}) = (IF a <= b THEN a ELSE b)
<1>1. \E m \in {a, b} : \A x \in {a, b} : m >= x
  OBVIOUS
<1>2. Max({a, b}) \in {a, b} /\ Max({a, b}) >= a /\ Max({a, b}) >= b
  BY <1>1 DEF Max
<1>3. \E m \in {a, b} : \A x \in {a, b} : m <= x
  OBVIOUS
<1>4. Min({a, b}) \in {a, b} /\ Min({a, b}) <= a /\ Min({a, b}) <= b
  BY <1>3 DEF Min
<1> QED BY <1>2, <1>4

\* frame_info_.resize().
LEMMA ResizedIs ==
  ASSUME NEW info \in Seq(Infos), NEW n \in Nat, NEW r, r = Resized(info, n)
  PROVE  /\ r \in Seq(Infos)
         /\ Len(r) = IF Len(info) <= n THEN n ELSE Len(info)
         /\ \A t \in DOMAIN info : r[t] = info[t]
         /\ \A t \in DOMAIN r \ DOMAIN info : r[t] = FrameInfo
         /\ \A t : WeightOf(r, t) = WeightOf(info, t)
<1> DEFINE k == Max({0, n - Len(info)})
           new == [i \in 1 .. k |-> FrameInfo]
<1>1. k = (IF 0 <= n - Len(info) THEN n - Len(info) ELSE 0)
  <2>1. 0 \in Int /\ n - Len(info) \in Int
    OBVIOUS
  <2> QED BY <2>1, GreaterOf
<1>2. k \in Nat /\ Len(info) + k = IF Len(info) <= n THEN n ELSE Len(info)
  BY <1>1
<1> HIDE DEF k
<1>3. FrameInfo \in Infos
  BY DEF FrameInfo, Infos, Tokens
<1>4. new \in Seq(Infos) /\ Len(new) = k /\ \A i \in 1 .. k : new[i] = FrameInfo
  BY <1>2, <1>3
<1> HIDE DEF new
<1>5. r = info \o new
  BY DEF Resized, new, k
<1>6. /\ r \in Seq(Infos) /\ Len(r) = Len(info) + k
      /\ \A t \in 1 .. Len(info) : r[t] = info[t]
      /\ \A t \in 1 .. Len(r) : t > Len(info) => r[t] = new[t - Len(info)]
  BY <1>2, <1>4, <1>5
<1>7. \A t \in DOMAIN info : r[t] = info[t] /\ t \in DOMAIN r
  BY <1>2, <1>6
<1>8. \A t \in DOMAIN r \ DOMAIN info : r[t] = FrameInfo
  BY <1>2, <1>4, <1>6
<1>9. \A t : WeightOf(r, t) = WeightOf(info, t)
  BY <1>7, <1>8 DEF WeightOf, FrameInfo
<1> QED BY <1>2, <1>6, <1>7, <1>8, <1>9

\* Frames that are appended have not been traced back.
LEMMA ResizedFollows ==
  ASSUME NEW info \in Seq(Infos), NEW n \in Nat,
         NEW path, Len(path) \in Nat, Follows(info, path), Len(path) <= Len(info)
  PROVE  Follows(Resized(info, n), path)
<1> DEFINE r == Resized(info, n)
<1>1. /\ r \in Seq(Infos)
      /\ \A t \in DOMAIN info : r[t] = info[t]
      /\ \A t \in DOMAIN r \ DOMAIN info : r[t] = FrameInfo
  BY ResizedIs
<1> HIDE DEF r
<1>2. SUFFICES ASSUME NEW t \in DOMAIN r
               PROVE  IF t <= Len(path)
                      THEN r[t].token = TokenBefore(path, t) /\ r[t].transition_id \in TransitionIds
                      ELSE r[t].token = NoToken /\ r[t].transition_id = NoId
  BY DEF r, Follows
<1>3. CASE t \in DOMAIN info
  BY <1>1, <1>3 DEF Follows
<1>4. CASE t \notin DOMAIN info
  <2>1. t \in Nat /\ t > Len(info)
    BY <1>1, <1>4
  <2>2. ~(t <= Len(path))
    BY <2>1
  <2> QED BY <1>1, <1>4, <2>2 DEF FrameInfo
<1> QED BY <1>3, <1>4

\* The token at a frame is the path up to there.
LEMMA TokensArePaths ==
  ASSUME NEW latest \in Seq(TransitionIds), NEW t \in 1 .. Len(latest)
  PROVE  /\ TokenBefore(latest, t) \in Seq(TransitionIds)
         /\ Len(TokenBefore(latest, t)) = t - 1
         /\ \A u \in 1 .. t - 1 : TokenBefore(latest, t)[u] = latest[u]
         /\ TokenBefore(latest, t) # NoToken
<1>1. /\ TokenBefore(latest, t) \in Seq(TransitionIds)
      /\ Len(TokenBefore(latest, t)) = t - 1
      /\ \A u \in 1 .. t - 1 : TokenBefore(latest, t)[u] = latest[u]
  BY DEF TokenBefore
<1>2. NoToken \notin Seq(TransitionIds)
  <2> SUFFICES ASSUME NoToken \in Seq(TransitionIds) PROVE FALSE
    OBVIOUS
  <2>1. Len(NoToken) = 1 /\ NoToken[1] = NoId
    BY DEF NoToken
  <2>2. \A s \in Seq(TransitionIds) : \A i \in 1 .. Len(s) : s[i] \in TransitionIds
    OBVIOUS
  <2>3. NoToken[1] \in TransitionIds
    <3>1. 1 \in 1 .. Len(NoToken)
      BY <2>1
    <3> QED BY <2>2, <3>1
  <2> QED BY <2>1, <2>3, WeightingAssumption
<1> QED BY <1>1, <1>2

\* Paths that have the same token at a frame have the same ones before it.
LEMMA TokensBefore ==
  ASSUME NEW p \in Seq(TransitionIds), NEW q \in Seq(TransitionIds),
         NEW t \in 1 .. Len(p), t \in 1 .. Len(q), TokenBefore(p, t) = TokenBefore(q, t),
         NEW u \in 1 .. t
  PROVE  TokenBefore(p, u) = TokenBefore(q, u)
<1>1. \A v \in 1 .. t - 1 : p[v] = q[v]
  BY TokensArePaths
<1>2. u \in 1 .. Len(p) /\ u \in 1 .. Len(q) /\ 1 .. u - 1 \subseteq 1 .. t - 1
  OBVIOUS
<1>3. \A v \in 1 .. u - 1 : p[v] = q[v]
  BY <1>1, <1>2
<1>4. /\ TokenBefore(p, u) \in Seq(TransitionIds) /\ Len(TokenBefore(p, u)) = u - 1
      /\ TokenBefore(q, u) \in Seq(TransitionIds) /\ Len(TokenBefore(q, u)) = u - 1
      /\ \A v \in 1 .. u - 1 : TokenBefore(p, u)[v] = TokenBefore(q, u)[v]
  BY <1>2, <1>3, TokensArePaths
<1> QED BY <1>4

\* A traceback leaves the frames with the tokens of the best path although it
\* stops at the first frame from the end that has its token already: the
\* frames before that one were traced back along a path that is the same up to
\* there.
LEMMA TracebackFollows ==
  ASSUME NEW info \in Seq(Infos),
         NEW path \in Seq(TransitionIds), Follows(info, path), Len(path) <= Len(info),
         NEW latest \in Seq(TransitionIds), Len(path) <= Len(latest),
         NEW r, r = Traceback(info, latest)
  PROVE  /\ r \in Seq(Infos)
         /\ Len(r) = IF Len(info) <= Len(latest) THEN Len(latest) ELSE Len(info)
         /\ Follows(r, latest)
         /\ \A t : WeightOf(r, t) = WeightOf(info, t)
<1> DEFINE s == Resized(info, Len(latest))
           known == {t \in 1 .. Len(latest) : s[t].token = TokenBefore(latest, t)}
           stop == Max(known \cup {0})
<1>1. /\ s \in Seq(Infos)
      /\ Len(s) = IF Len(info) <= Len(latest) THEN Len(latest) ELSE Len(info)
      /\ \A t : WeightOf(s, t) = WeightOf(info, t)
  BY ResizedIs
<1>2. Follows(s, path)
  BY ResizedFollows
<1> HIDE DEF s
<1>3. stop \in known \cup {0} /\ \A t \in known : t <= stop
  <2>1. IsFiniteSet(1 .. Len(latest)) /\ IsFiniteSet({0})
    <3>1. 1 \in Int /\ Len(latest) \in Int
      OBVIOUS
    <3> QED BY <3>1, FS_Interval, FS_Singleton
  <2>2. IsFiniteSet(known)
    BY <2>1, FS_Subset
  <2>3. IsFiniteSet(known \cup {0})
    BY <2>1, <2>2, FS_Union
  <2>4. known \cup {0} \subseteq Int /\ known \cup {0} # {}
    OBVIOUS
  <2> HIDE DEF known
  <2>5. stop \in known \cup {0} /\ \A t \in known \cup {0} : t <= stop
    BY <2>3, <2>4, GreatestOf
  <2> QED BY <2>5
<1>4. stop \in 0 .. Len(latest)
  <2> HIDE DEF stop
  <2> QED BY <1>3
<1> HIDE DEF stop
<1>5. \A t \in 1 .. stop : s[t].token = TokenBefore(latest, t) /\ s[t].transition_id \in TransitionIds
  <2> SUFFICES ASSUME NEW t \in 1 .. stop
               PROVE  s[t].token = TokenBefore(latest, t) /\ s[t].transition_id \in TransitionIds
    OBVIOUS
  <2>1. stop \in 1 .. Len(latest) /\ s[stop].token = TokenBefore(latest, stop)
    BY <1>3, <1>4
  <2>2. stop \in DOMAIN s /\ t \in DOMAIN s
    BY <1>1, <1>4, <2>1
  <2>3. s[stop].token # NoToken
    BY <2>1, TokensArePaths
  <2>4. stop <= Len(path) /\ s[stop].token = TokenBefore(path, stop)
    BY <1>2, <2>2, <2>3 DEF Follows
  <2>5. TokenBefore(path, stop) = TokenBefore(latest, stop) /\ stop \in 1 .. Len(path)
    BY <2>1, <2>4
  <2>6. TokenBefore(path, t) = TokenBefore(latest, t)
    BY <2>1, <2>5, TokensBefore
  <2>7. t <= Len(path)
    BY <2>5
  <2> QED BY <1>2, <2>2, <2>6, <2>7 DEF Follows
<1>6. r = [t \in DOMAIN s |-> IF t \in stop + 1 .. Len(latest)
                              THEN [s[t] EXCEPT !.token = TokenBefore(latest, t),
                                                !.transition_id = latest[t]]
                              ELSE s[t]]
  BY DEF Traceback, TraceBackTo, s, stop, known
<1> HIDE DEF known
<1>7. ASSUME NEW t \in DOMAIN s, t \in stop + 1 .. Len(latest)
      PROVE  /\ r[t] = [token |-> TokenBefore(latest, t), transition_id |-> latest[t],
                        current_weight |-> s[t].current_weight]
             /\ r[t] \in Infos
  <2>1. s[t] \in Infos /\ t \in 1 .. Len(latest)
    BY <1>1, <1>4, <1>7
  <2>2. latest[t] \in TransitionIds /\ TokenBefore(latest, t) \in Tokens
    BY <2>1, TokensArePaths DEF Tokens
  <2>3. r[t] = [s[t] EXCEPT !.token = TokenBefore(latest, t), !.transition_id = latest[t]]
    BY <1>6, <1>7
  <2> QED BY <2>1, <2>2, <2>3 DEF Infos
<1>8. ASSUME NEW t \in DOMAIN s, t \notin stop + 1 .. Len(latest)
      PROVE  r[t] = s[t] /\ r[t] \in Infos
  <2>1. r[t] = s[t]
    BY <1>6, <1>8
  <2>2. s[t] \in Infos
    BY <1>1
  <2> QED BY <2>1, <2>2
<1>9. DOMAIN r = DOMAIN s /\ \A t \in DOMAIN s : r[t] \in Infos /\ r[t].current_weight = s[t].current_weight
  BY <1>6, <1>7, <1>8
<1>10. r \in Seq(Infos) /\ Len(r) = Len(s)
  <2>1. DOMAIN s = 1 .. Len(s) /\ Len(s) \in Nat
    BY <1>1
  <2>2. r = [t \in 1 .. Len(s) |-> r[t]] /\ \A t \in 1 .. Len(s) : r[t] \in Infos
    <3>1. r = [t \in DOMAIN r |-> r[t]]
      BY <1>6
    <3> QED BY <1>9, <2>1, <3>1
  <2> QED BY <2>1, <2>2
<1>11. Follows(r, latest)
  <2> SUFFICES ASSUME NEW t \in DOMAIN s
               PROVE  IF t <= Len(latest)
                      THEN r[t].token = TokenBefore(latest, t) /\ r[t].transition_id \in TransitionIds
                      ELSE r[t].token = NoToken /\ r[t].transition_id = NoId
    BY <1>9 DEF Follows
  <2>1. t \in Nat /\ t >= 1
    BY <1>1
  <2>2. CASE t \in stop + 1 .. Len(latest)
    <3>1. t \in 1 .. Len(latest)
      BY <1>4, <2>2
    <3>2. latest[t] \in TransitionIds
      BY <3>1
    <3>3. r[t] = [token |-> TokenBefore(latest, t), transition_id |-> latest[t],
                  current_weight |-> s[t].current_weight]
      BY <1>7, <2>2
    <3>5. r[t].token = TokenBefore(latest, t) /\ r[t].transition_id = latest[t]
      BY ONLY <3>3
    <3>4. t <= Len(latest)
      BY <3>1
    <3> QED BY <3>2, <3>4, <3>5
  <2>3. CASE t \in 1 .. stop
    BY <1>4, <1>5, <1>8, <2>3
  <2>4. CASE t > Len(latest)
    <3>1. ~(t <= Len(path)) /\ ~(t <= Len(latest))
      BY <2>1, <2>4
    <3>2. s[t].token = NoToken /\ s[t].transition_id = NoId
      BY <1>2, <3>1 DEF Follows
    <3>3. r[t] = s[t]
      BY <1>8, <2>1, <2>4
    <3> QED BY <3>1, <3>2, <3>3
  <2> QED BY <1>4, <2>1, <2>2, <2>3, <2>4
<1>12. \A t : WeightOf(r, t) = WeightOf(info, t)
  BY <1>1, <1>9 DEF WeightOf
<1> QED BY <1>1, <1>10, <1>11, <1>12

\* A traceback along the path that the frames follow already changes nothing.
LEMMA TracebackAgain ==
  ASSUME NEW info \in Seq(Infos), NEW latest \in Seq(TransitionIds),
         Follows(info, latest), Len(latest) <= Len(info)
  PROVE  Traceback(info, latest) = info
<1> DEFINE s == Resized(info, Len(latest))
           known == {t \in 1 .. Len(latest) : s[t].token = TokenBefore(latest, t)}
           stop == Max(known \cup {0})
<1>1. s = info
  <2>1. /\ s \in Seq(Infos) /\ \A t \in DOMAIN info : s[t] = info[t]
        /\ Len(s) = IF Len(info) <= Len(latest) THEN Len(latest) ELSE Len(info)
    BY ResizedIs
  <2> HIDE DEF s
  <2>2. Len(s) = Len(info)
    BY <2>1
  <2> QED BY <2>1, <2>2
<1> HIDE DEF s
<1>2. known = 1 .. Len(latest)
  BY <1>1 DEF Follows
<1>3. stop = Len(latest)
  <2> DEFINE n == Len(latest)
             S == 1 .. n \cup {0}
  <2>1. n \in Nat
    OBVIOUS
  <2> HIDE DEF n
  <2>2. n \in S /\ \A x \in S : n >= x /\ x \in Int
    BY <2>1
  <2> HIDE DEF S
  <2>3. Max(S) \in S /\ \A x \in S : Max(S) >= x
    BY <2>2 DEF Max
  <2>4. Max(S) = n
    <3>1. Max(S) \in Int /\ n >= Max(S) /\ Max(S) >= n
      BY <2>2, <2>3
    <3> QED BY <2>1, <3>1
  <2> HIDE DEF known
  <2> QED BY <1>2, <2>4 DEF S, n
<1>4. Traceback(info, latest) =
        [t \in DOMAIN s |-> IF t \in stop + 1 .. Len(latest)
                            THEN [s[t] EXCEPT !.token = TokenBefore(latest, t),
                                              !.transition_id = latest[t]]
                            ELSE s[t]]
  BY DEF Traceback, TraceBackTo, s
<1> HIDE DEF stop, known
<1>5. \A t : t \notin stop + 1 .. Len(latest)
  BY <1>3
<1>6. Traceback(info, latest) = [t \in DOMAIN info |-> info[t]]
  BY <1>1, <1>4, <1>5
<1> QED BY <1>6

\* What the weights are meant to be depends on the transition-ids alone, and
\* not on frames that have none.
LEMMA MeantStays ==
  ASSUME NEW info, Len(info) \in Nat, DOMAIN info = 1 .. Len(info),
         NEW more, Len(more) \in Nat, DOMAIN more = 1 .. Len(more), DOMAIN info \subseteq DOMAIN more,
         \A t \in DOMAIN info : more[t].transition_id = info[t].transition_id,
         \A t \in DOMAIN more \ DOMAIN info : more[t].transition_id = NoId,
         NEW t \in DOMAIN info
  PROVE  MeantWeight(more, t) = MeantWeight(info, t)
<1> DEFINE decoded == {u \in 1 .. t : info[u].transition_id # NoId}
           m == Max(decoded)
<1>1. 1 .. t \subseteq DOMAIN info /\ t \in Nat
  OBVIOUS
<1>2. decoded = {u \in 1 .. t : more[u].transition_id # NoId}
  BY <1>1
<1>3. CASE decoded = {}
  BY <1>2, <1>3 DEF MeantWeight
<1>4. CASE decoded # {}
  <2>1. m \in decoded
    <3>1. IsFiniteSet(1 .. t)
      BY <1>1, FS_Interval
    <3>2. IsFiniteSet(decoded) /\ decoded \subseteq Int
      BY <3>1, FS_Subset
    <3> HIDE DEF decoded
    <3> QED BY <1>4, <3>2, GreatestOf
  <2>2. m \in DOMAIN info /\ info[m].transition_id # NoId
    BY <1>1, <2>1
  <2> HIDE DEF m
  <2>3. RunAround(more, m) = RunAround(info, m)
    <3>1. ASSUME NEW u \in RunAround(more, m) PROVE u \in RunAround(info, m)
      <4>1. u \in DOMAIN more /\ u \in u .. m \cup m .. u
        BY <2>2 DEF RunAround
      <4>2. more[u].transition_id = more[m].transition_id
        BY <4>1 DEF RunAround
      <4>3. u \in DOMAIN info
        BY <2>2, <4>1, <4>2
      <4> QED BY <2>2, <4>3 DEF RunAround
    <3>2. ASSUME NEW u \in RunAround(info, m) PROVE u \in RunAround(more, m)
      <4>1. u \in DOMAIN info
        BY DEF RunAround
      <4>2. ASSUME NEW v \in DOMAIN more, v \in u .. m \cup m .. u
            PROVE  more[v].transition_id = more[m].transition_id
        <5>1. v \in DOMAIN info
          BY <2>2, <4>1, <4>2
        <5> QED BY <2>2, <4>2, <5>1 DEF RunAround
      <4> QED BY <4>1, <4>2 DEF RunAround
    <3> QED BY <3>1, <3>2
  <2>4. more[m].transition_id = info[m].transition_id
    BY <2>2
  <2>5. IsDownweighted(more, m) <=> IsDownweighted(info, m)
    BY <2>3, <2>4 DEF IsDownweighted
  <2> QED BY <1>2, <1>4, <2>5 DEF MeantWeight, m
<1> QED BY <1>3, <1>4

\* Frames that follow a path are known up to its end.
LEMMA FollowsKnown ==
  ASSUME NEW info \in Seq(Infos), NEW path \in Seq(TransitionIds),
         Follows(info, path), Len(path) <= Len(info)
  PROVE  Known(info, Len(path))
<1>1. Len(path) \in 0 .. Len(info)
  OBVIOUS
<1>2. NoId \notin TransitionIds
  BY WeightingAssumption
<1> QED BY <1>1, <1>2 DEF Known, Follows

\* Every weight that is meant is one of the two.
LEMMA MeantIsInt ==
  \A info, t : /\ MeantWeight(info, t) \in {SilenceWeight, FullWeight}
               /\ MeantWeight(info, t) \in Int
BY WeightingAssumption DEF MeantWeight

\* What waits for a frame sums to an integer.
LEMMA PendingIsInt ==
  ASSUME NEW n, NEW Q, IsQueue(Q, n), NEW t
  PROVE  Pending(Q, t) \in Int
<1> DEFINE f == [p \in WaitingFor(Q, t) |-> p[2] * Q[p]]
<1>1. IsFiniteSet(DOMAIN f) /\ \A p \in DOMAIN f : f[p] \in Int
  BY WaitingIsFinite
<1> HIDE DEF f
<1>2. SumFunction(f) \in Int
  BY <1>1, SumOfSame
<1> QED BY <1>2 DEF Pending, f

-----------------------------------------------------------------------------
(***************************************************************************)
(* GetDeltaWeights() and UpdateFrameWeights() on frames that follow a      *)
(* path.                                                                   *)
(***************************************************************************)

\* The changes of weight of some frames,
MeantChanges(r, F) == {<<t, MeantWeight(r, t) - WeightOf(frame_info, t)>> : t \in F}

\* and the queue R of the changes in the queue Q and in D.
Joins(R, Q, D) ==
    /\ DOMAIN R = DOMAIN Q \cup D
    /\ \A p \in DOMAIN R : R[p] = (IF p \in DOMAIN Q THEN Q[p] ELSE 0) + (IF p \in D THEN 1 ELSE 0)

\* The greatest of the frames that have a weight and of those that get one.
LEMMA MostRecentIs ==
  ASSUME NEW n \in Nat, NEW m \in 0 .. n, NEW S \in SUBSET (1 .. n), n # 0 => n \in S
  PROVE  Max({m} \cup S) = n
<1> DEFINE T == {m} \cup S
<1>1. n \in T /\ \A x \in T : n >= x /\ x \in Int
  BY DEF T
<1> HIDE DEF T
<1>2. Max(T) \in T /\ \A x \in T : Max(T) >= x
  BY <1>1 DEF Max
<1>3. Max(T) \in Int /\ Max(T) >= n /\ n >= Max(T)
  BY <1>1, <1>2
<1> QED BY <1>3 DEF T

\* The frames that are ready get the weights that are meant, and the
\* differences go into the queue.
LEMMA FramesWeighed ==
  ASSUME ready \in Nat, most_recent_frame_with_weight \in 0 .. ready,
         frame_info \in Seq(Infos), IsQueue(delta_weights, Len(frame_info)),
         NEW info \in Seq(Infos), Len(frame_info) <= Len(info), Len(info) <= ready,
         \A t : WeightOf(info, t) = WeightOf(frame_info, t),
         NEW path \in Seq(TransitionIds), Follows(info, path), Len(path) <= Len(info),
         WeighFrames(info),
         NEW r, r = Resized(info, ready)
  PROVE  /\ frame_info' \in Seq(Infos) /\ Len(frame_info') = ready
         /\ Follows(frame_info', path)
         /\ \A t \in 1 .. ready :
              /\ frame_info'[t] = [r[t] EXCEPT !.current_weight = MeantWeight(r, t)]
              /\ MeantWeight(frame_info', t) = MeantWeight(r, t)
         /\ IsQueue(delta_weights', ready)
         /\ \A t : Pending(delta_weights', t) - WeightOf(frame_info', t)
                     = Pending(delta_weights, t) - WeightOf(frame_info, t)
         /\ \E F \in SUBSET (1 .. ready) :
              Joins(delta_weights', delta_weights, MeantChanges(r, F))
         /\ most_recent_frame_with_weight' = ready
<1> DEFINE w == FrameWeights(r)
           old == [t \in 1 .. ready |-> r[t].current_weight]
           new == [t \in 1 .. ready |-> MeantWeight(r, t)]
           F == {t \in DOMAIN r : w[t] # r[t].current_weight \/ t = Len(r)}
           D == {<<t, new[t] - old[t]>> : t \in F}
<1>1. /\ r \in Seq(Infos) /\ Len(r) = ready /\ DOMAIN r = 1 .. ready
      /\ \A t : WeightOf(r, t) = WeightOf(frame_info, t)
      /\ \A t \in DOMAIN info : r[t] = info[t]
  BY ResizedIs
<1>2. Follows(r, path) /\ Len(path) <= Len(r)
  BY <1>1, ResizedFollows
<1>3. w = new
  <2>1. Known(r, Len(path))
    BY <1>1, <1>2, FollowsKnown
  <2>2. Len(r) \in Nat /\ DOMAIN r = 1 .. Len(r) /\ (Len(r) = 0 => r = << >>)
    BY <1>1
  <2> HIDE DEF w
  <2>3. w = [t \in DOMAIN r |-> MeantWeight(r, t)]
    BY <2>1, <2>2, WeightsMeant DEF w
  <2> QED BY <1>1, <2>3
<1> HIDE DEF w
<1>4. frame_info' = [t \in 1 .. ready |-> [r[t] EXCEPT !.current_weight = new[t]]]
  BY <1>1, <1>3 DEF WeighFrames, Committed, w
<1>5. \A t \in 1 .. ready : r[t] \in Infos /\ MeantWeight(r, t) \in Int
  BY <1>1, MeantIsInt
<1>6. ASSUME NEW t \in 1 .. ready
      PROVE  /\ frame_info'[t] = [r[t] EXCEPT !.current_weight = MeantWeight(r, t)]
             /\ frame_info'[t] \in Infos
             /\ frame_info'[t].token = r[t].token
             /\ frame_info'[t].transition_id = r[t].transition_id
             /\ frame_info'[t].current_weight = MeantWeight(r, t)
  <2>1. frame_info'[t] = [r[t] EXCEPT !.current_weight = MeantWeight(r, t)]
    BY <1>4
  <2> QED BY <1>5, <2>1 DEF Infos
<1>7. frame_info' \in Seq(Infos) /\ Len(frame_info') = ready /\ DOMAIN frame_info' = 1 .. ready
  <2>1. DOMAIN frame_info' = 1 .. ready
    BY <1>4
  <2>2. frame_info' = [t \in 1 .. ready |-> frame_info'[t]]
    BY <1>4
  <2> QED BY <1>6, <2>1, <2>2
<1>8. Follows(frame_info', path)
  BY <1>1, <1>2, <1>6, <1>7 DEF Follows
<1>9. \A t \in 1 .. ready : MeantWeight(frame_info', t) = MeantWeight(r, t)
  <2>1. Len(r) \in Nat /\ DOMAIN r = 1 .. Len(r) /\ Len(frame_info') \in Nat
        /\ DOMAIN frame_info' = 1 .. Len(frame_info') /\ DOMAIN frame_info' = DOMAIN r
    BY <1>1, <1>7
  <2>2. \A t \in DOMAIN r : frame_info'[t].transition_id = r[t].transition_id
    BY <1>1, <1>6
  <2>3. \A t \in DOMAIN r : MeantWeight(frame_info', t) = MeantWeight(r, t)
    BY <2>1, <2>2, MeantStays
  <2> QED BY <1>1, <2>3
<1>10. /\ delta_weights' = delta_weights (+) SetToBag(D)
       /\ most_recent_frame_with_weight' =
            Max({most_recent_frame_with_weight} \cup {p[1] : p \in D})
  <2>1. DeltaWeights(r, w) = D
    <3>1. DeltaWeights(r, w) = {<<t, w[t] - r[t].current_weight>> : t \in F}
      BY DEF DeltaWeights, Changes
    <3>2. \A t \in F : w[t] - r[t].current_weight = new[t] - old[t]
      BY <1>1, <1>3
    <3> HIDE DEF F, new, old
    <3> QED BY <3>1, <3>2
  <2> HIDE DEF D
  <2> QED BY <2>1 DEF WeighFrames, UpdateFrameWeights, w
<1>11. /\ F \in SUBSET (1 .. ready)
       /\ \A t \in 1 .. ready : old[t] \in Int /\ new[t] \in Int
       /\ \A t \in 1 .. ready \ F : old[t] = new[t]
  <2>1. \A t \in 1 .. ready : old[t] \in Int
    BY <1>5 DEF Infos
  <2>2. \A t \in 1 .. ready : new[t] \in Int
    BY <1>5
  <2>3. \A t \in 1 .. ready \ F : old[t] = new[t]
    BY <1>1, <1>3
  <2> QED BY <1>1, <2>1, <2>2, <2>3
<1>12. most_recent_frame_with_weight' = ready
  <2> DEFINE S == {p[1] : p \in D}
  <2>1. S = F
    <3> DEFINE d(t) == new[t] - old[t]
    <3>1. D = {<<t, d(t)>> : t \in F}
      OBVIOUS
    <3> HIDE DEF F, new, old, D, d
    <3>2. \A t : <<t, d(t)>>[1] = t
      OBVIOUS
    <3> QED BY <3>1, <3>2
  <2>2. ready # 0 => ready \in F
    BY <1>1
  <2> HIDE DEF D, F
  <2>3. S \in SUBSET (1 .. ready) /\ (ready # 0 => ready \in S)
    BY <1>11, <2>1, <2>2
  <2> QED BY <1>10, <2>3, MostRecentIs
<1> HIDE DEF F
<1>13. /\ IsQueue(delta_weights', ready)
       /\ DOMAIN delta_weights' = DOMAIN delta_weights \cup D
       /\ \A p \in DOMAIN delta_weights' :
            delta_weights'[p] = (IF p \in DOMAIN delta_weights THEN delta_weights[p] ELSE 0)
                                  + (IF p \in D THEN 1 ELSE 0)
       /\ \A t : Pending(delta_weights', t)
                   = Pending(delta_weights, t) + Difference(old, new, ready, t)
  <2>1. Len(frame_info) \in Nat /\ Len(frame_info) <= ready
    OBVIOUS
  <2> HIDE DEF new, old
  <2> HIDE DEF D
  <2>3. D = Differences(old, new, F)
    BY DEF D, Differences
  <2>4. IsQueue(delta_weights, Len(frame_info)) /\ ready \in Nat
    OBVIOUS
  <2>5. delta_weights' = Queued(delta_weights, old, new, F)
    BY <1>10, <2>3 DEF Queued
  <2> DEFINE R == Queued(delta_weights, old, new, F)
             E == Differences(old, new, F)
  <2>6. IsQueue(delta_weights, ready) /\ ready \in Nat
    BY <2>1, <2>4, QueueOfMore
  <2>7. IsQueue(R, ready)
    BY ONLY <1>11, <2>6, ChangesQueued
  <2>8. /\ DOMAIN R = DOMAIN delta_weights \cup E
        /\ \A p \in DOMAIN R :
             R[p] = (IF p \in DOMAIN delta_weights THEN delta_weights[p] ELSE 0)
                      + (IF p \in E THEN 1 ELSE 0)
    <3>1. R = delta_weights (+) SetToBag(E)
      BY DEF Queued
    <3> HIDE DEF R, E
    <3> QED BY <3>1 DEF (+), SetToBag
  <2>9. ASSUME NEW t
        PROVE  Pending(R, t) = Pending(delta_weights, t) + Difference(old, new, ready, t)
    <3>1. \A s \in 1 .. ready \ F : old[s] = new[s]
      BY ONLY <1>11
    <3>2. \A s \in 1 .. ready : old[s] \in Int /\ new[s] \in Int
      BY ONLY <1>11
    <3>3. F \in SUBSET (1 .. ready)
      BY ONLY <1>11
    <3> HIDE DEF R
    <3>4. Pending(Queued(delta_weights, old, new, F), t)
            = Pending(delta_weights, t) + Difference(old, new, ready, t)
      BY ONLY <3>1, <3>2, <3>3, <2>6, ChangesPending
    <3> QED BY <3>4 DEF R
  <2> HIDE DEF R, E
  <2>10. delta_weights' = R /\ D = E
    BY <2>3, <2>5 DEF R, E
  <2> QED BY <2>7, <2>8, <2>9, <2>10
<1>14. \A t \in 1 .. ready : old[t] = WeightOf(frame_info, t)
  BY <1>1 DEF WeightOf
<1>15. \A t : Pending(delta_weights', t) - WeightOf(frame_info', t)
                = Pending(delta_weights, t) - WeightOf(frame_info, t)
  <2> SUFFICES ASSUME NEW t
               PROVE  Pending(delta_weights', t) - WeightOf(frame_info', t)
                        = Pending(delta_weights, t) - WeightOf(frame_info, t)
    OBVIOUS
  <2>1. Pending(delta_weights, t) \in Int
    BY PendingIsInt
  <2>2. CASE t \in 1 .. ready
    <3>1. old[t] \in Int /\ new[t] \in Int
      BY <1>11, <2>2
    <3>2. WeightOf(frame_info', t) = new[t]
      BY <1>6, <1>7, <2>2 DEF WeightOf
    <3>3. WeightOf(frame_info, t) = old[t]
      BY <1>14, <2>2
    <3>4. Pending(delta_weights', t) = Pending(delta_weights, t) + (new[t] - old[t])
      BY <1>13, <2>2 DEF Difference
    <3> HIDE DEF old, new
    <3> QED BY <2>1, <3>1, <3>2, <3>3, <3>4
  <2>3. CASE t \notin 1 .. ready
    <3>1. WeightOf(frame_info', t) = 0
      BY <1>7, <2>3 DEF WeightOf
    <3>2. WeightOf(frame_info, t) = 0
      <4>1. WeightOf(r, t) = 0
        BY <1>1, <2>3 DEF WeightOf
      <4> QED BY <1>1, <4>1
    <3>3. Pending(delta_weights', t) = Pending(delta_weights, t) + 0
      BY <1>13, <2>3 DEF Difference
    <3> QED BY <2>1, <3>1, <3>2, <3>3
  <2> QED BY <2>2, <2>3
<1>16. D = MeantChanges(r, F)
  <2>1. \A t \in F : new[t] - old[t] = MeantWeight(r, t) - WeightOf(frame_info, t)
    BY <1>11, <1>14
  <2> HIDE DEF new, old
  <2> QED BY <2>1 DEF MeantChanges
<1> HIDE DEF D
<1>17. Joins(delta_weights', delta_weights, D)
  BY <1>13 DEF Joins
<1>18. \E F_1 \in SUBSET (1 .. ready) : Joins(delta_weights', delta_weights, MeantChanges(r, F_1))
  BY <1>11, <1>16, <1>17
<1> QED BY <1>6, <1>7, <1>8, <1>9, <1>12, <1>13, <1>15, <1>18
-----------------------------------------------------------------------------
(***************************************************************************)
(* The inductive invariant of both programs.                               *)
(***************************************************************************)

\* Types and ranges; the two programs have their own steps.
TypesOk ==
    /\ program \in {"faster", "threaded"} /\ greedy \in BOOLEAN
    /\ program = "faster" => pc \in {"accept", "weigh", "advance", "update"}
    /\ program = "threaded" => pc \in {"accept", "more", "compute", "update", "flushed"}
    /\ ready \in 0 .. MaxFrames /\ finished \in BOOLEAN /\ idle \in BOOLEAN
    /\ consumed \in 0 .. ready
    /\ best \in Seq(TransitionIds) /\ Len(best) <= ready
    /\ frame_info \in Seq(Infos) /\ Len(frame_info) <= ready
    /\ until \in Nat /\ num_frames_stats \in 0 .. ready
    /\ most_recent_frame_with_weight \in 0 .. ready
    /\ applied \in [1 .. MaxFrames -> Int]

\* Only frames that have a weight are in the queue.
QueueOk == IsQueue(delta_weights, Len(frame_info))

\* ChangesAddUp, also for the frames that have no weight yet.
AddUp ==
    \A t \in 1 .. MaxFrames :
        applied[t] + Pending(delta_weights, t) = WeightOf(frame_info, t)

\* The frames have been traced back along a path.
Covered(path) == Len(path) <= Len(frame_info) /\ Follows(frame_info, path)

\* This is the best path that the decoder had at the last traceback, and no
\* longer than the one that it has now;
Tracking == \E path \in Seq(TransitionIds) : Len(path) <= Len(best) /\ Covered(path)

\* it is the present one except where the single-threaded program has decoded
\* since.
Traced == program = "threaded" \/ pc \in {"advance", "update"} => Covered(best)

\* After UpdateFrameWeights() all frames that are ready have a weight.
Weighed == pc \in {"advance", "compute"} => most_recent_frame_with_weight = ready

\* The iVectors' own features are ahead by what the pitch lags.
Lagging == lda_ready \in Nat /\ lda_ready - ready \in PitchLags \cup {0}

\* Only frames that are ready are asked for, unless greedy extraction asks for
\* those that the pitch lags behind; then the assertion has failed.
NoneMissing ==
    /\ failed \in {"none", "weight in range", "frame has a weight"}
    /\ IF failed = "frame has a weight" THEN greedy /\ lda_ready > ready ELSE until <= ready

\* AdvanceDecoding() never goes back.
Advancing == program = "faster" /\ pc = "update" => Decodable > Len(best)

Inv == /\ TypesOk /\ QueueOk /\ AddUp
       /\ Tracking /\ Traced /\ Weighed /\ Lagging /\ NoneMissing /\ Advancing

\* A step that leaves the frames, the queue and the statistics alone.
LEMMA BooksKept ==
  ASSUME Inv, UNCHANGED <<frame_info, delta_weights, applied>>
  PROVE  QueueOk' /\ AddUp'
BY DEF Inv, QueueOk, AddUp

\* One that leaves the frames and the best path alone.
LEMMA TrackKept ==
  ASSUME Inv, UNCHANGED <<frame_info, best>>
  PROVE  Tracking' /\ (Covered(best) => Covered(best)')
<1>1. ASSUME NEW path PROVE Covered(path)' <=> Covered(path)
  BY DEF Covered
<1>2. Covered(best)' <=> Covered(best)
  BY DEF Covered
<1> QED BY <1>1, <1>2 DEF Inv, Tracking

\* Numbers of frames are natural numbers.
LEMMA FramesAreNumbers ==
  ASSUME Inv
  PROVE  /\ ready \in Nat /\ Len(best) \in Nat /\ Len(frame_info) \in Nat
         /\ Len(best) <= ready /\ Len(frame_info) <= ready /\ ready <= MaxFrames
         /\ MaxFrames \in Nat /\ RightContext \in Nat
         /\ best \in Seq(TransitionIds) /\ frame_info \in Seq(Infos)
         /\ consumed \in Nat /\ consumed <= ready
BY ProgramAssumption DEF Inv, TypesOk

\* What can be decoded of the frames that are ready.
LEMMA DecodableIs ==
  ASSUME Inv
  PROVE  /\ Decodable \in Nat /\ Decodable <= ready
         /\ ~finished /\ Decodable > Len(best) => Decodable + RightContext = ready
<1>1. ready \in Nat /\ RightContext \in Nat /\ Len(best) \in Nat
  BY FramesAreNumbers
<1>2. Max({0, ready - RightContext}) = IF 0 <= ready - RightContext THEN ready - RightContext ELSE 0
  <2>1. 0 \in Int /\ ready - RightContext \in Int
    BY <1>1
  <2> QED BY <2>1, GreaterOf
<1> QED BY <1>1, <1>2 DEF Decodable

\* It holds at the start.
LEMMA InvInit == ASSUME Init PROVE Inv
<1> USE DEF Init
<1>1. TypesOk
  <2>1. program \in {"faster", "threaded"} /\ greedy \in BOOLEAN /\ MaxFrames \in Nat
    BY ProgramAssumption
  <2>2. best \in Seq(TransitionIds) /\ Len(best) = 0 /\ frame_info \in Seq(Infos) /\ Len(frame_info) = 0
    OBVIOUS
  <2>3. applied \in [1 .. MaxFrames -> Int]
    OBVIOUS
  <2>4. 0 \in 0 .. MaxFrames /\ 0 \in 0 .. 0
    BY <2>1
  <2>5. /\ pc = "accept" /\ ready = 0 /\ finished = FALSE /\ idle = FALSE /\ consumed = 0
        /\ until = 0 /\ num_frames_stats = 0 /\ most_recent_frame_with_weight = 0
        /\ 0 \in Nat
    OBVIOUS
  <2> HIDE DEF Init
  <2>6. Len(best) <= ready /\ Len(frame_info) <= ready
    BY <2>2, <2>5
  <2> QED BY <2>1, <2>2, <2>3, <2>4, <2>5, <2>6 DEF TypesOk
<1>2. QueueOk
  <2>1. DOMAIN delta_weights = {}
    BY DEF EmptyBag, SetToBag
  <2> QED BY <2>1, FS_EmptySet DEF QueueOk, IsQueue
<1>3. AddUp
  <2> SUFFICES ASSUME NEW t \in 1 .. MaxFrames
               PROVE  applied[t] + Pending(delta_weights, t) = WeightOf(frame_info, t)
    BY DEF AddUp
  <2>1. WaitingFor(delta_weights, t) = {}
    BY DEF WaitingFor, BagToSet, EmptyBag, SetToBag
  <2>2. Pending(delta_weights, t) = 0
    BY <1>2, <2>1, NothingPending DEF QueueOk
  <2>3. WeightOf(frame_info, t) = 0
    BY DEF WeightOf
  <2>4. applied[t] = 0
    OBVIOUS
  <2> QED BY <2>2, <2>3, <2>4
<1>4. Covered(<< >>)
  BY DEF Covered, Follows
<1>5. Tracking /\ Traced
  <2>1. << >> \in Seq(TransitionIds) /\ best = << >> /\ Len(<< >>) <= Len(best)
    OBVIOUS
  <2> QED BY <1>4, <2>1 DEF Tracking, Traced
<1>6. Weighed /\ Lagging /\ NoneMissing /\ Advancing
  BY DEF Weighed, Lagging, NoneMissing, Advancing
<1> QED BY <1>1, <1>2, <1>3, <1>5, <1>6 DEF Inv

\* Weighing frames that follow a path keeps the books and leaves them on it.
LEMMA WeighingKeeps ==
  ASSUME Inv, UNCHANGED <<ready, applied>>,
         NEW info \in Seq(Infos), Len(frame_info) <= Len(info), Len(info) <= ready,
         \A t : WeightOf(info, t) = WeightOf(frame_info, t),
         NEW path \in Seq(TransitionIds), Follows(info, path), Len(path) <= Len(info),
         WeighFrames(info)
  PROVE  /\ frame_info' \in Seq(Infos) /\ Len(frame_info)' = ready
         /\ QueueOk' /\ AddUp' /\ Covered(path)'
         /\ most_recent_frame_with_weight' = ready
         /\ \A t \in DOMAIN frame_info' :
              frame_info'[t].current_weight = MeantWeight(frame_info', t)
<1> DEFINE r == Resized(info, ready)
<1>1. /\ ready \in Nat /\ most_recent_frame_with_weight \in 0 .. ready
      /\ frame_info \in Seq(Infos) /\ IsQueue(delta_weights, Len(frame_info))
  BY FramesAreNumbers DEF Inv, TypesOk, QueueOk
<1>2. r = Resized(info, ready)
  OBVIOUS
<1>3. r \in Seq(Infos) /\ Len(r) = ready
  BY <1>1, ResizedIs
<1> HIDE DEF r
<1>4. /\ frame_info' \in Seq(Infos) /\ Len(frame_info') = ready
      /\ Follows(frame_info', path)
      /\ \A t \in 1 .. ready :
           /\ frame_info'[t] = [r[t] EXCEPT !.current_weight = MeantWeight(r, t)]
           /\ MeantWeight(frame_info', t) = MeantWeight(r, t)
      /\ IsQueue(delta_weights', ready)
      /\ \A t : Pending(delta_weights', t) - WeightOf(frame_info', t)
                  = Pending(delta_weights, t) - WeightOf(frame_info, t)
      /\ most_recent_frame_with_weight' = ready
  BY <1>1, <1>2, FramesWeighed
<1>5. QueueOk' /\ Covered(path)'
  BY <1>4 DEF QueueOk, Covered
<1>6. AddUp'
  <2> SUFFICES ASSUME NEW t \in 1 .. MaxFrames
               PROVE  applied'[t] + Pending(delta_weights', t) = WeightOf(frame_info', t)
    BY DEF AddUp
  <2>1. applied[t] + Pending(delta_weights, t) = WeightOf(frame_info, t) /\ applied[t] \in Int
    BY DEF Inv, AddUp, TypesOk
  <2>2. Pending(delta_weights, t) \in Int /\ Pending(delta_weights', t) \in Int
    BY <1>1, <1>4, PendingIsInt
  <2>3. WeightOf(frame_info, t) \in Int /\ WeightOf(frame_info', t) \in Int
    <3>1. \A info_1 \in Seq(Infos) : WeightOf(info_1, t) \in Int
      <4> SUFFICES ASSUME NEW f \in Seq(Infos) PROVE WeightOf(f, t) \in Int
        OBVIOUS
      <4>1. t \in DOMAIN f => f[t] \in Infos
        OBVIOUS
      <4> QED BY <4>1 DEF WeightOf, Infos
    <3> QED BY <1>1, <1>4, <3>1
  <2>4. Pending(delta_weights', t) - WeightOf(frame_info', t)
          = Pending(delta_weights, t) - WeightOf(frame_info, t)
    BY <1>4
  <2>5. applied'[t] = applied[t]
    OBVIOUS
  <2> DEFINE a == applied[t]
             p == Pending(delta_weights, t)
             q == Pending(delta_weights', t)
             v == WeightOf(frame_info, t)
             w == WeightOf(frame_info', t)
  <2>6. a \in Int /\ p \in Int /\ q \in Int /\ v \in Int /\ w \in Int /\ a + p = v /\ q - w = p - v
    BY <2>1, <2>2, <2>3, <2>4
  <2> HIDE DEF a, p, q, v, w
  <2>7. a + q = w
    BY ONLY <2>6
  <2> QED BY <2>5, <2>7 DEF a, q, w
<1>7. ASSUME NEW t \in DOMAIN frame_info'
      PROVE  frame_info'[t].current_weight = MeantWeight(frame_info', t)
  <2>1. t \in 1 .. ready
    BY <1>4
  <2>2. r[t] \in Infos
    BY <1>3, <2>1
  <2>3. frame_info'[t] = [r[t] EXCEPT !.current_weight = MeantWeight(r, t)]
    BY <1>4, <2>1
  <2>4. frame_info'[t].current_weight = MeantWeight(r, t)
    BY <2>2, <2>3 DEF Infos
  <2> QED BY <1>4, <2>1, <2>4
<1> QED BY <1>4, <1>5, <1>6, <1>7

(* The single-threaded program. *)

\* Ahead by a lag.
LEMMA AheadByLag ==
  ASSUME NEW m \in Nat, NEW l, \E lag \in PitchLags : l = m + lag
  PROVE  l \in Nat /\ l - m \in PitchLags
<1>1. PICK lag \in PitchLags : l = m + lag
  OBVIOUS
<1>2. lag \in Nat
  BY ProgramAssumption
<1>3. l \in Nat /\ l - m = lag
  BY <1>1, <1>2
<1> QED BY <1>3

\* More frames are ready.
LEMMA AcceptKeeps ==
  ASSUME Inv, failed = "none", NEW n \in ChunkFrames, Accept(n),
         UNCHANGED <<program, greedy, best, weighting, statistics>>,
         pc' \in {"weigh", "more"}, program = "faster" => pc' = "weigh",
         program = "threaded" => pc' = "more",
         finished' \in BOOLEAN, idle' \in BOOLEAN, consumed' = consumed
  PROVE  Inv'
<1> USE DEF weighting, statistics
<1>1. /\ n \in Nat /\ PitchLags \subseteq Nat /\ ready + n <= MaxFrames /\ ready' = ready + n
      /\ \E lag \in PitchLags : lda_ready' = ready' + lag
  BY ProgramAssumption DEF Accept
<1>2. ready \in Nat /\ MaxFrames \in Nat
  BY FramesAreNumbers
<1>3. ready' \in 0 .. MaxFrames /\ 0 .. ready \subseteq 0 .. ready' /\ ready <= ready'
  BY <1>1, <1>2
<1>4. TypesOk'
  <2>1. Len(best) <= ready' /\ Len(frame_info) <= ready'
    BY <1>1, <1>2, FramesAreNumbers
  <2> QED BY <1>3, <2>1 DEF Inv, TypesOk
<1>5. QueueOk' /\ AddUp'
  BY BooksKept
<1>6. Tracking' /\ Traced'
  BY TrackKept DEF Inv, Traced
<1>7. Lagging'
  <2>1. ready' \in Nat
    BY <1>1, <1>2
  <2>2. lda_ready' \in Nat /\ lda_ready' - ready' \in PitchLags
    BY <1>1, <2>1, AheadByLag
  <2> QED BY <2>2 DEF Lagging
<1>8. NoneMissing'
  <2>1. until \in Nat /\ until <= ready /\ failed' = "none" /\ until' = until
    BY DEF Inv, TypesOk, NoneMissing
  <2>2. until' <= ready'
    BY <1>1, <1>2, <2>1
  <2> QED BY <2>1, <2>2 DEF NoneMissing
<1>9. Weighed' /\ Advancing'
  BY DEF Weighed, Advancing
<1> QED BY <1>4, <1>5, <1>6, <1>7, <1>8, <1>9 DEF Inv

LEMMA AcceptChunkKeeps == ASSUME Inv, AcceptChunk PROVE Inv'
<1>1. PICK n \in ChunkFrames : Accept(n) /\ finished' \in BOOLEAN
  BY DEF AcceptChunk
<1>2. /\ program = "faster" /\ failed = "none" /\ pc' = "weigh" /\ idle' = idle /\ consumed' = consumed
      /\ UNCHANGED <<program, greedy, best, weighting, statistics>>
  BY DEF AcceptChunk, Faster
<1>3. idle \in BOOLEAN
  BY DEF Inv, TypesOk
<1> QED BY <1>1, <1>2, <1>3, AcceptKeeps

\* The frames are traced back and weighed.
LEMMA TraceAndWeighKeeps ==
  ASSUME Inv, TraceAndWeigh
  PROVE  /\ Inv'
         /\ \A t \in DOMAIN frame_info' :
              frame_info'[t].current_weight = MeantWeight(frame_info', t)
<1> USE DEF TraceAndWeigh, Faster, available, statistics
<1> DEFINE info == Traceback(frame_info, best)
<1>1. PICK path \in Seq(TransitionIds) : Len(path) <= Len(best) /\ Covered(path)
  BY DEF Inv, Tracking
<1>2. /\ info \in Seq(Infos)
      /\ Len(info) = IF Len(frame_info) <= Len(best) THEN Len(best) ELSE Len(frame_info)
      /\ Follows(info, best)
      /\ \A t : WeightOf(info, t) = WeightOf(frame_info, t)
  BY <1>1, FramesAreNumbers, TracebackFollows DEF Covered
<1> HIDE DEF info
<1>3. Len(frame_info) <= Len(info) /\ Len(best) <= Len(info) /\ Len(info) <= ready
  BY <1>2, FramesAreNumbers
<1>4. WeighFrames(info) /\ UNCHANGED <<ready, applied>>
  BY DEF info
<1>5. /\ frame_info' \in Seq(Infos) /\ Len(frame_info)' = ready
      /\ QueueOk' /\ AddUp' /\ Covered(best)'
      /\ most_recent_frame_with_weight' = ready
      /\ \A t \in DOMAIN frame_info' :
           frame_info'[t].current_weight = MeantWeight(frame_info', t)
  <2>1. best \in Seq(TransitionIds)
    BY FramesAreNumbers
  <2>2. \A path_1 : Covered(path_1)' <=> Len(path_1) <= Len(frame_info') /\ Follows(frame_info', path_1)
    BY DEF Covered
  <2>3. best' = best
    OBVIOUS
  <2> HIDE DEF TraceAndWeigh
  <2> QED BY <1>2, <1>3, <1>4, <2>1, <2>2, <2>3, WeighingKeeps DEF Covered
<1>6. TypesOk'
  <2>1. Len(frame_info') <= ready' /\ most_recent_frame_with_weight' \in 0 .. ready'
    BY <1>5, FramesAreNumbers
  <2> QED BY <1>5, <2>1 DEF Inv, TypesOk
<1>7. Tracking' /\ Traced'
  <2>1. best' \in Seq(TransitionIds) /\ Len(best') <= Len(best')
    BY FramesAreNumbers
  <2> QED BY <1>5, <2>1 DEF Tracking, Traced, Covered
<1>8. Weighed' /\ Lagging' /\ NoneMissing' /\ Advancing'
  BY <1>5 DEF Inv, Weighed, Lagging, NoneMissing, Advancing
<1> QED BY <1>5, <1>6, <1>7, <1>8 DEF Inv

\* Asking for a frame: it is ready, and has a weight, or it is one that the
\* pitch lags behind, and then the assertion fails.
LEMMA FrameAsked ==
  ASSUME Inv, pc \in {"advance", "compute"}, failed = "none", NEW frame \in 0 .. ready,
         GetFrames(frame), UNCHANGED <<greedy, available>>
  PROVE  /\ until' \in Nat /\ NoneMissing'
         /\ failed' = "none" => until' = IF greedy THEN ready ELSE frame
         /\ failed' \in {"none", "frame has a weight"}
         /\ UNCHANGED <<delta_weights, num_frames_stats, applied>>
<1> DEFINE asked == IF greedy THEN lda_ready ELSE frame
<1>1. /\ until' = asked
      /\ failed' = IF asked > most_recent_frame_with_weight THEN "frame has a weight" ELSE failed
      /\ UNCHANGED <<delta_weights, num_frames_stats, applied>>
  BY DEF GetFrames, UpdateStatsUntil
<1>2. most_recent_frame_with_weight = ready /\ ready \in Nat /\ lda_ready \in Nat
  BY FramesAreNumbers DEF Inv, Weighed, Lagging
<1>3. ready <= lda_ready
  <2>1. lda_ready - ready \in Nat
    <3>1. PitchLags \cup {0} \subseteq Nat
      BY ProgramAssumption
    <3> QED BY <3>1 DEF Inv, Lagging
  <2> QED BY <1>2, <2>1
<1>4. CASE asked > ready
  <2>1. greedy /\ lda_ready > ready
    BY <1>2, <1>4
  <2>2. failed' = "frame has a weight"
    BY <1>1, <1>2, <1>4
  <2> QED BY <1>1, <1>2, <2>1, <2>2 DEF NoneMissing, available
<1>5. CASE ~(asked > ready)
  <2>1. asked \in Nat /\ asked <= ready /\ (greedy => asked = ready)
    BY <1>2, <1>3, <1>5
  <2>2. failed' = "none"
    BY <1>1, <1>2, <1>5
  <2> QED BY <1>1, <1>2, <2>1, <2>2 DEF NoneMissing, available
<1> QED BY <1>4, <1>5

\* All frames are asked for.
LEMMA AdvanceDecodingKeeps ==
  ASSUME Inv, AdvanceDecoding
  PROVE  /\ Inv'
         /\ failed' = "none" => until' = ready
         /\ failed' \in {"none", "frame has a weight"}
         /\ UNCHANGED <<delta_weights, num_frames_stats, applied>>
<1> USE DEF AdvanceDecoding, Faster, available
<1>1. /\ until' \in Nat /\ NoneMissing' /\ (failed' = "none" => until' = ready)
      /\ failed' \in {"none", "frame has a weight"}
      /\ UNCHANGED <<delta_weights, num_frames_stats, applied>>
  <2>1. ready \in 0 .. ready
    BY FramesAreNumbers
  <2>2. /\ GetFrames(ready) /\ UNCHANGED <<greedy, available>>
        /\ pc \in {"advance", "compute"} /\ failed = "none"
    OBVIOUS
  <2> HIDE DEF AdvanceDecoding
  <2> QED BY <2>1, <2>2, FrameAsked
<1>2. TypesOk'
  BY <1>1 DEF Inv, TypesOk
<1>3. QueueOk' /\ AddUp'
  BY <1>1, BooksKept
<1>4. Tracking' /\ Traced'
  BY TrackKept DEF Inv, Traced
<1>5. Weighed' /\ Lagging' /\ Advancing'
  BY DEF Inv, Weighed, Lagging, Advancing, Decodable
<1> QED BY <1>1, <1>2, <1>3, <1>4, <1>5 DEF Inv

\* The statistics go on to the frame that was asked for.
LEMMA StatsUpdatedIs ==
  ASSUME Inv, StatsUpdated, failed = "none"
  PROVE  /\ num_frames_stats' \in 0 .. ready /\ until' = 0
         /\ num_frames_stats' = IF num_frames_stats <= until THEN until ELSE num_frames_stats
         /\ UNCHANGED <<delta_weights, applied, failed>>
<1>1. num_frames_stats \in 0 .. ready /\ until \in 0 .. ready
  BY FramesAreNumbers DEF Inv, TypesOk, NoneMissing
<1>2. Max({num_frames_stats, until}) = IF num_frames_stats <= until THEN until ELSE num_frames_stats
  BY <1>1, GreaterOf
<1> QED BY <1>1, <1>2 DEF StatsUpdated

\* The path that the frames follow is no longer than the new best path.
LEMMA DecodeFramesKeeps == ASSUME Inv, DecodeFrames PROVE Inv' /\ Len(best') = Decodable
<1> USE DEF DecodeFrames, Faster, available
<1>1. /\ num_frames_stats' \in 0 .. ready /\ until' = 0
      /\ UNCHANGED <<delta_weights, applied, failed>>
  BY StatsUpdatedIs
<1>2. Decodable \in Nat /\ Decodable <= ready /\ Len(best) < Decodable
  <2>1. Decodable > Len(best)
    BY DEF Inv, Advancing
  <2> QED BY <2>1, DecodableIs, FramesAreNumbers
<1>3. best' \in Seq(TransitionIds) /\ Len(best') = Decodable
  <2> DEFINE n == Decodable
  <2>1. best' \in [1 .. n -> TransitionIds] /\ n \in Nat
    BY <1>2 DEF Decode
  <2> HIDE DEF n
  <2>2. best' \in Seq(TransitionIds) /\ Len(best') = n
    BY <2>1
  <2> QED BY <2>2 DEF n
<1>4. TypesOk'
  <2>1. 0 \in 0 .. ready /\ Len(best') <= ready
    BY <1>2, <1>3, FramesAreNumbers
  <2> QED BY <1>1, <1>3, <2>1 DEF Inv, TypesOk
<1>5. QueueOk' /\ AddUp'
  BY <1>1, BooksKept
<1>6. Tracking' /\ Traced'
  <2>1. PICK path \in Seq(TransitionIds) : Len(path) <= Len(best) /\ Covered(path)
    BY DEF Inv, Tracking
  <2>2. Len(path) <= Len(best')
    <3>1. Len(path) \in Nat /\ Len(path) <= Len(best)
      BY <2>1
    <3> QED BY <1>2, <1>3, <3>1, FramesAreNumbers
  <2>3. Covered(path)'
    BY <2>1 DEF Covered
  <2> QED BY <2>2, <2>3 DEF Tracking, Traced
<1>7. Weighed' /\ Lagging' /\ Advancing'
  BY DEF Inv, Weighed, Lagging, Advancing
<1>8. NoneMissing'
  <2>1. failed' = "none" /\ ready' = ready /\ ready \in Nat
    BY <1>1, FramesAreNumbers
  <2> QED BY <1>1, <2>1 DEF NoneMissing
<1> QED BY <1>3, <1>4, <1>5, <1>6, <1>7, <1>8 DEF Inv

\* Nothing is decoded.
LEMMA DecodeNothingKeeps == ASSUME Inv, DecodeNothing PROVE Inv'
<1> USE DEF DecodeNothing, Faster, available, weighting, statistics
<1>1. TypesOk'
  BY DEF Inv, TypesOk
<1>2. QueueOk' /\ AddUp'
  BY BooksKept
<1>3. Tracking' /\ Traced'
  BY TrackKept DEF Traced
<1>4. Weighed' /\ Lagging' /\ NoneMissing' /\ Advancing'
  BY DEF Inv, Weighed, Lagging, NoneMissing, Advancing
<1> QED BY <1>1, <1>2, <1>3, <1>4 DEF Inv

(* The threaded program. *)

\* More frames are ready, at the end of the input too.
LEMMA AcceptPieceKeeps == ASSUME Inv, AcceptPiece \/ AcceptEnd PROVE Inv'
<1>1. PICK n \in ChunkFrames : Accept(n)
  BY DEF AcceptPiece, AcceptEnd
<1>2. /\ program = "threaded" /\ failed = "none" /\ pc' = "more" /\ idle' = FALSE
      /\ finished' \in {finished, TRUE} /\ consumed' = consumed
      /\ UNCHANGED <<program, greedy, best, weighting, statistics>>
  BY DEF AcceptPiece, AcceptEnd, Nnet
<1>3. finished \in BOOLEAN
  BY DEF Inv, TypesOk
<1> QED BY <1>1, <1>2, <1>3, AcceptKeeps

\* There is no input.
LEMMA AcceptNothingKeeps == ASSUME Inv, AcceptNothing PROVE Inv'
<1> USE DEF AcceptNothing, Nnet, available, weighting, statistics
<1>1. TypesOk'
  BY DEF Inv, TypesOk
<1>2. QueueOk' /\ AddUp'
  BY BooksKept
<1>3. Tracking' /\ Traced'
  BY TrackKept DEF Inv, Traced
<1>4. Weighed' /\ Lagging' /\ NoneMissing' /\ Advancing'
  BY DEF Inv, Weighed, Lagging, NoneMissing, Advancing
<1> QED BY <1>1, <1>2, <1>3, <1>4 DEF Inv

\* The frames are weighed as they were last traced back.
LEMMA WeighPiecesKeeps ==
  ASSUME Inv, WeighPieces
  PROVE  /\ Inv'
         /\ \A t \in DOMAIN frame_info' :
              frame_info'[t].current_weight = MeantWeight(frame_info', t)
<1> USE DEF WeighPieces, Nnet, input, available, statistics
<1>1. Covered(best)
  BY DEF Inv, Traced
<1>2. /\ frame_info' \in Seq(Infos) /\ Len(frame_info)' = ready
      /\ QueueOk' /\ AddUp' /\ Covered(best)'
      /\ most_recent_frame_with_weight' = ready
      /\ \A t \in DOMAIN frame_info' :
           frame_info'[t].current_weight = MeantWeight(frame_info', t)
  <2>1. best \in Seq(TransitionIds) /\ frame_info \in Seq(Infos) /\ Len(frame_info) <= Len(frame_info)
        /\ Len(frame_info) <= ready /\ WeighFrames(frame_info) /\ UNCHANGED <<ready, applied>>
    BY FramesAreNumbers
  <2>2. Follows(frame_info, best) /\ Len(best) <= Len(frame_info)
    BY <1>1 DEF Covered
  <2>3. best' = best
    OBVIOUS
  <2> HIDE DEF WeighPieces
  <2> QED BY <2>1, <2>2, <2>3, WeighingKeeps DEF Covered
<1>3. TypesOk'
  <2>1. Len(frame_info') <= ready' /\ most_recent_frame_with_weight' \in 0 .. ready'
    BY <1>2, FramesAreNumbers
  <2> QED BY <1>2, <2>1 DEF Inv, TypesOk
<1>4. Tracking' /\ Traced'
  <2>1. best' \in Seq(TransitionIds) /\ Len(best') <= Len(best')
    BY FramesAreNumbers
  <2> QED BY <1>2, <2>1 DEF Tracking, Traced, Covered
<1>5. Weighed' /\ Lagging' /\ NoneMissing' /\ Advancing'
  BY <1>2 DEF Inv, Weighed, Lagging, NoneMissing, Advancing
<1> QED BY <1>2, <1>3, <1>4, <1>5 DEF Inv

\* The next batch is of frames that are ready.
LEMMA RowsAreReady ==
  ASSUME Inv PROVE Rows \in Nat /\ consumed + Rows \in 0 .. ready
<1>1. consumed \in Nat /\ ready \in Nat /\ consumed <= ready
  BY FramesAreNumbers
<1>2. Usable \in Nat /\ consumed + Usable = ready
  BY <1>1 DEF Usable
<1>3. NnetBatchSize \in Nat
  BY ProgramAssumption
<1>4. Rows = IF Usable <= NnetBatchSize THEN Usable ELSE NnetBatchSize
  BY <1>2, <1>3, GreaterOf DEF Rows
<1> HIDE DEF Usable
<1> QED BY <1>1, <1>2, <1>3, <1>4

\* The frames of the batch are asked for.
LEMMA GetBatchKeeps == ASSUME Inv, GetBatch PROVE Inv'
<1> USE DEF GetBatch, Nnet, input, available
<1> DEFINE frame == consumed + Rows
<1>1. frame \in 0 .. ready
  BY RowsAreReady, FramesAreNumbers
<1>2. /\ until' \in Nat /\ NoneMissing'
      /\ UNCHANGED <<delta_weights, num_frames_stats, applied>>
  <2>1. /\ GetFrames(frame) /\ UNCHANGED <<greedy, available>>
        /\ pc \in {"advance", "compute"} /\ failed = "none"
    OBVIOUS
  <2> HIDE DEF GetBatch, frame
  <2> QED BY <1>1, <2>1, FrameAsked
<1> HIDE DEF frame
<1>4. TypesOk'
  BY <1>2 DEF Inv, TypesOk
<1>5. QueueOk' /\ AddUp'
  BY <1>2, BooksKept
<1>6. Tracking' /\ Traced'
  BY TrackKept DEF Inv, Traced
<1>7. Weighed' /\ Lagging' /\ Advancing'
  BY DEF Inv, Weighed, Lagging, Advancing
<1> QED BY <1>2, <1>4, <1>5, <1>6, <1>7 DEF Inv

\* The batch is consumed.
LEMMA ComputeBatchKeeps == ASSUME Inv, ComputeBatch PROVE Inv'
<1> USE DEF ComputeBatch, Nnet, available
<1>1. /\ num_frames_stats' \in 0 .. ready /\ until' = 0
      /\ UNCHANGED <<delta_weights, applied, failed>>
  BY StatsUpdatedIs
<1>2. TypesOk'
  <2>1. 0 \in 0 .. ready /\ consumed' \in 0 .. ready
    BY FramesAreNumbers, RowsAreReady
  <2> QED BY <1>1, <2>1 DEF Inv, TypesOk
<1>3. QueueOk' /\ AddUp'
  BY <1>1, BooksKept
<1>4. Tracking' /\ Traced'
  BY TrackKept DEF Inv, Traced
<1>5. Weighed' /\ Lagging' /\ Advancing'
  BY DEF Inv, Weighed, Lagging, Advancing
<1>6. NoneMissing'
  <2>1. failed' = "none" /\ ready' = ready /\ ready \in Nat
    BY <1>1, FramesAreNumbers
  <2> QED BY <1>1, <2>1 DEF NoneMissing
<1> QED BY <1>2, <1>3, <1>4, <1>5, <1>6 DEF Inv

\* There is no batch.
LEMMA NoBatchKeeps == ASSUME Inv, NoBatch PROVE Inv'
<1> USE DEF NoBatch, Nnet, input, available, weighting, statistics
<1>1. TypesOk'
  BY DEF Inv, TypesOk
<1>2. QueueOk' /\ AddUp'
  BY BooksKept
<1>3. Tracking' /\ Traced'
  BY TrackKept DEF Inv, Traced
<1>4. Weighed' /\ Lagging' /\ NoneMissing' /\ Advancing'
  BY DEF Inv, Weighed, Lagging, NoneMissing, Advancing
<1> QED BY <1>1, <1>2, <1>3, <1>4 DEF Inv

\* The best path grows by a frame, and the frames are traced back along it.
LEMMA SearchFrameKeeps == ASSUME Inv, SearchFrame PROVE Inv'
<1> USE DEF SearchFrame, input, available, statistics
<1>1. Len(best) < consumed
  <2>1. consumed \in Nat /\ RightContext \in Nat /\ Len(best) \in Nat
    BY FramesAreNumbers
  <2>2. Len(best) < consumed \/ Len(best) < consumed - RightContext
    OBVIOUS
  <2> QED BY <2>1, <2>2
<1>2. best' \in Seq(TransitionIds) /\ Len(best') = Len(best) + 1
  <2> DEFINE n == Len(best) + 1
  <2>1. best' \in [1 .. n -> TransitionIds] /\ n \in Nat
    BY FramesAreNumbers DEF Decode
  <2> HIDE DEF n
  <2>2. best' \in Seq(TransitionIds) /\ Len(best') = n
    BY <2>1
  <2> QED BY <2>2 DEF n
<1>3. Len(best') <= ready /\ Len(best) <= Len(best')
  BY <1>1, <1>2, FramesAreNumbers
<1>4. Covered(best)
  BY DEF Inv, Traced
<1>5. /\ frame_info' \in Seq(Infos)
      /\ Len(frame_info') = IF Len(frame_info) <= Len(best') THEN Len(best') ELSE Len(frame_info)
      /\ Follows(frame_info', best')
      /\ \A t : WeightOf(frame_info', t) = WeightOf(frame_info, t)
  <2>1. /\ best \in Seq(TransitionIds) /\ frame_info \in Seq(Infos)
        /\ Follows(frame_info, best) /\ Len(best) <= Len(frame_info)
        /\ frame_info' = Traceback(frame_info, best')
    BY <1>4, FramesAreNumbers DEF Covered
  <2> HIDE DEF SearchFrame
  <2> QED BY <1>2, <1>3, <2>1, TracebackFollows
<1>6. Len(best') <= Len(frame_info') /\ Len(frame_info') <= ready /\ Len(frame_info) <= Len(frame_info')
  BY <1>2, <1>3, <1>5, FramesAreNumbers
<1>7. TypesOk'
  BY <1>2, <1>3, <1>5, <1>6 DEF Inv, TypesOk
<1>8. QueueOk'
  <2>1. Len(frame_info) \in Nat /\ Len(frame_info') \in Nat /\ IsQueue(delta_weights, Len(frame_info))
    BY <1>5, FramesAreNumbers DEF Inv, QueueOk
  <2>2. IsQueue(delta_weights, Len(frame_info'))
    BY <1>6, <2>1, QueueOfMore
  <2> QED BY <2>2 DEF QueueOk
<1>9. AddUp'
  BY <1>5 DEF Inv, AddUp
<1>10. Tracking' /\ Traced'
  <2>1. Covered(best)'
    BY <1>5, <1>6 DEF Covered
  <2>2. Len(best') <= Len(best')
    BY <1>2, FramesAreNumbers
  <2> QED BY <1>2, <2>1, <2>2 DEF Tracking, Traced, Covered
<1>11. Weighed' /\ Lagging' /\ NoneMissing' /\ Advancing'
  BY DEF Inv, Weighed, Lagging, NoneMissing, Advancing
<1> QED BY <1>7, <1>8, <1>9, <1>10, <1>11 DEF Inv

(* Both. *)

\* A change goes from the queue into the statistics of its frame.
LEMMA PopChangeKeeps == ASSUME Inv, PopChange PROVE Inv'
<1>1. PICK p \in DOMAIN delta_weights :
         /\ delta_weights' = Popped(delta_weights, p)
         /\ applied' = [applied EXCEPT ![p[1]] = @ + p[2]]
         /\ failed' \in {failed, "weight in range"}
  BY DEF PopChange, BagToSet, Popped
<1>0. UNCHANGED <<program, greedy, pc, ready, lda_ready, finished, idle, consumed, best, frame_info,
                  most_recent_frame_with_weight, until, num_frames_stats>>
  BY DEF PopChange, input, available
<1> DEFINE n == Len(frame_info)
<1>2. n \in Nat /\ IsQueue(delta_weights, n)
  BY FramesAreNumbers DEF Inv, QueueOk
<1>3. p[1] \in 1 .. n /\ p[2] \in Int
  BY <1>2 DEF IsQueue
<1>4. p[1] \in 1 .. MaxFrames
  <2>1. n \in Nat /\ MaxFrames \in Nat /\ n <= MaxFrames
    BY FramesAreNumbers
  <2> HIDE DEF n
  <2> QED BY ONLY <1>3, <2>1
<1>5. /\ IsQueue(delta_weights', n)
      /\ Pending(delta_weights', p[1]) = Pending(delta_weights, p[1]) - p[2]
      /\ Pending(delta_weights, p[1]) \in Int
      /\ \A t : t # p[1] => Pending(delta_weights', t) = Pending(delta_weights, t)
  <2> DEFINE Q == delta_weights
             R == Popped(Q, p)
  <2>1. p \in DOMAIN Q /\ IsQueue(Q, n) /\ n \in Nat
    BY <1>2
  <2> HIDE DEF n, Q
  <2>2. IsQueue(R, n)
    BY ONLY <2>1, ChangePopped
  <2>3. Pending(R, p[1]) = Pending(Q, p[1]) - p[2] /\ Pending(Q, p[1]) \in Int
    BY ONLY <2>1, ChangePopped
  <2>4. \A t : t # p[1] => Pending(R, t) = Pending(Q, t)
    BY ONLY <2>1, ChangePopped
  <2> HIDE DEF R
  <2>5. delta_weights' = R
    BY <1>1 DEF R, Q
  <2> QED BY <2>2, <2>3, <2>4, <2>5 DEF Q
<1>6. applied \in [1 .. MaxFrames -> Int]
  BY DEF Inv, TypesOk
<1>7. TypesOk'
  <2>1. applied[p[1]] + p[2] \in Int
    <3>1. applied[p[1]] \in Int
      BY ONLY <1>4, <1>6
    <3> QED BY <1>3, <3>1
  <2>2. applied' \in [1 .. MaxFrames -> Int]
    BY <1>1, <1>6, <2>1
  <2> QED BY <1>0, <2>2 DEF Inv, TypesOk
<1>8. QueueOk'
  BY <1>0, <1>5 DEF QueueOk
<1>9. AddUp'
  <2> SUFFICES ASSUME NEW t \in 1 .. MaxFrames
               PROVE  applied'[t] + Pending(delta_weights', t) = WeightOf(frame_info, t)
    BY <1>0 DEF AddUp
  <2>1. applied[t] + Pending(delta_weights, t) = WeightOf(frame_info, t) /\ applied[t] \in Int
    BY <1>6 DEF Inv, AddUp
  <2>2. CASE t = p[1]
    <3>1. applied'[p[1]] = applied[p[1]] + p[2]
      <4>1. applied' = [applied EXCEPT ![p[1]] = @ + p[2]] /\ p[1] \in DOMAIN applied
        BY <1>1, <1>4, <1>6
      <4> QED BY ONLY <4>1
    <3>2. applied'[t] = applied[t] + p[2]
      BY <2>2, <3>1
    <3>3. Pending(delta_weights', t) = Pending(delta_weights, t) - p[2] /\ Pending(delta_weights, t) \in Int
      BY <1>5, <2>2
    <3> QED BY <1>3, <2>1, <3>2, <3>3
  <2>3. CASE t # p[1]
    <3>1. applied'[t] = applied[t]
      BY <1>1, <1>6, <2>3
    <3> QED BY <1>5, <2>1, <2>3, <3>1
  <2> QED BY <2>2, <2>3
<1>10. Tracking' /\ Traced'
  BY <1>0, TrackKept DEF Inv, Traced
<1>11. Weighed' /\ Lagging' /\ Advancing'
  BY <1>0, <1>1 DEF Inv, Weighed, Lagging, Advancing, Decodable
<1>12. NoneMissing'
  <2>1. failed = "none" /\ until <= ready
    BY DEF PopChange, Inv, NoneMissing
  <2> QED BY <1>0, <1>1, <2>1 DEF NoneMissing
<1> QED BY <1>7, <1>8, <1>9, <1>10, <1>11, <1>12 DEF Inv

\* So it holds after every step
LEMMA InvStep == ASSUME Inv, [Next]_vars PROVE Inv'
<1>1. CASE UNCHANGED vars
  <2> USE <1>1 DEF vars, input, available, weighting, statistics
  <2>1. TypesOk'
    BY DEF Inv, TypesOk
  <2>2. QueueOk' /\ AddUp'
    BY BooksKept
  <2>3. Tracking' /\ Traced'
    BY TrackKept DEF Inv, Traced
  <2>4. Weighed' /\ Lagging' /\ NoneMissing' /\ Advancing'
    BY DEF Inv, Weighed, Lagging, NoneMissing, Advancing, Decodable
  <2> QED BY <2>1, <2>2, <2>3, <2>4 DEF Inv
<1>2. CASE Next
  BY <1>2, AcceptChunkKeeps, TraceAndWeighKeeps, AdvanceDecodingKeeps, DecodeFramesKeeps,
     DecodeNothingKeeps, AcceptPieceKeeps, AcceptNothingKeeps, WeighPiecesKeeps, GetBatchKeeps,
     ComputeBatchKeeps, NoBatchKeeps, PopChangeKeeps, SearchFrameKeeps DEF Next
<1> QED BY <1>1, <1>2

\* and in every state.
THEOREM InvHolds == Spec => []Inv
BY InvInit, InvStep, PTL DEF Spec

-----------------------------------------------------------------------------
(***************************************************************************)
(* What the inductive invariant implies.                                   *)
(***************************************************************************)

\* TokensOfBestPath: although ComputeCurrentTraceback() stops at the first
\* frame whose token it knows, every frame up to the end of the best path has
\* the token of that path.
THEOREM TokensAreOfBestPath == Spec => []TokensOfBestPath
<1>1. ASSUME Inv PROVE TokensOfBestPath
  <2> SUFFICES ASSUME program = "threaded" \/ pc = "advance", NEW t \in 1 .. Len(best)
               PROVE  /\ frame_info[t].token = TokenBefore(best, t)
                      /\ frame_info[t].transition_id \in TransitionIds
    BY DEF TokensOfBestPath
  <2>1. Follows(frame_info, best) /\ Len(best) <= Len(frame_info)
    BY <1>1 DEF Inv, Traced, Covered
  <2>2. t \in DOMAIN frame_info /\ t <= Len(best)
    BY <1>1, <2>1, FramesAreNumbers
  <2> QED BY <2>1, <2>2 DEF Follows
<1> QED BY <1>1, InvHolds, PTL

\* ChangesAddUp: delta_weights_ and the statistics together hold each change
\* of a weight once, however often the decoder changes its mind.
THEOREM ChangesDoAddUp == Spec => []ChangesAddUp
<1>1. ASSUME Inv PROVE ChangesAddUp
  <2> SUFFICES ASSUME NEW t \in DOMAIN frame_info
               PROVE  applied[t] + Pending(delta_weights, t) = frame_info[t].current_weight
    BY DEF ChangesAddUp, Pending, WaitingFor
  <2>1. t \in 1 .. MaxFrames
    BY <1>1, FramesAreNumbers
  <2> QED BY <1>1, <2>1 DEF Inv, AddUp, WeightOf
<1> QED BY <1>1, InvHolds, PTL

\* WeightsAreMeant: the one pass of GetDeltaWeights() gives each frame the
\* weight that its transition-id and its whole run mean.
THEOREM WeightsAreAsMeant == Spec => WeightsAreMeant
<1> DEFINE Meant == \A t \in DOMAIN frame_info' :
                       frame_info'[t].current_weight = MeantWeight(frame_info', t)
           Weighing == pc' # pc /\ pc' \in {"advance", "compute"}
<1>1. ASSUME Inv, [Next]_vars PROVE Weighing => Meant
  <2> SUFFICES ASSUME Weighing PROVE Meant
    OBVIOUS
  <2>1. CASE TraceAndWeigh
    BY <1>1, <2>1, TraceAndWeighKeeps
  <2>2. CASE WeighPieces
    BY <1>1, <2>2, WeighPiecesKeeps
  <2>3. CASE AcceptChunk \/ AdvanceDecoding \/ DecodeFrames \/ DecodeNothing
    BY <2>3 DEF AcceptChunk, AdvanceDecoding, DecodeFrames, DecodeNothing, Faster
  <2>4. CASE AcceptPiece \/ AcceptEnd \/ AcceptNothing \/ GetBatch \/ ComputeBatch \/ NoBatch
    BY <2>4 DEF AcceptPiece, AcceptEnd, AcceptNothing, GetBatch, ComputeBatch, NoBatch, Nnet
  <2>5. CASE PopChange \/ SearchFrame \/ UNCHANGED vars
    BY <2>5 DEF PopChange, SearchFrame, vars
  <2> QED BY <1>1, <2>1, <2>2, <2>3, <2>4, <2>5 DEF Next
<1>2. ASSUME Inv, [Next]_vars PROVE [Weighing => Meant]_vars
  BY <1>1, <1>2
<1>3. Spec => [][Weighing => Meant]_vars
  BY <1>2, InvHolds, PTL DEF Spec
<1> QED BY <1>3 DEF WeightsAreMeant

-----------------------------------------------------------------------------
(***************************************************************************)
(* The assertion on the weights in the statistics: in the single-threaded  *)
(* program the pending changes of a frame are popped before the frame may  *)
(* be given another weight, so that they are one change.                   *)
(***************************************************************************)

\* silence_weight is a weight between 0 and 1.
IsFraction == SilenceWeight \in 0 .. FullWeight

\* Every frame has the weight that the best path means.
Settled ==
    /\ Covered(best)
    /\ \A t \in DOMAIN frame_info :
          frame_info[t].current_weight = MeantWeight(frame_info, t)

\* Of each frame, no more than one change is not by zero, and it waits once.
OneChange ==
    \A p \in DOMAIN delta_weights : p[2] # 0 =>
        /\ delta_weights[p] = 1
        /\ \A q \in DOMAIN delta_weights : q[1] = p[1] => q = p \/ q[2] = 0

\* When frames are about to be weighed, either no change is pending or the
\* weights of the frames that have one will not change.
Quiet == DOMAIN delta_weights = {} \/ Settled

InRange ==
    program = "faster" =>
        /\ failed # "weight in range"
        /\ \A t \in 1 .. MaxFrames : applied[t] \in 0 .. FullWeight
        /\ OneChange
        /\ pc \in {"advance", "update"} => Settled
        /\ pc = "weigh" \/ (pc = "accept" /\ ~finished) => Quiet
        /\ pc = "update" /\ failed = "none" => until = ready /\ (finished \/ num_frames_stats < ready)
        /\ ~finished => num_frames_stats <= Len(best) + RightContext

\* It holds at the start.
LEMMA InRangeInit == ASSUME IsFraction, Init PROVE InRange
<1>1. DOMAIN delta_weights = {}
  BY DEF Init, EmptyBag, SetToBag
<1>2. 0 \in 0 .. FullWeight /\ RightContext \in Nat
  BY WeightingAssumption, ProgramAssumption
<1>3. num_frames_stats <= Len(best) + RightContext
  BY <1>2 DEF Init
<1>4. \A t \in 1 .. MaxFrames : applied[t] \in 0 .. FullWeight
  BY <1>2 DEF Init
<1> QED BY <1>1, <1>3, <1>4 DEF Init, InRange, OneChange, Quiet

\* A step that leaves the frames and the best path alone.
LEMMA SettledKept ==
  ASSUME Settled, UNCHANGED <<frame_info, best>> PROVE Settled'
BY DEF Settled, Covered

\* One that also leaves the queue and the statistics alone.
LEMMA QuietKept ==
  ASSUME UNCHANGED <<frame_info, best, delta_weights>>
  PROVE  (Quiet => Quiet') /\ (OneChange => OneChange')
BY SettledKept DEF Quiet, OneChange

\* There was more input: nothing is pending, or the weights are settled.
LEMMA AcceptChunkInRange == ASSUME Inv, InRange, AcceptChunk PROVE InRange'
<1> USE DEF AcceptChunk, Faster, weighting, statistics
<1>1. Quiet' /\ OneChange'
  BY QuietKept DEF InRange
<1> QED BY <1>1 DEF InRange

\* Until the last frame, there is a frame that the statistics do not have.
LEMMA AdvanceDecodingInRange == ASSUME Inv, InRange, AdvanceDecoding PROVE InRange'
<1> USE DEF AdvanceDecoding, Faster, available
<1>1. /\ failed' = "none" => until' = ready
      /\ failed' \in {"none", "frame has a weight"}
      /\ UNCHANGED <<delta_weights, num_frames_stats, applied>>
  BY AdvanceDecodingKeeps
<1>2. OneChange' /\ Settled'
  BY <1>1, QuietKept, SettledKept DEF InRange
<1>3. finished \/ num_frames_stats < ready
  <2> SUFFICES ASSUME ~finished PROVE num_frames_stats < ready
    OBVIOUS
  <2>1. num_frames_stats <= Len(best) + RightContext /\ num_frames_stats \in Nat
    BY DEF InRange, Inv, TypesOk
  <2>2. Decodable \in Nat /\ Decodable > Len(best) /\ Decodable + RightContext = ready
    BY DecodableIs
  <2>3. Len(best) \in Nat /\ RightContext \in Nat /\ ready \in Nat
    BY FramesAreNumbers
  <2> HIDE DEF AdvanceDecoding
  <2> QED BY <2>1, <2>2, <2>3
<1> HIDE DEF AdvanceDecoding
<1>4. /\ pc' = "update" /\ UNCHANGED <<program, ready, finished, best, frame_info>>
      /\ \A t \in 1 .. MaxFrames : applied'[t] = applied[t]
  BY <1>1 DEF AdvanceDecoding
<1> QED BY <1>1, <1>2, <1>3, <1>4 DEF InRange

\* Until the last frame, all changes have been popped when the decoder goes on.
LEMMA DecodeFramesInRange == ASSUME Inv, InRange, DecodeFrames PROVE InRange'
<1> USE DEF DecodeFrames, Faster, available
<1>1. /\ num_frames_stats' = IF num_frames_stats <= until THEN until ELSE num_frames_stats
      /\ UNCHANGED <<delta_weights, applied, failed>>
      /\ \A p \in DOMAIN delta_weights : ~Due(p)
  BY StatsUpdatedIs DEF StatsUpdated, BagToSet
<1>2. OneChange'
  BY <1>1 DEF InRange, OneChange
<1>3. ASSUME ~finished
      PROVE  DOMAIN delta_weights = {} /\ num_frames_stats' <= Len(best') + RightContext
  <2>1. num_frames_stats < until /\ until = ready
    BY <1>3 DEF InRange
  <2>2. \A p \in DOMAIN delta_weights : p[1] <= until
    <3> SUFFICES ASSUME NEW p \in DOMAIN delta_weights PROVE p[1] <= until
      OBVIOUS
    <3>1. p[1] \in 1 .. Len(frame_info)
      BY DEF Inv, QueueOk, IsQueue
    <3>2. Len(frame_info) <= ready /\ ready \in Nat /\ Len(frame_info) \in Nat
      BY FramesAreNumbers
    <3> QED BY <2>1, <3>1, <3>2
  <2>3. DOMAIN delta_weights = {}
    BY <1>1, <2>1, <2>2 DEF Due
  <2>4. Decodable > Len(best)
    BY DEF Inv, Advancing
  <2>5. Len(best') + RightContext = ready
    BY <1>3, <2>4, DecodeFramesKeeps, DecodableIs
  <2>6. num_frames_stats' = ready /\ ready \in Nat
    BY <1>1, <2>1, FramesAreNumbers DEF Inv, TypesOk
  <2> QED BY <2>3, <2>5, <2>6
<1> QED BY <1>1, <1>2, <1>3 DEF InRange, Quiet

\* The best path is the same, so that the weights stay settled.
LEMMA DecodeNothingInRange == ASSUME Inv, InRange, DecodeNothing PROVE InRange'
<1> USE DEF DecodeNothing, Faster, available, weighting, statistics
<1>1. OneChange' /\ Settled'
  BY QuietKept, SettledKept DEF InRange
<1> QED BY <1>1 DEF InRange, Quiet

\* The one change of a frame that is not by zero brings the statistics to the
\* weight that the frame has.
LEMMA PopChangeInRange == ASSUME IsFraction, Inv, InRange, Inv', PopChange PROVE InRange'
<1> SUFFICES ASSUME program = "faster" PROVE InRange'
  BY DEF InRange, PopChange
<1>0. UNCHANGED <<program, greedy, pc, ready, lda_ready, finished, idle, consumed, best, frame_info,
                  most_recent_frame_with_weight, until, num_frames_stats>>
      /\ pc = "update"
  BY DEF PopChange, input, available
<1>1. PICK p \in DOMAIN delta_weights :
         /\ delta_weights' = Popped(delta_weights, p)
         /\ applied' = [applied EXCEPT ![p[1]] = @ + p[2]]
         /\ failed' = IF applied'[p[1]] \in 0 .. FullWeight THEN failed ELSE "weight in range"
  BY DEF PopChange, BagToSet, Popped
<1> DEFINE n == Len(frame_info)
           Q == delta_weights
           R == Popped(Q, p)
<1>2. n \in Nat /\ IsQueue(Q, n) /\ p \in DOMAIN Q
  BY FramesAreNumbers DEF Inv, QueueOk
<1>3. p[1] \in 1 .. n /\ p[1] \in 1 .. MaxFrames /\ p[2] \in Int
  <2>1. p[1] \in 1 .. n /\ p[2] \in Int
    BY <1>2 DEF IsQueue
  <2>2. n \in Nat /\ MaxFrames \in Nat /\ n <= MaxFrames
    BY FramesAreNumbers
  <2> HIDE DEF n
  <2> QED BY ONLY <2>1, <2>2
<1>4. OneChange
  BY DEF InRange
<1>5. /\ DOMAIN R \subseteq DOMAIN Q /\ (p \in DOMAIN R <=> Q[p] # 1)
      /\ \A q \in DOMAIN Q \ {p} : q \in DOMAIN R /\ R[q] = Q[q]
      /\ IsQueue(R, n)
  <2> HIDE DEF n, Q, R
  <2>1. DOMAIN R \subseteq DOMAIN Q
    BY ONLY <1>2, ChangePopped DEF R
  <2>2. p \in DOMAIN R <=> Q[p] # 1
    BY ONLY <1>2, ChangePopped DEF R
  <2>3. \A q \in DOMAIN Q \ {p} : q \in DOMAIN R /\ R[q] = Q[q]
    BY ONLY <1>2, ChangePopped DEF R
  <2>4. IsQueue(R, n)
    BY ONLY <1>2, ChangePopped DEF R
  <2> QED BY <2>1, <2>2, <2>3, <2>4
<1>6. delta_weights' = R
  BY <1>1
<1> HIDE DEF R
<1>7. OneChange'
  <2>1. ASSUME NEW q \in DOMAIN R, q[2] # 0
        PROVE  R[q] = 1 /\ \A s \in DOMAIN R : s[1] = q[1] => s = q \/ s[2] = 0
    <3>1. q \in DOMAIN Q /\ Q[q] = 1 /\ \A s \in DOMAIN Q : s[1] = q[1] => s = q \/ s[2] = 0
      BY <1>4, <1>5, <2>1 DEF OneChange
    <3>2. q # p
      BY <1>5, <2>1, <3>1
    <3> QED BY <1>5, <3>1, <3>2
  <2> QED BY <1>6, <2>1 DEF OneChange
<1>8. applied'[p[1]] \in 0 .. FullWeight
  <2>1. applied \in [1 .. MaxFrames -> Int] /\ applied[p[1]] \in 0 .. FullWeight
    BY <1>3 DEF Inv, TypesOk, InRange
  <2>2. CASE p[2] = 0
    <3>1. applied'[p[1]] = applied[p[1]] + 0
      BY <1>1, <1>3, <2>1, <2>2
    <3> QED BY <2>1, <3>1
  <2>3. CASE p[2] # 0
    <3>1. Q[p] = 1 /\ \A q \in DOMAIN Q : q[1] = p[1] => q = p \/ q[2] = 0
      BY <1>4, <2>3 DEF OneChange
    <3>2. \A q \in WaitingFor(R, p[1]) : q[2] = 0
      BY <1>5, <3>1 DEF WaitingFor, BagToSet
    <3>3. Pending(R, p[1]) = 0
      BY <1>5, <3>2, NothingPending
    <3>4. applied'[p[1]] + Pending(R, p[1]) = WeightOf(frame_info, p[1])
      BY <1>0, <1>3, <1>6 DEF Inv, AddUp
    <3>5. applied'[p[1]] \in Int
      BY <1>3 DEF Inv, TypesOk
    <3>6. WeightOf(frame_info, p[1]) = MeantWeight(frame_info, p[1])
      <4>1. p[1] \in DOMAIN frame_info
        BY <1>3, FramesAreNumbers
      <4>2. Settled
        BY <1>0 DEF InRange
      <4> QED BY <4>1, <4>2 DEF Settled, WeightOf
    <3>7. MeantWeight(frame_info, p[1]) \in 0 .. FullWeight
      BY MeantIsInt, WeightingAssumption DEF IsFraction
    <3>8. applied'[p[1]] = WeightOf(frame_info, p[1])
      BY <3>3, <3>4, <3>5
    <3> QED BY <3>6, <3>7, <3>8
  <2> QED BY <2>2, <2>3
<1>9. \A t \in 1 .. MaxFrames : applied'[t] \in 0 .. FullWeight
  <2> SUFFICES ASSUME NEW t \in 1 .. MaxFrames PROVE applied'[t] \in 0 .. FullWeight
    OBVIOUS
  <2>1. applied \in [1 .. MaxFrames -> Int] /\ applied[t] \in 0 .. FullWeight
    BY DEF Inv, TypesOk, InRange
  <2>2. CASE t = p[1]
    BY <1>8, <2>2
  <2>3. CASE t # p[1]
    BY <1>1, <2>1, <2>3
  <2> QED BY <2>2, <2>3
<1>10. failed' = "none" /\ failed = "none"
  BY <1>1, <1>8 DEF PopChange
<1>11. Settled'
  BY <1>0, SettledKept DEF InRange
<1> QED BY <1>0, <1>7, <1>9, <1>10, <1>11 DEF InRange

\* Weighing gives each frame at most one change that is not by zero.
LEMMA TraceAndWeighInRange == ASSUME Inv, InRange, TraceAndWeigh PROVE InRange'
<1> DEFINE info == Traceback(frame_info, best)
           r == Resized(info, ready)
           Q == delta_weights
           n == Len(frame_info)
<1>0. /\ program = "faster" /\ pc = "weigh" /\ pc' = "advance" /\ WeighFrames(info)
      /\ UNCHANGED <<program, ready, finished, best, until, num_frames_stats, applied, failed>>
  BY DEF TraceAndWeigh, Faster, available, statistics
<1>1. PICK path \in Seq(TransitionIds) : Len(path) <= Len(best) /\ Covered(path)
  BY DEF Inv, Tracking
<1>2. /\ info \in Seq(Infos)
      /\ Len(info) = IF Len(frame_info) <= Len(best) THEN Len(best) ELSE Len(frame_info)
      /\ Follows(info, best)
      /\ \A t : WeightOf(info, t) = WeightOf(frame_info, t)
  BY <1>1, FramesAreNumbers, TracebackFollows DEF Covered
<1>3. IsQueue(Q, n) /\ n \in Nat
  BY FramesAreNumbers DEF Inv, QueueOk
<1>4. PICK F \in SUBSET (1 .. ready) : Joins(delta_weights', delta_weights, MeantChanges(r, F))
  <2>1. Len(frame_info) <= Len(info) /\ Len(best) <= Len(info) /\ Len(info) <= ready
    BY <1>2, FramesAreNumbers
  <2>2. /\ ready \in Nat /\ most_recent_frame_with_weight \in 0 .. ready
        /\ frame_info \in Seq(Infos) /\ IsQueue(delta_weights, Len(frame_info))
        /\ best \in Seq(TransitionIds)
    BY FramesAreNumbers DEF Inv, TypesOk, QueueOk
  <2>3. r = Resized(info, ready)
    OBVIOUS
  <2> HIDE DEF info, r
  <2> QED BY <1>0, <1>2, <2>1, <2>2, <2>3, FramesWeighed
<1> DEFINE d(t) == MeantWeight(r, t) - WeightOf(frame_info, t)
           D == {<<t, d(t)>> : t \in F}
           R == delta_weights'
<1>5. /\ DOMAIN R = DOMAIN Q \cup D
      /\ \A p \in DOMAIN R : R[p] = (IF p \in DOMAIN Q THEN Q[p] ELSE 0) + (IF p \in D THEN 1 ELSE 0)
  BY <1>4 DEF Joins, MeantChanges
<1>6. \A p \in D : p[1] \in 1 .. ready /\ p[2] = d(p[1]) /\ p = <<p[1], p[2]>>
  <2> HIDE DEF d
  <2> QED OBVIOUS
<1>7. \A p, q \in D : p[1] = q[1] => p = q
  BY <1>6
<1>8. Settled'
  BY <1>0, TraceAndWeighKeeps DEF Inv, Traced, Settled
<1>9. ASSUME DOMAIN Q # {}, NEW t \in 1 .. n PROVE d(t) = 0
  <2>1. Settled
    BY <1>0, <1>9 DEF InRange, Quiet
  <2>2. info = frame_info
    BY <2>1, FramesAreNumbers, TracebackAgain DEF Settled, Covered
  <2>3. /\ r \in Seq(Infos) /\ n <= Len(r)
        /\ \A u \in DOMAIN frame_info : r[u] = frame_info[u]
        /\ \A u \in DOMAIN r \ DOMAIN frame_info : r[u] = FrameInfo
    BY <2>2, FramesAreNumbers, ResizedIs
  <2>4. t \in DOMAIN frame_info
    BY <1>9, FramesAreNumbers
  <2> HIDE DEF r
  <2>5. /\ Len(frame_info) \in Nat /\ DOMAIN frame_info = 1 .. Len(frame_info)
        /\ Len(r) \in Nat /\ DOMAIN r = 1 .. Len(r) /\ DOMAIN frame_info \subseteq DOMAIN r
        /\ \A u \in DOMAIN frame_info : r[u].transition_id = frame_info[u].transition_id
        /\ \A u \in DOMAIN r \ DOMAIN frame_info : r[u].transition_id = NoId
    BY <1>3, <2>3, FramesAreNumbers DEF FrameInfo
  <2>6. MeantWeight(r, t) = MeantWeight(frame_info, t)
    BY <2>4, <2>5, MeantStays
  <2>7. WeightOf(frame_info, t) = MeantWeight(frame_info, t)
    BY <2>1, <2>4 DEF Settled, WeightOf
  <2>8. MeantWeight(frame_info, t) \in Int
    BY MeantIsInt
  <2> QED BY <2>6, <2>7, <2>8
<1> HIDE DEF d, D, info, r
<1>10. OneChange'
  <2>1. OneChange
    BY <1>0 DEF InRange
  <2>2. \A p \in DOMAIN Q : p[1] \in 1 .. n
    BY <1>3 DEF IsQueue
  <2>3. \A p \in D : p[2] # 0 => p[1] \notin 1 .. n \/ DOMAIN Q = {}
    BY <1>6, <1>9
  <2>4. ASSUME NEW p \in DOMAIN R, p[2] # 0
        PROVE  R[p] = 1 /\ \A q \in DOMAIN R : q[1] = p[1] => q = p \/ q[2] = 0
    <3>1. CASE p \in DOMAIN Q
      <4>1. p \notin D
        BY <2>2, <2>3, <2>4, <3>1
      <4>2. Q[p] = 1 /\ \A q \in DOMAIN Q : q[1] = p[1] => q = p \/ q[2] = 0
        BY <2>1, <2>4, <3>1 DEF OneChange
      <4>3. R[p] = 1
        BY <1>5, <3>1, <4>1, <4>2
      <4>4. \A q \in D : q[1] = p[1] => q[2] = 0
        BY <2>2, <2>3, <3>1
      <4> QED BY <1>5, <4>2, <4>3, <4>4
    <3>2. CASE p \notin DOMAIN Q
      <4>1. p \in D
        BY <1>5, <2>4, <3>2
      <4>2. R[p] = 1
        BY <1>5, <3>2, <4>1
      <4>3. \A q \in DOMAIN Q : q[1] # p[1]
        BY <2>2, <2>3, <2>4, <4>1
      <4> QED BY <1>5, <1>7, <4>1, <4>2, <4>3
    <3> QED BY <3>1, <3>2
  <2> QED BY <2>4 DEF OneChange
<1> QED BY <1>0, <1>8, <1>10 DEF InRange

\* So it holds after every step.
LEMMA InRangeStep ==
  ASSUME IsFraction, Inv, InRange, Inv', [Next]_vars PROVE InRange'
<1>1. CASE UNCHANGED vars
  <2>1. OneChange' = OneChange /\ Settled' = Settled /\ Quiet' = Quiet
    BY <1>1 DEF vars, input, available, weighting, statistics, OneChange, Settled, Quiet, Covered
  <2> QED BY <1>1, <2>1 DEF vars, input, available, weighting, statistics, InRange
<1>2. CASE Next /\ program = "faster"
  <2>1. AcceptChunk \/ TraceAndWeigh \/ AdvanceDecoding \/ DecodeFrames \/ DecodeNothing \/ PopChange
    BY <1>2 DEF Next, AcceptPiece, AcceptEnd, AcceptNothing, WeighPieces, GetBatch, ComputeBatch,
                NoBatch, Nnet, SearchFrame
  <2> QED BY <2>1, AcceptChunkInRange, TraceAndWeighInRange, AdvanceDecodingInRange,
             DecodeFramesInRange, DecodeNothingInRange, PopChangeInRange
<1>3. CASE Next /\ program # "faster"
  <2>1. program' = program
    BY <1>3 DEF Next, AcceptChunk, TraceAndWeigh, AdvanceDecoding, DecodeFrames, DecodeNothing, Faster,
                AcceptPiece, AcceptEnd, AcceptNothing, WeighPieces, GetBatch, ComputeBatch, NoBatch,
                Nnet, SearchFrame, PopChange
  <2> QED BY <1>3, <2>1 DEF InRange
<1> QED BY <1>1, <1>2, <1>3

\* AssertionsHold, for every silence_weight between 0 and 1: the assertion on
\* the weights in the statistics never fails in the single-threaded program,
\* and that a frame has a weight fails in neither, unless greedy extraction
\* asks for frames that the pitch lags behind.
THEOREM AssertionsDoHold == ASSUME IsFraction PROVE Spec => []AssertionsHold
<1>1. IsFraction
  OBVIOUS
<1>2. Init => InRange
  BY <1>1, InRangeInit
<1>3. Inv /\ Inv' /\ InRange /\ [Next]_vars => InRange'
  BY <1>1, InRangeStep
<1>4. Spec => []InRange
  BY <1>2, <1>3, InvHolds, PTL DEF Spec
<1>5. Inv /\ InRange => AssertionsHold
  BY DEF Inv, TypesOk, NoneMissing, InRange, AssertionsHold
<1> QED BY <1>4, <1>5, InvHolds, PTL

\* FramesHaveWeights, when no pitch is added: with and without greedy
\* extraction, in both programs, no frame is asked for that GetDeltaWeights()
\* has not weighed.
THEOREM FramesDoHaveWeights == ASSUME PitchLags = {0} PROVE Spec => []FramesHaveWeights
<1>1. PitchLags = {0}
  OBVIOUS
<1>2. ASSUME Inv PROVE FramesHaveWeights
  <2>1. lda_ready - ready = 0 /\ lda_ready \in Nat /\ ready \in Nat
    BY <1>1, <1>2, FramesAreNumbers DEF Inv, Lagging
  <2>2. ~(lda_ready > ready)
    BY <2>1
  <2> QED BY <1>2, <2>2 DEF Inv, NoneMissing, FramesHaveWeights
<1> QED BY <1>2, InvHolds, PTL
=============================================================================
