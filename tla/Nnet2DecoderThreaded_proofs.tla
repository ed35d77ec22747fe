-------------------- MODULE Nnet2DecoderThreaded_proofs ---------------------
(***************************************************************************)
(* Proofs about the decoding of one utterance by three threads, for every  *)
(* waveform, batch size, right context and place of an exception: the      *)
(* worker threads agree on the frames, no sample of the waveform is lost,  *)
(* all of it is decoded unless somebody aborts, error_ is set by an        *)
(* exception only, and no synchronizer has both its threads waiting.       *)
(*                                                                         *)
(* Four invariants, each proved with the help of those before it:          *)
(*   Control   where each thread is in its code and in the synchronizers,  *)
(*             and who knows of an abort                                   *)
(*   Frames    how far each stage is, counted in frames                    *)
(*   Waiting   the permits of the decodable synchronizer                   *)
(*   Waveform  where the samples are, and what the end of the input means  *)
(* error_ is the one that needs a hypothesis (LongEnough): Flush() throws  *)
(* when an utterance is not longer than the right context.                 *)
(***************************************************************************)
EXTENDS Nnet2DecoderThreaded, SequenceTheorems, FiniteSetTheorems, TLAPS

Workers == {"nnet", "search"}

\* Inside Lock(), or Lock() has returned; inside an unlock, or it has.
InLock == {"wait", "retest", "lock", "tested", "locked", "refused"}
InUnlock == {"unlock", "return", "outside", "refused"}
Outside == {"outside", "refused"}

MainLocks == {"accept", "pending", "finish"}
MainPlaces == MainLocks \cup {"idle", "unlock", "terminate", "join", "decoder",
                              "features", "finalize", "destroy", "gone"}
NnetFeatures == {"top", "wave", "taken", "take"}
NnetGives == {"give", "retry", "given"}
NnetFailed == {"false", "threw"}
NnetPlaces == NnetFeatures \cup NnetGives \cup NnetFailed \cup {"finish", "finished", "exit"}
SearchPlaces == {"top", "lock", "decoded", "unlock", "last", "false", "threw", "exit"}
AbortPlaces == {"no", "wave_flag", "wave_signal", "loglikes_flag", "loglikes_signal"}

ControlType ==
    /\ main \in [pc : MainPlaces, dim : Nat, terminated : BOOLEAN]
    /\ nnet.pc \in NnetPlaces
    /\ search.pc \in SearchPlaces
    /\ joined \subseteq Workers
    /\ abort \in BOOLEAN
    /\ aborting \in [{"main", "nnet", "search"} -> AbortPlaces]
    /\ WS!SyncTypeOK
    /\ DS!SyncTypeOK

\* An abort begins with abort_; whoever is refused was refused because of it.
AbortKnown ==
    /\ \A t \in {"main", "nnet", "search"} : aborting[t] # "no" => abort
    /\ \A t \in {"main", "nnet", "search"} : aborting[t] = "loglikes_signal" => dabort
    /\ wabort => abort
    /\ dabort => abort
    /\ \A t \in {"producer", "consumer"} : wat[t] = "refused" => wabort
    /\ \A t \in {"producer", "consumer"} : dat[t] = "refused" => dabort
    /\ nnet.pc = "false" => abort
    /\ search.pc = "false" => abort

\* Where the threads are in their code is where they are in the synchronizers.
Places ==
    /\ main.pc \in MainLocks => wat["producer"] \in InLock
    /\ main.pc = "unlock" => wat["producer"] \in InUnlock
    /\ main.pc \notin MainLocks \cup {"unlock"} => wat["producer"] \in Outside
    /\ nnet.pc = "wave" => wat["consumer"] \in InLock
    /\ nnet.pc = "taken" => wat["consumer"] \in InUnlock
    /\ nnet.pc \in {"give", "finish"} => dat["producer"] \in InLock
    /\ nnet.pc \in {"retry", "given", "finished"} => dat["producer"] \in InUnlock
    /\ search.pc = "lock" => dat["consumer"] \in InLock
    /\ search.pc = "decoded" => dat["consumer"] = "locked"
    /\ "nnet" \in joined => nnet.pc = "exit"
    /\ "search" \in joined => search.pc = "exit"

Control == ControlType /\ AbortKnown /\ Places

-----------------------------------------------------------------------------
FramesType ==
    /\ pipe \in [samples : Nat, finished : BOOLEAN]
    /\ nnet \in [pc : NnetPlaces, consumed : Nat, output : Nat, rows : Nat,
                 last : BOOLEAN, thrown : BOOLEAN]
    /\ decodable \in [offset : Nat, rows : Nat, finished : BOOLEAN]
    /\ search \in [pc : SearchPlaces, frames : Nat, thrown : BOOLEAN]
    /\ num_frames_decoded \in Nat

\* The rows that the nnet thread has computed and not given yet.
Computed == IF nnet.pc \in {"give", "retry"} THEN nnet.rows ELSE 0

\* What is published is what is decoded, except for a batch of frames before
\* SearchPublish and after an exception; what the nnet thread has computed is what
\* its input gives.
Counted ==
    /\ decodable.offset <= num_frames_decoded
    /\ num_frames_decoded <= search.frames
    /\ search.pc # "decoded" /\ ~search.thrown => num_frames_decoded = search.frames
    /\ search.frames <= num_frames_decoded + DecodeBatchSize
    /\ search.thrown => search.pc \in {"threw", "exit"}
    /\ search.frames <= NumLoglikesReady
    /\ nnet.output = NumLoglikesReady
    /\ nnet.output <= nnet.consumed
    /\ nnet.consumed <= NumFramesReady
    /\ nnet.pc \in NnetFeatures \cup NnetGives /\ ~nnet.last =>
         nnet.output + Computed = OutputFrames(nnet.consumed)

\* The end of the features, of the log-likelihoods and of the search.
Ended ==
    /\ nnet.pc = "wave" => ~pipe.finished
    /\ nnet.pc \in NnetFeatures => ~nnet.last
    /\ nnet.pc \in {"finish", "finished"} => nnet.last
    /\ nnet.last => pipe.finished /\ nnet.consumed = NumFramesReady
    /\ nnet.last /\ nnet.pc \notin NnetFailed \cup {"exit"} =>
         nnet.output + Computed = nnet.consumed
    /\ decodable.finished =>
         /\ nnet.last /\ nnet.output = nnet.consumed
         /\ nnet.pc \in {"finished", "exit"} \cup NnetFailed
    /\ nnet.pc = "exit" /\ ~abort => decodable.finished
    /\ nnet.pc = "finished" => decodable.finished
    /\ search.pc = "last" \/ (search.pc = "exit" /\ ~abort) =>
         decodable.finished /\ search.frames = NumLoglikesReady

Frames == FramesType /\ Counted /\ Ended

-----------------------------------------------------------------------------
\* One permit for each side of the decodable synchronizer until an abort adds
\* more: in its semaphore, with the thread, or lost to its flag.
Permit(t) == dsemaphore[t] + (IF dat[t] \in {"retest", "lock", "tested", "locked"} THEN 1 ELSE 0)
               + (IF dwaiting[t] THEN 1 ELSE 0)

Permits ==
    \A t \in {"producer", "consumer"} :
        /\ ~dabort => Permit(t) = 1
        /\ dat[t] \in {"lock", "tested", "locked"} => ~dwaiting[t]

Waiting ==
    /\ Permits
    /\ dwaiting["consumer"] => nnet.output = num_frames_decoded
    /\ dwaiting["producer"] => nnet.output - num_frames_decoded > MaxLoglikesCopy
    /\ ~wwaiting["producer"]

-----------------------------------------------------------------------------
WaveType ==
    wave \in [input : Seq(Nat), processed : Seq(Nat), received : Nat,
              discarded : Nat, finished : BOOLEAN]

\* All that was received is stored or discarded, unless main was refused with
\* a piece in its hands: then it is refused for ever.
Received ==
    \/ wave.discarded + Stored + (IF main.pc = "accept" THEN main.dim ELSE 0) = wave.received
    \/ wabort /\ wat["producer"] = "refused" /\ ~wave.finished

Waveform ==
    /\ WaveType
    /\ pipe.samples = wave.discarded + Sum(wave.processed)
    /\ wave.discarded <= Shift * num_frames_decoded
    /\ Received
    /\ main.pc \in {"accept", "finish"} => ~wave.finished
    /\ main.pc = "finish" => wave.received >= MinSamples
    /\ wave.finished => wave.received >= MinSamples
    /\ pipe.finished => wave.finished /\ wave.input = <<>>

\* An utterance longer than the right context.
LongEnough == NumFrames(MinSamples) > RightContext

\* An exception is what error_ stands for.
Thrown ==
    /\ error => nnet.thrown \/ search.thrown
    /\ nnet.pc = "threw" => nnet.thrown
    /\ search.pc = "threw" => search.thrown
-----------------------------------------------------------------------------
(***************************************************************************)
(* Sums.  The provers cannot do induction on the fold behind Sum, so that  *)
(* a sum is shown to count a set of blocks, f[x] of them in the column of  *)
(* x, and the facts about sums come from facts about cardinalities.        *)
(***************************************************************************)
Blocks(f, s) == UNION {{x} \X (1..f[x]) : x \in s}

\* The elements of two finite sets that have none in common.
LEMMA DisjointUnion ==
  ASSUME NEW A, NEW B, IsFiniteSet(A), IsFiniteSet(B), A \cap B = {}
  PROVE  IsFiniteSet(A \cup B) /\ Cardinality(A \cup B) = Cardinality(A) + Cardinality(B)
<1>1. /\ IsFiniteSet(A \cup B)
      /\ Cardinality(A \cup B) = Cardinality(A) + Cardinality(B) - Cardinality(A \cap B)
  BY FS_Union
<1>2. Cardinality(A \cap B) = 0 /\ Cardinality(A) \in Nat /\ Cardinality(B) \in Nat
  BY FS_EmptySet, FS_CardinalityType
<1> QED BY <1>1, <1>2

\* A column of n blocks.
LEMMA Column ==
  ASSUME NEW x, NEW n \in Nat
  PROVE  IsFiniteSet({x} \X (1..n)) /\ Cardinality({x} \X (1..n)) = n
<1> DEFINE A == {x}
           B == 1..n
<1>1. IsFiniteSet(A) /\ Cardinality(A) = 1
  BY FS_Singleton
<1>2. IsFiniteSet(B)
  BY FS_Interval
<1>2a. Cardinality(B) = n
  BY FS_Interval
<1> HIDE DEF A, B
<1>3. IsFiniteSet(A \X B) /\ Cardinality(A \X B) = Cardinality(A) * Cardinality(B)
  BY <1>1, <1>2, FS_Product
<1>4. Cardinality(A \X B) = n
  BY <1>1, <1>2a, <1>3
<1> QED BY <1>3, <1>4 DEF A, B

\* One more column on the blocks of S.
LEMMA BlocksStep ==
  ASSUME NEW f, NEW S, IsFiniteSet(S), NEW x, x \notin S, f[x] \in Nat, IsFiniteSet(Blocks(f, S))
  PROVE  /\ IsFiniteSet(Blocks(f, S \cup {x}))
         /\ Cardinality(Blocks(f, S \cup {x})) = f[x] + Cardinality(Blocks(f, S))
<1>3. IsFiniteSet({x} \X (1..f[x])) /\ Cardinality({x} \X (1..f[x])) = f[x]
  BY Column
<1>4. Blocks(f, S \cup {x}) = Blocks(f, S) \cup ({x} \X (1..f[x]))
  BY DEF Blocks
<1>5. Blocks(f, S) \cap ({x} \X (1..f[x])) = {}
  BY DEF Blocks
<1>6. Cardinality(Blocks(f, S)) \in Nat /\ Cardinality({}) = 0
  BY FS_CardinalityType, FS_EmptySet
<1>7. /\ IsFiniteSet(Blocks(f, S) \cup ({x} \X (1..f[x])))
      /\ Cardinality(Blocks(f, S) \cup ({x} \X (1..f[x])))
            = Cardinality(Blocks(f, S)) + Cardinality({x} \X (1..f[x]))
  BY <1>3, <1>5, DisjointUnion, Zenon
<1>8. Cardinality(Blocks(f, S)) + Cardinality({x} \X (1..f[x])) = f[x] + Cardinality(Blocks(f, S))
  BY <1>3, <1>6
<1> QED BY <1>4, <1>7, <1>8, Zenon

\* The blocks of finitely many columns are finitely many.
LEMMA BlocksFinite ==
  ASSUME NEW f, NEW S, IsFiniteSet(S), \A x \in S : f[x] \in Nat
  PROVE  IsFiniteSet(Blocks(f, S))
<1>1. IsFiniteSet({{x} \X (1..f[x]) : x \in S})
  <2> DEFINE g == [x \in S |-> {x} \X (1..f[x])]
             T == {{x} \X (1..f[x]) : x \in S}
  <2>1. g \in Surjection(S, T)
    BY DEF Surjection
  <2> QED BY <2>1, FS_Surjection
<1>2. ASSUME NEW x \in S PROVE IsFiniteSet({x} \X (1..f[x]))
  BY <1>2, Column
<1> QED BY <1>1, <1>2, FS_UNION DEF Blocks

\* The sum over a function counts its blocks: the fold and the count satisfy
\* the same recursion, and a smallest set on which they differ cannot exist.
LEMMA SumIsCount ==
  ASSUME NEW f, IsFiniteSet(DOMAIN f), \A x \in DOMAIN f : f[x] \in Nat
  PROVE  Sum(f) = Cardinality(Blocks(f, DOMAIN f))
<1> DEFINE Eq(g) == g = [s \in SUBSET DOMAIN f |->
                           IF s = {} THEN 0
                           ELSE LET x == CHOOSE x \in s : TRUE IN f[x] + g[s \ {x}]]
           h == [s \in SUBSET DOMAIN f |-> Cardinality(Blocks(f, s))]
<1>1. Sum(f) = (CHOOSE g : Eq(g))[DOMAIN f]
  BY DEF Sum, FoldSeq, FoldFunction, FoldFunctionOnSet, MapThenFoldSet
<1>2. Eq(h)
  <2>1. ASSUME NEW s \in SUBSET DOMAIN f
        PROVE  h[s] = IF s = {} THEN 0
                      ELSE f[CHOOSE x \in s : TRUE] + h[s \ {CHOOSE x \in s : TRUE}]
    <3>1. CASE s = {}
      <4>1. Blocks(f, {}) = {}
        BY DEF Blocks
      <4> QED BY <3>1, <4>1, FS_EmptySet
    <3>2. CASE s # {}
      <4> DEFINE x == CHOOSE x \in s : TRUE
                 r == s \ {x}
      <4>1. x \in s
        BY <3>2
      <4>2. x \notin r /\ r \in SUBSET DOMAIN f /\ s = r \cup {x} /\ f[x] \in Nat
        BY <4>1
      <4>3. IsFiniteSet(r) /\ \A y \in r : f[y] \in Nat
        BY <4>2, FS_Subset
      <4>4. IsFiniteSet(Blocks(f, r))
        BY <4>3, BlocksFinite
      <4> HIDE DEF x, r
      <4>5. Cardinality(Blocks(f, r \cup {x})) = f[x] + Cardinality(Blocks(f, r))
        BY <4>2, <4>3, <4>4, BlocksStep
      <4>6. h[s] = f[x] + h[r]
        BY <4>2, <4>5
      <4> QED BY <3>2, <4>6 DEF x, r
    <3> QED BY <3>1, <3>2
  <2> HIDE DEF h
  <2>2. h = [s \in SUBSET DOMAIN f |-> h[s]]
    BY DEF h
  <2> QED BY <2>1, <2>2
<1>3. PICK g : g = (CHOOSE g1 : Eq(g1)) /\ Eq(g)
  BY <1>2
<1>4. ASSUME NEW s \in SUBSET DOMAIN f, s # {}
      PROVE  \E x \in s : g[s] = f[x] + g[s \ {x}] /\ h[s] = f[x] + h[s \ {x}]
  <2>1. (CHOOSE x \in s : TRUE) \in s
    BY <1>4
  <2> HIDE DEF h
  <2> QED BY <1>2, <1>3, <1>4, <2>1
<1>5. g[{}] = 0 /\ h[{}] = 0
  <2>1. {} \in SUBSET DOMAIN f
    OBVIOUS
  <2> HIDE DEF h
  <2> QED BY <1>2, <1>3, <2>1
<1>6. \A s \in SUBSET DOMAIN f : g[s] = h[s]
  <2> HIDE DEF h, Eq
  <2> DEFINE Bad == {s \in SUBSET DOMAIN f : g[s] # h[s]}
  <2> SUFFICES ASSUME Bad # {} PROVE FALSE
    OBVIOUS
  <2>1. Bad \subseteq FiniteSubsetsOf(DOMAIN f)
    BY FS_Subset DEF FiniteSubsetsOf
  <2>2. PICK s \in Bad : \A r \in Bad : <<r, s>> \notin StrictSubsetOrdering(DOMAIN f)
    <3> HIDE DEF Bad
    <3> QED BY <2>1, FS_StrictSubsetOrderingWellFounded, WFMin
  <2>3. s # {}
    BY <1>5
  <2>4. PICK x \in s : g[s] = f[x] + g[s \ {x}] /\ h[s] = f[x] + h[s \ {x}]
    BY <1>4, <2>3
  <2>5. <<s \ {x}, s>> \in StrictSubsetOrdering(DOMAIN f)
    BY DEF StrictSubsetOrdering
  <2> QED BY <2>2, <2>4, <2>5
<1> QED BY <1>1, <1>3, <1>6

\* The sum of a sequence of naturals counts its blocks.
\* The same for the sizes of pieces of waveform.
LEMMA SumOfSeq ==
  ASSUME NEW s \in Seq(Nat)
  PROVE  /\ Sum(s) \in Nat
         /\ IsFiniteSet(Blocks(s, 1..Len(s)))
         /\ Sum(s) = Cardinality(Blocks(s, 1..Len(s)))
<1>1. Len(s) \in Nat /\ DOMAIN s = 1..Len(s) /\ \A i \in 1..Len(s) : s[i] \in Nat
  BY LenProperties, ElementOfSeq
<1>2. IsFiniteSet(1..Len(s))
  BY <1>1, FS_Interval
<1>3. IsFiniteSet(Blocks(s, 1..Len(s)))
  BY <1>1, <1>2, BlocksFinite
<1>4. Sum(s) = Cardinality(Blocks(s, 1..Len(s)))
  BY <1>1, <1>2, SumIsCount
<1> QED BY <1>3, <1>4, FS_CardinalityType

\* No pieces, no samples.
LEMMA SumEmpty == Sum(<<>>) = 0
<1>1. <<>> \in Seq(Nat) /\ Len(<<>>) = 0
  OBVIOUS
<1>2. Blocks(<<>>, {}) = {}
  BY DEF Blocks
<1>3. 1..0 = {}
  OBVIOUS
<1> QED BY <1>1, <1>2, <1>3, SumOfSeq, FS_EmptySet

\* One piece.
LEMMA SumOne == ASSUME NEW d \in Nat PROVE Sum(<<d>>) = d
<1> DEFINE s == <<d>>
<1>1. s \in Seq(Nat) /\ Len(s) = 1 /\ s[1] = d
  OBVIOUS
<1> HIDE DEF s
<1>2. Blocks(s, 1..Len(s)) = {1} \X (1..d)
  <2>1. 1..Len(s) = {1}
    BY <1>1
  <2>2. Blocks(s, {1}) = {1} \X (1..s[1])
    BY DEF Blocks
  <2> QED BY <1>1, <2>1, <2>2
<1>3. Sum(s) = d
  BY <1>1, <1>2, SumOfSeq, Column
<1> QED BY <1>3 DEF s

\* The samples of pieces one after the other.
LEMMA SumConcat ==
  ASSUME NEW s \in Seq(Nat), NEW t \in Seq(Nat)
  PROVE  Sum(s \o t) = Sum(s) + Sum(t)
<1> DEFINE m == Len(s)
           n == Len(t)
           u == s \o t
           A == Blocks(s, 1..m)
           B == Blocks(t, 1..n)
           C == UNION {{m + x} \X (1..t[x]) : x \in 1..n}
           g == [p \in B |-> <<m + p[1], p[2]>>]
<1>1. /\ m \in Nat /\ n \in Nat /\ u \in Seq(Nat) /\ Len(u) = m + n
      /\ \A i \in 1..m : s[i] \in Nat /\ u[i] = s[i]
      /\ \A i \in 1..n : t[i] \in Nat /\ u[m + i] = t[i]
  BY ConcatProperties, LenProperties, ElementOfSeq
<1>2. /\ IsFiniteSet(A) /\ Sum(s) = Cardinality(A)
      /\ IsFiniteSet(B) /\ Sum(t) = Cardinality(B)
      /\ Sum(u) = Cardinality(Blocks(u, 1..Len(u)))
  BY <1>1, SumOfSeq
<1> HIDE DEF m, n, u
<1>3. g \in Bijection(B, C)
  <2>1. \A p \in B : p = <<p[1], p[2]>> /\ p[1] \in 1..n /\ p[2] \in 1..t[p[1]]
    BY DEF Blocks
  <2>2. \A p \in B : g[p] \in C
    BY <2>1
  <2>3. \A p, q \in B : g[p] = g[q] => p = q
    <3> TAKE p, q \in B
    <3> HAVE g[p] = g[q]
    <3>1. m + p[1] = m + q[1] /\ p[2] = q[2]
      OBVIOUS
    <3>2. p[1] = q[1]
      BY <1>1, <2>1, <3>1
    <3> QED BY <2>1, <3>1, <3>2
  <2>4. \A c \in C : \E p \in B : g[p] = c
    <3> TAKE c \in C
    <3>1. PICK x \in 1..n : c \in {m + x} \X (1..t[x])
      OBVIOUS
    <3>2. PICK k \in 1..t[x] : c = <<m + x, k>>
      BY <3>1
    <3>3. <<x, k>> \in B
      BY DEF Blocks
    <3> WITNESS <<x, k>> \in B
    <3> QED BY <3>2, <3>3
  <2> QED BY <2>2, <2>3, <2>4 DEF Bijection, Injection, Surjection, IsInjective
<1>4. IsFiniteSet(C) /\ Cardinality(C) = Cardinality(B)
  BY <1>2, <1>3, FS_Bijection DEF ExistsBijection
<1>5. Blocks(u, 1..Len(u)) = A \cup C
  <2>1. 1..Len(u) = (1..m) \cup {m + x : x \in 1..n}
    <3>1. ASSUME NEW i \in 1..(m + n), i > m PROVE \E x \in 1..n : i = m + x
      <4>1. i - m \in 1..n /\ i = m + (i - m)
        BY <1>1, <3>1
      <4> QED BY <4>1
    <3>2. \A i \in 1..(m + n) : i \in 1..m \/ i \in {m + x : x \in 1..n}
      BY <1>1, <3>1
    <3>3. \A i \in 1..m : i \in 1..(m + n)
      BY <1>1
    <3>4. \A x \in 1..n : m + x \in 1..(m + n)
      BY <1>1
    <3> QED BY <1>1, <3>2, <3>3, <3>4
  <2>2. Blocks(u, 1..Len(u)) = (UNION {{x} \X (1..u[x]) : x \in 1..m})
                                 \cup (UNION {{m + x} \X (1..u[m + x]) : x \in 1..n})
    <3> DEFINE D == 1..Len(u)
               P == 1..m
               Q == 1..n
    <3>1. D = P \cup {m + x : x \in Q}
      BY <2>1
    <3> HIDE DEF D, P, Q
    <3>2. \A z : z \in Blocks(u, D) <=> \/ \E x \in P : z \in {x} \X (1..u[x])
                                       \/ \E x \in Q : z \in {m + x} \X (1..u[m + x])
      BY <3>1 DEF Blocks
    <3>3. Blocks(u, D) = (UNION {{x} \X (1..u[x]) : x \in P})
                           \cup (UNION {{m + x} \X (1..u[m + x]) : x \in Q})
      BY <3>2
    <3> QED BY <3>3 DEF D, P, Q
  <2>3. UNION {{x} \X (1..u[x]) : x \in 1..m} = A
    BY <1>1 DEF Blocks
  <2>4. UNION {{m + x} \X (1..u[m + x]) : x \in 1..n} = C
    <3>1. \A x \in 1..n : {m + x} \X (1..u[m + x]) = {m + x} \X (1..t[x])
      BY <1>1
    <3> QED BY <3>1
  <2> HIDE DEF A, C
  <2> QED BY <2>2, <2>3, <2>4, Zenon
<1>6. A \cap C = {}
  <2> SUFFICES ASSUME NEW c \in A, c \in C PROVE FALSE
    OBVIOUS
  <2>1. c[1] \in 1..m
    BY DEF Blocks
  <2>2. \E x \in 1..n : c[1] = m + x
    OBVIOUS
  <2> QED BY <1>1, <2>1, <2>2
<1>7. Cardinality(A \cup C) = Cardinality(A) + Cardinality(C)
  BY <1>2, <1>4, <1>6, DisjointUnion
<1>8. Sum(u) = Sum(s) + Sum(t)
  BY <1>2, <1>4, <1>5, <1>7, Zenon
<1> QED BY <1>8 DEF u

\* The samples after one more piece, as AcceptWaveform() appends it.
LEMMA SumAppend ==
  ASSUME NEW s \in Seq(Nat), NEW d \in Nat
  PROVE  Sum(Append(s, d)) = Sum(s) + d
<1>1. Append(s, d) = s \o <<d>> /\ <<d>> \in Seq(Nat)
  BY AppendIsConcat
<1> QED BY <1>1, SumConcat, SumOne

\* Pieces taken from the front, and those left.
LEMMA SumSplit ==
  ASSUME NEW s \in Seq(Nat), NEW n \in 0..Len(s)
  PROVE  /\ SubSeq(s, 1, n) \in Seq(Nat) /\ SubSeq(s, n + 1, Len(s)) \in Seq(Nat)
         /\ Sum(s) = Sum(SubSeq(s, 1, n)) + Sum(SubSeq(s, n + 1, Len(s)))
<1>1. Len(s) \in Nat
  BY LenProperties
<1>2. /\ SubSeq(s, 1, n) \in Seq(Nat) /\ SubSeq(s, n + 1, Len(s)) \in Seq(Nat)
  BY <1>1, SubSeqProperties, ElementOfSeq
<1>3. s = SubSeq(s, 1, n) \o SubSeq(s, n + 1, Len(s))
  <2>1. SubSeq(s, 1, Len(s)) = s
    BY SubSeqFull
  <2>2. SubSeq(s, 1, n) \o SubSeq(s, n + 1, Len(s)) = SubSeq(s, 1, Len(s))
    <3>1. 1 \in 1..Len(s)+1 /\ n \in 1-1..Len(s) /\ Len(s) \in n..Len(s)
      BY <1>1
    <3> QED BY <3>1, ConcatAdjacentSubSeq
  <2> QED BY <2>1, <2>2
<1>4. Sum(SubSeq(s, 1, n) \o SubSeq(s, n + 1, Len(s)))
        = Sum(SubSeq(s, 1, n)) + Sum(SubSeq(s, n + 1, Len(s)))
  BY <1>2, SumConcat
<1> QED BY <1>2, <1>3, <1>4

\* More pieces have more samples.
LEMMA SumOfPrefixes ==
  ASSUME NEW s \in Seq(Nat), NEW j \in 0..Len(s), NEW k \in 0..Len(s), j <= k
  PROVE  Sum(SubSeq(s, 1, j)) <= Sum(SubSeq(s, 1, k))
<1>1. Len(s) \in Nat
  BY LenProperties
<1> DEFINE u == SubSeq(s, 1, j)
           v == SubSeq(s, j + 1, k)
<1>2. u \in Seq(Nat) /\ v \in Seq(Nat)
  BY <1>1, SubSeqProperties, ElementOfSeq
<1>3. SubSeq(s, 1, k) = u \o v
  BY <1>1, ConcatAdjacentSubSeq
<1> HIDE DEF u, v
<1>4. Sum(u \o v) = Sum(u) + Sum(v) /\ Sum(u) \in Nat /\ Sum(v) \in Nat
  BY <1>2, SumConcat, SumOfSeq
<1>5. Sum(u) <= Sum(u \o v)
  BY <1>4
<1> QED BY <1>3, <1>5, Zenon DEF u

\* std::min() of two numbers.
LEMMA MinOfTwo ==
  ASSUME NEW a \in Int, NEW b \in Int
  PROVE  Min({a, b}) \in {a, b} /\ Min({a, b}) <= a /\ Min({a, b}) <= b
<1>1. \E x \in {a, b} : \A y \in {a, b} : x <= y
  OBVIOUS
<1> QED BY <1>1 DEF Min

\* What the quotient of a division is.
LEMMA DivFacts ==
  ASSUME NEW n \in Nat, NEW d \in Nat \ {0}
  PROVE  n \div d \in Nat /\ d * (n \div d) <= n /\ n < d * (n \div d) + d
OBVIOUS

\* Division is monotonic.
LEMMA DivMono ==
  ASSUME NEW n \in Nat, NEW m \in Nat, n <= m, NEW d \in Nat \ {0}
  PROVE  n \div d <= m \div d
<1>1. n \div d \in Nat /\ d * (n \div d) <= n
  BY DivFacts
<1>2. m \div d \in Nat /\ m < d * (m \div d) + d
  BY DivFacts
<1> DEFINE p == n \div d
 q == m \div d
<1> HIDE DEF p, q
<1>3. p \in Nat /\ q \in Nat /\ d * p < d * q + d
  BY <1>1, <1>2 DEF p, q
<1>4. ~(p > q)
  <2> SUFFICES ASSUME p > q PROVE FALSE OBVIOUS
  <2>0. PICK k \in Nat : p = q + 1 + k
     <3>1. p - q - 1 \in Nat /\ p = q + 1 + (p - q - 1)
       BY <1>3
     <3> QED BY <3>1
  <2>1. d * p = d * q + d + d * k /\ d * k \in Nat
     BY <1>3, <2>0
  <2> QED BY <1>3, <2>1
<1> QED BY <1>3, <1>4 DEF p, q

\* A number of samples gives a number of frames.
LEMMA NumFramesType == ASSUME NEW s \in Nat PROVE NumFrames(s) \in Nat
BY DataAssumption, DivFacts DEF NumFrames
\* The frames of a waveform begin within it.
LEMMA NumFramesBound == ASSUME NEW s \in Nat PROVE Shift * NumFrames(s) <= s
<1>1. CASE s < Window
   BY <1>1, DataAssumption DEF NumFrames
<1>2. CASE s >= Window
  <2> DEFINE q == (s - Window) \div Shift
  <2>1. q \in Nat /\ Shift * q <= s - Window
    BY <1>2, DataAssumption, DivFacts
  <2>2. NumFrames(s) = 1 + q
    BY <1>2, DataAssumption DEF NumFrames
  <2> HIDE DEF q
  <2>3. Shift * (1 + q) = Shift + Shift * q /\ Shift * q \in Nat
    BY <2>1, DataAssumption
  <2> QED BY <2>1, <2>2, <2>3, DataAssumption
<1> QED BY <1>1, <1>2, DataAssumption
\* More samples do not give fewer frames.
LEMMA NumFramesMonotonic ==
  ASSUME NEW s \in Nat, NEW t \in Nat, s <= t
  PROVE  NumFrames(s) <= NumFrames(t)
<1>1. CASE t < Window
  BY <1>1, DataAssumption DEF NumFrames
<1>2. CASE s < Window
  BY <1>2, DataAssumption, NumFramesType DEF NumFrames
<1>3. CASE s >= Window /\ t >= Window
  <2>1. s - Window \in Nat /\ t - Window \in Nat /\ s - Window <= t - Window
    BY <1>3, DataAssumption
  <2>2. (s - Window) \div Shift <= (t - Window) \div Shift
    BY <2>1, DataAssumption, DivMono
  <2>3. (s - Window) \div Shift \in Nat /\ (t - Window) \div Shift \in Nat
    BY <2>1, DataAssumption, DivFacts
  <2> QED BY <1>3, <2>2, <2>3, DataAssumption DEF NumFrames
<1> QED BY <1>1, <1>2, <1>3, DataAssumption
-----------------------------------------------------------------------------
(* Control                                                                 *)

\* Every step keeps the threads where their code and the synchronizers say.
LEMMA ControlStep == ASSUME Control, FramesType, [Next]_vars PROVE Control'
<1> USE DEF Control, ControlType, AbortKnown, Places, WS!SyncTypeOK, DS!SyncTypeOK
<1> USE DEF WS!ThreadType, WS!Places, DS!ThreadType, DS!Places
<1> USE DEF Workers, InLock, InUnlock, Outside, MainLocks, MainPlaces, NnetFeatures, NnetGives,
     NnetFailed, NnetPlaces, SearchPlaces, AbortPlaces
<1>1. CASE \E dim \in PieceDims : AcceptWaveform(dim)
  <2> PICK dim \in PieceDims : AcceptWaveform(dim)
    BY <1>1
  <2>1. main' \in [pc : MainPlaces, dim : Nat, terminated : BOOLEAN] /\ main.pc' = "accept"
    BY DataAssumption DEF AcceptWaveform
  <2>2. WS!CallLock("producer") /\ main.pc = "idle"
    BY DEF AcceptWaveform
  <2>3. UNCHANGED <<nnet, search, joined, abort, aborting, dsync>>
    BY DEF AcceptWaveform, flags, MainUnchanged
  <2> QED BY <2>1, <2>2, <2>3 DEF WS!CallLock, WS!Goto, dsync
<1>2. CASE NumWaveformPiecesPending
  BY <1>2 DEF NumWaveformPiecesPending, MainGoto, MainUnchanged, flags, dsync, WS!CallLock,
       WS!Goto
<1>3. CASE InputFinished
  BY <1>3 DEF InputFinished, MainGoto, MainUnchanged, flags, dsync, WS!CallLock, WS!Goto
<1>4. CASE TerminateDecoding
  <2>1. main.pc = "idle" /\ main' = [main EXCEPT !.pc = "terminate", !.terminated = TRUE]
    BY <1>4 DEF TerminateDecoding
  <2>2. main' \in [pc : MainPlaces, dim : Nat, terminated : BOOLEAN] /\ main.pc' = "terminate"
    BY <2>1
  <2>3. abort' = TRUE /\ aborting' = [aborting EXCEPT !["main"] = "wave_flag"]
    BY <1>4 DEF TerminateDecoding, AbortAllThreads
  <2>4. UNCHANGED <<nnet, search, joined, wsync, dsync>>
    BY <1>4 DEF TerminateDecoding, AbortAllThreads, MainUnchanged
  <2> QED BY <2>1, <2>2, <2>3, <2>4 DEF wsync, dsync
<1>5. CASE Wait
  BY <1>5 DEF Wait, MainGoto, MainUnchanged, flags, wsync, dsync
<1>6. CASE ReadDecoder
  BY <1>6 DEF ReadDecoder, MainGoto, MainUnchanged, flags, wsync, dsync
<1>7. CASE GetAdaptationState
  BY <1>7 DEF GetAdaptationState, CallGetAdaptationState, MainGoto, MainUnchanged, flags, wsync,
       dsync
<1>8. CASE FinalizeDecoding
  BY <1>8 DEF FinalizeDecoding, MainGoto, MainUnchanged, flags, wsync, dsync
<1>9. CASE Destroy
  <2>1. main.pc = "idle" /\ main' = [main EXCEPT !.pc = "destroy"]
    BY <1>9 DEF Destroy, MainGoto
  <2>2. main' \in [pc : MainPlaces, dim : Nat, terminated : BOOLEAN] /\ main.pc' = "destroy"
    BY <2>1
  <2>3. /\ abort' = TRUE
        /\ aborting' = aborting \/ aborting' = [aborting EXCEPT !["main"] = "wave_flag"]
    BY <1>9 DEF Destroy, AbortAllThreads, flags
  <2>4. UNCHANGED <<nnet, search, joined, wsync, dsync>>
    BY <1>9 DEF Destroy, AbortAllThreads, MainUnchanged, flags
  <2> QED BY <2>1, <2>2, <2>3, <2>4 DEF wsync, dsync
<1>10. CASE MainLocked
  BY <1>10 DEF MainLocked, MainGoto, MainUnchanged, flags, dsync, WS!UnlockSuccess, WS!Goto,
       WS!ThreadType, WS!Other
<1>11. CASE MainReturns
  BY <1>11 DEF MainReturns, MainGoto, MainUnchanged, flags, wsync, dsync
<1>12. CASE Join("nnet")
  BY <1>12 DEF Join, Exited, MainUnchanged, wsync, dsync
<1>13. CASE Join("search")
  BY <1>13 DEF Join, Exited, MainUnchanged, wsync, dsync
<1>14. CASE Destroyed
  BY <1>14 DEF Destroyed, MainGoto, MainUnchanged, flags, wsync, dsync
<1>15. CASE NnetTop
  <2>1. UNCHANGED <<main, search, joined, abort, aborting, dsync>>
    BY <1>15 DEF NnetTop, NnetUnchanged, flags
  <2>2. CASE NnetGoto("take") /\ UNCHANGED wsync
    BY <1>15, <2>1, <2>2 DEF NnetTop, NnetGoto, wsync, dsync
  <2>3. CASE NnetGoto("wave") /\ WS!CallLock("consumer")
    BY <1>15, <2>1, <2>3 DEF NnetTop, NnetGoto, dsync, WS!CallLock, WS!Goto
  <2> QED BY <1>15, <2>2, <2>3 DEF NnetTop
<1>16. CASE NnetWaveform
  <2>1. UNCHANGED <<main, search, joined, abort, aborting, dsync>>
    BY <1>16 DEF NnetWaveform, NnetUnchanged, flags
  <2>2. NnetGoto("taken") /\ nnet.pc = "wave"
    BY <1>16 DEF NnetWaveform
  <2>3. CASE WS!UnlockSuccess("consumer")
    BY <2>1, <2>2, <2>3 DEF NnetGoto, dsync, WS!UnlockSuccess, WS!Goto, WS!Other
  <2>4. CASE WS!UnlockFailure("consumer")
    BY <2>1, <2>2, <2>4 DEF NnetGoto, dsync, WS!UnlockFailure, WS!Goto
  <2> QED BY <1>16, <2>3, <2>4 DEF NnetWaveform, NoWaveform, TakeWaveform
<1>17. CASE NnetWaveformRefused
  BY <1>17 DEF NnetWaveformRefused, NnetGoto, NnetUnchanged, flags, wsync, dsync
<1>18. CASE NnetFeaturesThrow
  BY <1>18 DEF NnetFeaturesThrow, NnetUnchanged, flags, wsync, dsync
<1>19. CASE NnetWaveformTaken
  BY <1>19 DEF NnetWaveformTaken, NnetGoto, NnetUnchanged, flags, wsync, dsync
<1>20. CASE NnetCompute
  BY <1>20 DEF NnetCompute, NnetUnchanged, flags, wsync, dsync, DS!CallLock, DS!Goto
<1>21. CASE NnetComputeThrows
  <2>1. UNCHANGED <<main, search, joined, abort, aborting, wsync, dsync>>
    BY <1>21 DEF NnetComputeThrows, NnetUnchanged, flags
  <2>2. nnet.pc' = "threw"
    BY <1>21 DEF NnetComputeThrows, NnetGoto, FramesType
  <2>3. nnet.pc = "take"
    BY <1>21 DEF NnetComputeThrows
  <2> QED BY <2>1, <2>2, <2>3 DEF wsync, dsync
<1>22. CASE NnetGive
  <2>1. UNCHANGED <<main, search, joined, abort, aborting, wsync>> /\ nnet.pc = "give"
    BY <1>22 DEF NnetGive, NnetUnchanged, flags
  <2>2. CASE AcceptLoglikes /\ DS!UnlockSuccess("producer")
    <3>1. nnet.pc' = "given"
      BY <2>2 DEF AcceptLoglikes
    <3> QED BY <2>1, <2>2, <3>1 DEF wsync, DS!UnlockSuccess, DS!Goto, DS!Other
  <2>3. CASE NnetGoto("retry") /\ DS!UnlockFailure("producer")
    BY <2>1, <2>3 DEF NnetGoto, wsync, DS!UnlockFailure, DS!Goto
  <2> QED BY <1>22, <2>2, <2>3 DEF NnetGive
<1>23. CASE NnetGiven
  BY <1>23 DEF NnetGiven, NnetGoto, NnetUnchanged, flags, wsync, dsync, DS!CallLock, DS!Goto
<1>24. CASE NnetInputIsFinished
  BY <1>24 DEF NnetInputIsFinished, NnetGoto, NnetUnchanged, flags, wsync, DS!UnlockSuccess,
       DS!Goto, DS!ThreadType, DS!Other
<1>25. CASE NnetFinished
  BY <1>25 DEF NnetFinished, NnetGoto, NnetUnchanged, flags, wsync, dsync
<1>26. CASE NnetLoglikesRefused
  BY <1>26 DEF NnetLoglikesRefused, NnetGoto, NnetUnchanged, flags, wsync, dsync
<1>27. CASE NnetReturnsFalse
  BY <1>27 DEF NnetReturnsFalse, NnetGoto, NnetUnchanged, flags, wsync, dsync
<1>28. CASE NnetCatches
  BY <1>28 DEF NnetCatches, AbortAllThreads, NnetGoto, NnetUnchanged, wsync, dsync
<1>29. CASE SearchTop
  BY <1>29 DEF SearchTop, SearchGoto, SearchUnchanged, flags, wsync, DS!CallLock, DS!Goto
<1>30. CASE SearchNoFrames
  <2>1. UNCHANGED <<main, nnet, joined, abort, aborting, wsync>> /\ search.pc = "lock"
    BY <1>30 DEF SearchNoFrames, SearchUnchanged, flags
  <2>2. CASE DS!UnlockSuccess("consumer") /\ SearchGoto("last")
    BY <2>1, <2>2 DEF SearchGoto, wsync, DS!UnlockSuccess, DS!Goto, DS!Other
  <2>3. CASE DS!UnlockFailure("consumer") /\ SearchGoto("unlock")
    BY <2>1, <2>3 DEF SearchGoto, wsync, DS!UnlockFailure, DS!Goto
  <2> QED BY <1>30, <2>2, <2>3 DEF SearchNoFrames
<1>31. CASE SearchAdvance
  BY <1>31 DEF SearchAdvance, SearchUnchanged, flags, wsync, dsync
<1>32. CASE SearchThrows
  BY <1>32 DEF SearchThrows, SearchUnchanged, flags, wsync, dsync
<1>33. CASE SearchPublish
  BY <1>33 DEF SearchPublish, SearchGoto, SearchUnchanged, flags, wsync, DS!UnlockSuccess,
       DS!Goto, DS!ThreadType, DS!Other
<1>34. CASE SearchReturned
  <2>1. UNCHANGED <<main, nnet, joined, abort, aborting, wsync, dsync>>
    BY <1>34 DEF SearchReturned, SearchUnchanged, flags
  <2>2. /\ search.pc' \in SearchPlaces \ {"lock", "decoded"}
        /\ search.pc # "exit"
        /\ search.pc' = "false" => abort
    BY <1>34 DEF SearchReturned, SearchGoto, FramesType
  <2> QED BY <2>1, <2>2 DEF wsync, dsync
<1>35. CASE SearchCatches
  BY <1>35 DEF SearchCatches, AbortAllThreads, SearchGoto, SearchUnchanged, wsync, dsync
<1>36. CASE \E t \in {"main", "nnet", "search"} : AbortStep(t)
  <2> PICK t \in {"main", "nnet", "search"} : AbortStep(t)
    BY <1>36
  <2>1. UNCHANGED <<main, nnet, search, joined, abort>>
    BY DEF AbortStep
  <2>9. /\ \A u \in {"main", "nnet", "search"} \ {t} : aborting'[u] = aborting[u]
        /\ aborting'[t] = "loglikes_signal" => dabort'
    BY DEF AbortStep, DS!RaiseAbort
  <2>2. /\ abort = TRUE
        /\ aborting' \in [{"main", "nnet", "search"} -> AbortPlaces]
        /\ \A u \in {"main", "nnet", "search"} : aborting'[u] # "no" => aborting[u] # "no"
    BY DEF AbortStep
  <2>3. /\ \/ WS!RaiseAbort \/ WS!SignalAbort \/ UNCHANGED wsync
        /\ \/ DS!RaiseAbort \/ DS!SignalAbort \/ UNCHANGED dsync
    BY DEF AbortStep
  <2>4. /\ UNCHANGED wat /\ WS!SyncTypeOK' /\ (wabort => wabort')
    <3>1. CASE WS!RaiseAbort
      BY <3>1 DEF WS!RaiseAbort
    <3>2. CASE WS!SignalAbort
      BY <3>2 DEF WS!SignalAbort
    <3>3. CASE UNCHANGED wsync
      BY <3>3 DEF wsync
    <3> QED BY <2>3, <3>1, <3>2, <3>3
  <2>5. /\ UNCHANGED dat /\ DS!SyncTypeOK' /\ (dabort => dabort')
    <3>1. CASE DS!RaiseAbort
      BY <3>1 DEF DS!RaiseAbort
    <3>2. CASE DS!SignalAbort
      BY <3>2 DEF DS!SignalAbort
    <3>3. CASE UNCHANGED dsync
      BY <3>3 DEF dsync
    <3> QED BY <2>3, <3>1, <3>2, <3>3
  <2>6. ControlType'
    BY <2>1, <2>2, <2>4, <2>5
  <2>7. AbortKnown'
    BY <2>1, <2>2, <2>4, <2>5, <2>9
  <2>8. Places'
    BY <2>1, <2>4, <2>5
  <2> QED BY <2>6, <2>7, <2>8
<1>37. CASE \E t \in {"producer", "consumer"} : InWaveform(t)
  BY <1>37 DEF InWaveform, flags, dsync, WS!RunInside, WS!WaitSemaphore, WS!RetestAbort,
       WS!LockMutex, WS!FinishLock, WS!UnlockMutex, WS!ReturnFromUnlock, WS!Goto, WS!ThreadType
<1>38. CASE \E t \in {"producer", "consumer"} : InDecodable(t)
  BY <1>38 DEF InDecodable, flags, wsync, DS!RunInside, DS!WaitSemaphore, DS!RetestAbort,
       DS!LockMutex, DS!FinishLock, DS!UnlockMutex, DS!ReturnFromUnlock, DS!Goto, DS!ThreadType
<1>39. CASE UNCHANGED vars
  BY <1>39 DEF vars, flags, wsync, dsync
<1> QED
  BY <1>1, <1>2, <1>3, <1>4, <1>5, <1>6, <1>7, <1>8, <1>9, <1>10, <1>11, <1>12, <1>13, <1>14,
       <1>15, <1>16, <1>17, <1>18, <1>19, <1>20, <1>21, <1>22, <1>23, <1>24, <1>25, <1>26,
       <1>27, <1>28, <1>29, <1>30, <1>31, <1>32, <1>33, <1>34, <1>35, <1>36, <1>37, <1>38,
       <1>39 DEF Next, MainCalls, MainRuns, Nnet, Search, Runs, Gone
-----------------------------------------------------------------------------
(* Waveform                                                                *)

\* How many numbers of an interval are in a set.
LEMMA CountOfSome ==
  ASSUME NEW a \in Nat, NEW b \in Nat, NEW S, S \subseteq a..b, a <= b + 1
  PROVE  Cardinality(S) \in 0..(b - a + 1)
<1>1. IsFiniteSet(a..b) /\ Cardinality(a..b) = b - a + 1
  <2>1. IsFiniteSet(a..b) /\ Cardinality(a..b) = IF a > b THEN 0 ELSE b - a + 1
    BY FS_Interval
  <2> QED BY <2>1
<1>2. Cardinality(S) <= Cardinality(a..b) /\ IsFiniteSet(S)
  BY <1>1, FS_Subset
<1>3. Cardinality(S) \in Nat
  BY <1>2, FS_CardinalityType
<1> QED BY <1>1, <1>2, <1>3

\* The loop of FeatureComputation() takes pieces that are there.
LEMMA PiecesTakenType ==
  ASSUME WaveType, wave.input # <<>>
  PROVE  PiecesTaken \in 0..Len(wave.input)
<1> DEFINE L == Len(wave.input)
           S == {k \in 0..L - 1 :
                   NumFrames(pipe.samples + Sum(SubSeq(wave.input, 1, k))) - nnet.consumed
                     < NnetBatchSize}
<1>1. wave.input \in Seq(Nat)
  BY DEF WaveType
<1>2. L \in Nat /\ L > 0
  BY <1>1, EmptySeq, LenProperties
<1>3. S \subseteq 0..L - 1 /\ PiecesTaken = Cardinality(S)
  BY DEF PiecesTaken
<1> HIDE DEF L, S
<1>4. Cardinality(S) \in 0..(L - 1 - 0 + 1)
  <2>1. L - 1 \in Nat /\ 0 <= (L - 1) + 1
    BY <1>2
  <2> QED BY <1>3, <2>1, CountOfSome
<1>5. PiecesTaken \in 0..L
  BY <1>2, <1>3, <1>4
<1> QED BY <1>5 DEF L

\* The pieces that are discarded end where the published frames end: the
\* pieces that count are the first ones, since their sums grow.
LEMMA BehindIsDecoded ==
  ASSUME NEW p \in Seq(Nat), wave.discarded \in Nat, num_frames_decoded \in Nat,
         wave.discarded <= Shift * num_frames_decoded
  PROVE  /\ PiecesBehind(p) \in 0..Len(p)
         /\ wave.discarded + Sum(SubSeq(p, 1, PiecesBehind(p))) <= Shift * num_frames_decoded
<1> DEFINE L == Len(p)
           Upto(k) == Sum(SubSeq(p, 1, k))
           lim == Shift * num_frames_decoded
           S == {k \in 1..L : wave.discarded + Upto(k) < lim}
           m == Cardinality(S)
<1>1. L \in Nat /\ lim \in Nat
  BY LenProperties, DataAssumption
<1>2. PiecesBehind(p) = m
  BY DEF PiecesBehind
<1>3. \A k \in 0..L : Upto(k) \in Nat
  BY SumSplit, SumOfSeq
<1>4. \A j, k \in 0..L : j <= k => Upto(j) <= Upto(k)
  BY SumOfPrefixes
<1>5. Upto(0) = 0
  <2>1. SubSeq(p, 1, 0) = <<>>
    BY SubSeqEmpty
  <2> QED BY <2>1, SumEmpty
<1>6. m \in 0..L
  <2>1. S \subseteq 1..L
    OBVIOUS
  <2> HIDE DEF S, L
  <2>2. Cardinality(S) \in 0..(L - 1 + 1)
    <3>1. 1 \in Nat /\ 1 <= L + 1
      BY <1>1
    <3> QED BY <1>1, <2>1, <3>1, CountOfSome
  <2> QED BY <1>1, <2>2
<1> HIDE DEF L, Upto, m, lim
<1>7. wave.discarded + Upto(m) <= lim
  <2>1. CASE m = 0
    BY <1>5, <2>1 DEF lim
  <2>2. CASE m > 0
    <3>1. m \in S
      <4> SUFFICES ASSUME m \notin S PROVE FALSE
        OBVIOUS
      <4>1. S \subseteq 1..m - 1
        <5> SUFFICES ASSUME NEW k \in S, k >= m PROVE FALSE
          BY <1>1, <1>6
        <5>1. Upto(m) <= Upto(k) /\ Upto(m) \in Nat /\ Upto(k) \in Nat
          BY <1>1, <1>3, <1>4, <1>6
        <5>2. wave.discarded + Upto(m) < lim
          BY <1>1, <5>1
        <5> QED BY <1>6, <2>2, <5>2
      <4> HIDE DEF S
      <4>2. Cardinality(S) \in 0..(m - 1 - 1 + 1)
        <5>1. m - 1 \in Nat /\ 1 <= (m - 1) + 1
          BY <1>6, <2>2
        <5> QED BY <4>1, <5>1, CountOfSome
      <4> QED BY <1>6, <4>2 DEF m
    <3>2. m \in 0..L /\ Upto(m) \in Nat
      BY <1>3, <1>6
    <3> QED BY <1>1, <3>1, <3>2
  <2> QED BY <1>6, <2>1, <2>2
<1> QED BY <1>2, <1>6, <1>7 DEF L, Upto, lim

\* What one turn of the nnet thread with the waveform does: it moves n pieces
\* to the feature pipeline and drops those that are decoded.
LEMMA WaveformMoved ==
  ASSUME WaveType, FramesType, TakeWaveform,
         pipe.samples = wave.discarded + Sum(wave.processed),
         wave.discarded <= Shift * num_frames_decoded
  PROVE  /\ WaveType'
         /\ pipe' \in [samples : Nat, finished : BOOLEAN]
         /\ pipe.samples <= pipe'.samples
         /\ pipe'.finished = pipe.finished
         /\ pipe'.samples = wave'.discarded + Sum(wave'.processed)
         /\ wave'.discarded <= Shift * num_frames_decoded
         /\ wave'.discarded + Sum(wave'.processed) + Sum(wave'.input)
              = wave.discarded + Sum(wave.processed) + Sum(wave.input)
         /\ wave'.received = wave.received
         /\ wave'.finished = wave.finished
<1> DEFINE n == PiecesTaken
           taken == SubSeq(wave.input, 1, n)
           left == SubSeq(wave.input, n + 1, Len(wave.input))
           processed == wave.processed \o taken
           m == PiecesBehind(processed)
           dropped == SubSeq(processed, 1, m)
           kept == SubSeq(processed, m + 1, Len(processed))
<1>1. /\ wave.input \in Seq(Nat) /\ wave.processed \in Seq(Nat)
      /\ wave.discarded \in Nat /\ num_frames_decoded \in Nat /\ pipe.samples \in Nat
  BY DEF WaveType, FramesType
<1>2. n \in 0..Len(wave.input)
  BY PiecesTakenType DEF TakeWaveform
<1>3. /\ pipe' = [pipe EXCEPT !.samples = pipe.samples + Sum(taken)]
      /\ wave' = [wave EXCEPT !.input = left, !.processed = kept,
                              !.discarded = wave.discarded + Sum(dropped)]
  BY DEF TakeWaveform
<1> HIDE DEF n
<1>4. /\ taken \in Seq(Nat) /\ left \in Seq(Nat)
      /\ Sum(wave.input) = Sum(taken) + Sum(left)
  BY <1>1, <1>2, SumSplit
<1> HIDE DEF taken, left
<1>5. processed \in Seq(Nat) /\ Sum(processed) = Sum(wave.processed) + Sum(taken)
  BY <1>1, <1>4, SumConcat, ConcatProperties
<1> HIDE DEF processed
<1>6. m \in 0..Len(processed) /\ wave.discarded + Sum(dropped) <= Shift * num_frames_decoded
  BY <1>1, <1>5, BehindIsDecoded
<1> HIDE DEF m
<1>7. /\ dropped \in Seq(Nat) /\ kept \in Seq(Nat)
      /\ Sum(processed) = Sum(dropped) + Sum(kept)
  BY <1>5, <1>6, SumSplit
<1> HIDE DEF dropped, kept
<1>8. /\ Sum(taken) \in Nat /\ Sum(left) \in Nat /\ Sum(dropped) \in Nat /\ Sum(kept) \in Nat
      /\ Sum(wave.processed) \in Nat
  BY <1>1, <1>4, <1>7, SumOfSeq
<1>9. pipe.samples + Sum(taken) \in Nat /\ wave.discarded + Sum(dropped) \in Nat
  BY <1>1, <1>8
<1>10. /\ wave'.input = left /\ wave'.processed = kept
       /\ wave'.discarded = wave.discarded + Sum(dropped)
       /\ wave'.received = wave.received /\ wave'.finished = wave.finished
  BY <1>3 DEF WaveType
<1>11. pipe'.samples = pipe.samples + Sum(taken) /\ pipe'.finished = pipe.finished
  BY <1>3 DEF FramesType
<1>12. WaveType'
  BY <1>3, <1>4, <1>7, <1>9 DEF WaveType
<1>13. pipe' \in [samples : Nat, finished : BOOLEAN]
  BY <1>3, <1>9 DEF FramesType
<1>14. Sum(wave'.processed) = Sum(kept) /\ Sum(wave'.input) = Sum(left)
  BY <1>10
<1> HIDE DEF WaveType, FramesType
<1>15. pipe.samples + Sum(taken) = (wave.discarded + Sum(dropped)) + Sum(kept)
  BY <1>1, <1>5, <1>7, <1>8
<1>16. (wave.discarded + Sum(dropped)) + Sum(kept) + Sum(left)
         = wave.discarded + Sum(wave.processed) + Sum(wave.input)
  <2>1. Sum(wave.processed) + Sum(taken) = Sum(dropped) + Sum(kept)
    BY <1>5, <1>7
  <2> DEFINE a == Sum(wave.processed)
             b == Sum(taken)
             c == Sum(dropped)
             d == Sum(kept)
             e == Sum(left)
             i == Sum(wave.input)
             w == wave.discarded
  <2>2. /\ a \in Nat /\ b \in Nat /\ c \in Nat /\ d \in Nat /\ e \in Nat /\ w \in Nat
        /\ a + b = c + d /\ i = b + e
    BY <1>1, <1>4, <1>8, <2>1
  <2> HIDE DEF a, b, c, d, e, i, w
  <2>3. (w + c) + d + e = w + a + i
    BY <2>2
  <2> QED BY <2>3 DEF a, b, c, d, e, i, w
<1>17. pipe.samples <= pipe.samples + Sum(taken)
  BY <1>1, <1>8
<1> QED BY <1>6, <1>10, <1>11, <1>12, <1>13, <1>14, <1>15, <1>16, <1>17

\* The samples in the two lists of pieces are a number.
LEMMA StoredType ==
  ASSUME WaveType
  PROVE  Sum(wave.input) \in Nat /\ Sum(wave.processed) \in Nat /\ Stored \in Nat
BY SumOfSeq DEF WaveType, Stored

\* More frames begin later in the waveform.
LEMMA LimitGrows ==
  ASSUME NEW n \in Nat, NEW m \in Nat, n <= m
  PROVE  Shift * n <= Shift * m
<1>1. PICK k \in Nat : m = n + k
  <2>1. m - n \in Nat /\ m = n + (m - n)
    OBVIOUS
  <2> QED BY <2>1
<1>2. Shift * m = Shift * n + Shift * k /\ Shift * k \in Nat /\ Shift * n \in Nat
  BY <1>1, DataAssumption
<1> QED BY <1>2

\* Whoever was refused is refused again.
LEMMA CallKeepsRefusal ==
  ASSUME WS!SyncTypeOK, wat["producer"] = "refused" => wabort, WS!CallLock("producer")
  PROVE  /\ UNCHANGED wabort
         /\ wat["producer"] = "refused" => wat'["producer"] = "refused"
BY DEF WS!CallLock, WS!Goto, WS!SyncTypeOK, WS!ThreadType

\* Every step keeps account of the samples.
LEMMA WaveformStep ==
  ASSUME Control, Frames, Waveform, [Next]_vars
  PROVE  Waveform'
<1> USE DEF Waveform, Received
<1>t. /\ main \in [pc : MainPlaces, dim : Nat, terminated : BOOLEAN]
      /\ wat["producer"] = "refused" => wabort
      /\ WS!SyncTypeOK
      /\ num_frames_decoded \in Nat
      /\ pipe \in [samples : Nat, finished : BOOLEAN]
  BY DEF Control, ControlType, AbortKnown, Frames, FramesType
<1>s. Sum(wave.input) \in Nat /\ Sum(wave.processed) \in Nat /\ Stored \in Nat
  BY StoredType
<1>a. CASE /\ UNCHANGED <<main, wave, pipe, num_frames_decoded>>
           /\ wat["producer"] = "refused" => wat'["producer"] = "refused"
           /\ wabort => wabort'
  BY <1>a DEF WaveType, Stored
<1>b. CASE /\ UNCHANGED <<wave, pipe, num_frames_decoded, wat, wabort>>
           /\ main.pc \notin MainLocks /\ main'.pc \notin MainLocks
  BY <1>b DEF WaveType, Stored, MainLocks
<1>1. CASE \E dim \in PieceDims : AcceptWaveform(dim)
  <2> PICK dim \in PieceDims : AcceptWaveform(dim)
    BY <1>1
  <2>1. /\ main.pc = "idle" /\ ~wave.finished /\ dim \in Nat
        /\ main' = [main EXCEPT !.pc = "accept", !.dim = dim]
        /\ wave' = [wave EXCEPT !.received = wave.received + dim]
        /\ UNCHANGED <<pipe, num_frames_decoded>>
        /\ WS!CallLock("producer")
    BY DataAssumption DEF AcceptWaveform, MainUnchanged
  <2>2. UNCHANGED wabort /\ (wat["producer"] = "refused" => wat'["producer"] = "refused")
    BY <1>t, <2>1, CallKeepsRefusal
  <2>3. wave.received + dim \in Nat
    BY <2>1 DEF WaveType
  <2>4. /\ WaveType' /\ main'.pc = "accept" /\ main'.dim = dim
        /\ wave'.input = wave.input /\ wave'.processed = wave.processed
        /\ wave'.discarded = wave.discarded /\ wave'.finished = wave.finished
        /\ wave'.received = wave.received + dim
    BY <1>t, <2>1, <2>3 DEF WaveType
  <2>5. Stored' = Stored
    BY <2>4 DEF Stored
  <2>6. Received'
    BY <1>s, <2>1, <2>2, <2>4, <2>5 DEF WaveType
  <2> QED BY <2>1, <2>4, <2>6
<1>2. CASE NumWaveformPiecesPending
  <2>1. /\ UNCHANGED <<wave, pipe, num_frames_decoded>> /\ WS!CallLock("producer")
        /\ main.pc = "idle" /\ main' = [main EXCEPT !.pc = "pending"]
    BY <1>2 DEF NumWaveformPiecesPending, MainGoto, MainUnchanged
  <2>2. UNCHANGED wabort /\ (wat["producer"] = "refused" => wat'["producer"] = "refused")
    BY <1>t, <2>1, CallKeepsRefusal
  <2>3. main'.pc = "pending" /\ Stored' = Stored /\ WaveType'
    BY <1>t, <2>1 DEF Stored, WaveType
  <2> QED BY <2>1, <2>2, <2>3
<1>3. CASE InputFinished
  <2>1. /\ UNCHANGED <<wave, pipe, num_frames_decoded>> /\ WS!CallLock("producer")
        /\ main.pc = "idle" /\ main' = [main EXCEPT !.pc = "finish"]
        /\ ~wave.finished /\ wave.received >= MinSamples
    BY <1>3 DEF InputFinished, MainGoto, MainUnchanged
  <2>2. UNCHANGED wabort /\ (wat["producer"] = "refused" => wat'["producer"] = "refused")
    BY <1>t, <2>1, CallKeepsRefusal
  <2>3. main'.pc = "finish" /\ Stored' = Stored /\ WaveType'
    BY <1>t, <2>1 DEF Stored, WaveType
  <2> QED BY <2>1, <2>2, <2>3
<1>4. CASE TerminateDecoding
  BY <1>4, <1>t, <1>b DEF TerminateDecoding, MainGoto, MainUnchanged, wsync, MainLocks
<1>5. CASE Wait
  BY <1>5, <1>t, <1>b DEF Wait, MainGoto, MainUnchanged, wsync, MainLocks
<1>6. CASE ReadDecoder
  BY <1>6, <1>t, <1>b DEF ReadDecoder, MainGoto, MainUnchanged, wsync, MainLocks
<1>7. CASE GetAdaptationState
  BY <1>7, <1>t, <1>b DEF GetAdaptationState, MainGoto, MainUnchanged, wsync, MainLocks,
       CallGetAdaptationState
<1>8. CASE FinalizeDecoding
  BY <1>8, <1>t, <1>b DEF FinalizeDecoding, MainGoto, MainUnchanged, wsync, MainLocks
<1>9. CASE Destroy
  BY <1>9, <1>t, <1>b DEF Destroy, MainGoto, MainUnchanged, wsync, MainLocks
<1>10. CASE MainLocked
  <2>1. /\ UNCHANGED <<pipe, num_frames_decoded>> /\ wat["producer"] = "locked"
        /\ main' = [main EXCEPT !.pc = "unlock"]
    BY <1>10 DEF MainLocked, MainUnchanged, MainGoto
  <2>2. main'.pc = "unlock" /\ main'.dim = main.dim
    BY <1>t, <2>1
  <2>3. wave.discarded + Stored + (IF main.pc = "accept" THEN main.dim ELSE 0) = wave.received
    BY <2>1
  <2>4. CASE main.pc = "accept"
    <3>1. wave' = [wave EXCEPT !.input = Append(wave.input, main.dim)]
      BY <1>10, <2>4 DEF MainLocked
    <3>2. /\ Append(wave.input, main.dim) \in Seq(Nat)
          /\ Sum(Append(wave.input, main.dim)) = Sum(wave.input) + main.dim
      BY <1>t, SumAppend, AppendProperties DEF WaveType
    <3>3. /\ WaveType' /\ wave'.input = Append(wave.input, main.dim)
          /\ wave'.processed = wave.processed /\ wave'.received = wave.received
          /\ wave'.discarded = wave.discarded /\ wave'.finished = wave.finished
      BY <3>1, <3>2 DEF WaveType
    <3>4. Stored' = Stored + main.dim
      BY <1>s, <1>t, <3>2, <3>3 DEF Stored
    <3> QED BY <1>s, <1>t, <2>1, <2>2, <2>3, <2>4, <3>3, <3>4 DEF WaveType
  <2>5. CASE main.pc = "pending"
    <3>1. wave' = wave
      BY <1>10, <2>5 DEF MainLocked
    <3>2. Stored' = Stored /\ WaveType'
      BY <3>1 DEF Stored, WaveType
    <3> QED BY <2>1, <2>2, <2>3, <2>5, <3>1, <3>2
  <2>6. CASE main.pc = "finish"
    <3>1. wave' = [wave EXCEPT !.finished = TRUE]
      BY <1>10, <2>6 DEF MainLocked
    <3>2. /\ WaveType' /\ wave'.input = wave.input
          /\ wave'.processed = wave.processed /\ wave'.received = wave.received
          /\ wave'.discarded = wave.discarded /\ wave'.finished = TRUE
      BY <3>1 DEF WaveType
    <3>3. Stored' = Stored
      BY <3>2 DEF Stored
    <3> QED BY <2>1, <2>2, <2>3, <2>6, <3>2, <3>3
  <2> QED BY <1>10, <2>4, <2>5, <2>6 DEF MainLocked
<1>11. CASE MainReturns
  <2>1. /\ UNCHANGED <<pipe, num_frames_decoded, wave, wat, wabort>>
        /\ main' = [main EXCEPT !.pc = "idle"]
        /\ main.pc \in MainLocks => wat["producer"] = "refused"
    BY <1>11 DEF MainReturns, MainUnchanged, MainGoto, wsync, MainLocks
  <2>2. main'.pc = "idle"
    BY <1>t, <2>1
  <2>3. CASE main.pc = "accept"
    BY <1>t, <2>1, <2>2, <2>3 DEF WaveType, Stored, MainLocks
  <2>4. CASE main.pc # "accept"
    BY <1>t, <2>1, <2>2, <2>4 DEF WaveType, Stored
  <2> QED BY <2>3, <2>4
<1>12. CASE Join("nnet")
  BY <1>12, <1>t, <1>b DEF Join, MainGoto, MainUnchanged, wsync, MainLocks
<1>13. CASE Join("search")
  BY <1>13, <1>t, <1>b DEF Join, MainGoto, MainUnchanged, wsync, MainLocks
<1>14. CASE Destroyed
  BY <1>14, <1>t, <1>b DEF Destroyed, MainGoto, MainUnchanged, wsync, MainLocks
<1>15. CASE NnetTop
  <2>1. UNCHANGED <<main, wave, pipe, num_frames_decoded>>
    BY <1>15 DEF NnetTop, NnetUnchanged
  <2>2. CASE UNCHANGED wsync
    BY <1>a, <2>1, <2>2 DEF wsync
  <2>3. CASE WS!CallLock("consumer")
    BY <1>a, <1>t, <2>1, <2>3 DEF WS!CallLock, WS!Goto, WS!SyncTypeOK, WS!ThreadType
  <2> QED BY <1>15, <2>2, <2>3 DEF NnetTop
<1>16. CASE NnetWaveform
  <2>1. UNCHANGED <<main, num_frames_decoded>> /\ nnet.pc = "wave"
    BY <1>16 DEF NnetWaveform, NnetUnchanged
  <2>2. WS!UnlockSuccess("consumer") \/ WS!UnlockFailure("consumer")
    BY <1>16 DEF NnetWaveform, NoWaveform, TakeWaveform
  <2>3. UNCHANGED wabort /\ wat'["producer"] = wat["producer"]
    BY <1>t, <2>2 DEF WS!UnlockSuccess, WS!UnlockFailure, WS!Goto, WS!SyncTypeOK, WS!ThreadType
  <2>4. CASE NoWaveform
    <3>1. CASE UNCHANGED pipe
      BY <1>a, <2>1, <2>3, <2>4, <3>1 DEF NoWaveform
    <3>2. CASE wave.finished /\ pipe' = [pipe EXCEPT !.finished = TRUE]
      <4>1. UNCHANGED wave /\ wave.input = <<>>
        BY <2>4 DEF NoWaveform
      <4>2. pipe'.samples = pipe.samples /\ pipe'.finished = TRUE
        BY <1>t, <3>2
      <4>3. Stored' = Stored /\ WaveType'
        BY <4>1 DEF Stored, WaveType
      <4> QED BY <2>1, <2>3, <3>2, <4>1, <4>2, <4>3
    <3> QED BY <2>4, <3>1, <3>2 DEF NoWaveform
  <2>5. CASE TakeWaveform
    <3>1. /\ WaveType'
          /\ pipe'.finished = pipe.finished
          /\ pipe'.samples = wave'.discarded + Sum(wave'.processed)
          /\ wave'.discarded <= Shift * num_frames_decoded
          /\ wave'.discarded + Sum(wave'.processed) + Sum(wave'.input)
               = wave.discarded + Sum(wave.processed) + Sum(wave.input)
          /\ wave'.received = wave.received
          /\ wave'.finished = wave.finished
      BY <2>5, WaveformMoved DEF Frames
    <3>2. ~pipe.finished
      BY <2>1 DEF Frames, Ended
    <3>3. Sum(wave'.input) \in Nat /\ Sum(wave'.processed) \in Nat
      BY <3>1, SumOfSeq DEF WaveType
    <3>4. wave'.discarded \in Nat /\ wave.discarded \in Nat
      BY <3>1 DEF WaveType
    <3>5. Stored' = Sum(wave'.processed) + Sum(wave'.input)
      BY DEF Stored
    <3>6. wave'.discarded + Stored' = wave.discarded + Stored
      BY <1>s, <3>1, <3>3, <3>4, <3>5 DEF Stored
    <3>7. Received'
      BY <2>1, <2>3, <3>1, <3>6
    <3> QED BY <2>1, <3>1, <3>2, <3>7
  <2> QED BY <1>16, <2>4, <2>5 DEF NnetWaveform
<1>17. CASE NnetWaveformRefused
  BY <1>17, <1>a DEF NnetWaveformRefused, NnetUnchanged, wsync
<1>18. CASE NnetFeaturesThrow
  BY <1>18, <1>a DEF NnetFeaturesThrow, NnetUnchanged, wsync
<1>19. CASE NnetWaveformTaken
  BY <1>19, <1>a DEF NnetWaveformTaken, NnetUnchanged, wsync
<1>20. CASE NnetCompute
  BY <1>20, <1>a DEF NnetCompute, NnetUnchanged, wsync
<1>21. CASE NnetComputeThrows
  BY <1>21, <1>a DEF NnetComputeThrows, NnetUnchanged, wsync
<1>22. CASE NnetGive
  BY <1>22, <1>a DEF NnetGive, NnetUnchanged, wsync
<1>23. CASE NnetGiven
  BY <1>23, <1>a DEF NnetGiven, NnetUnchanged, wsync
<1>24. CASE NnetInputIsFinished
  BY <1>24, <1>a DEF NnetInputIsFinished, NnetUnchanged, wsync
<1>25. CASE NnetFinished
  BY <1>25, <1>a DEF NnetFinished, NnetUnchanged, wsync
<1>26. CASE NnetLoglikesRefused
  BY <1>26, <1>a DEF NnetLoglikesRefused, NnetUnchanged, wsync
<1>27. CASE NnetReturnsFalse
  BY <1>27, <1>a DEF NnetReturnsFalse, NnetUnchanged, wsync
<1>28. CASE NnetCatches
  BY <1>28, <1>a DEF NnetCatches, NnetUnchanged, wsync
<1>29. CASE SearchTop
  BY <1>29, <1>a DEF SearchTop, SearchUnchanged, wsync
<1>30. CASE SearchNoFrames
  BY <1>30, <1>a DEF SearchNoFrames, SearchUnchanged, wsync
<1>31. CASE SearchAdvance
  BY <1>31, <1>a DEF SearchAdvance, SearchUnchanged, wsync
<1>32. CASE SearchThrows
  BY <1>32, <1>a DEF SearchThrows, SearchUnchanged, wsync
<1>33. CASE SearchPublish
  <2>1. UNCHANGED <<main, wave, pipe, wat, wabort>> /\ num_frames_decoded' = search.frames
    BY <1>33 DEF SearchPublish, SearchUnchanged, wsync
  <2>2. num_frames_decoded <= search.frames /\ search.frames \in Nat
    BY DEF Frames, FramesType, Counted
  <2>3. Shift * num_frames_decoded <= Shift * num_frames_decoded'
    BY <1>t, <2>1, <2>2, LimitGrows
  <2>4. wave.discarded <= Shift * num_frames_decoded'
    <3>1. Shift * num_frames_decoded \in Nat /\ Shift * num_frames_decoded' \in Nat
      BY <1>t, <2>1, <2>2, DataAssumption
    <3> QED BY <2>3, <3>1 DEF WaveType
  <2>5. Stored' = Stored /\ WaveType'
    BY <2>1 DEF Stored, WaveType
  <2> QED BY <2>1, <2>4, <2>5
<1>34. CASE SearchReturned
  BY <1>34, <1>a DEF SearchReturned, SearchUnchanged, wsync
<1>35. CASE SearchCatches
  BY <1>35, <1>a DEF SearchCatches, SearchUnchanged, wsync
<1>36. CASE \E t \in {"main", "nnet", "search"} : AbortStep(t)
  BY <1>36, <1>a DEF AbortStep, WS!RaiseAbort, WS!SignalAbort, wsync
<1>37. CASE \E t \in {"producer", "consumer"} : InWaveform(t)
  <2> PICK t \in {"producer", "consumer"} : InWaveform(t)
    BY <1>37
  <2>1. UNCHANGED <<main, wave, pipe, num_frames_decoded>> /\ WS!RunInside(t)
    BY DEF InWaveform
  <2>2. UNCHANGED wabort /\ (wat["producer"] = "refused" => wat'["producer"] = "refused")
    BY <1>t, <2>1 DEF WS!RunInside, WS!WaitSemaphore, WS!RetestAbort, WS!LockMutex,
          WS!FinishLock, WS!UnlockMutex, WS!ReturnFromUnlock, WS!Goto, WS!SyncTypeOK, WS!ThreadType
  <2> QED BY <1>a, <2>1, <2>2
<1>38. CASE \E t \in {"producer", "consumer"} : InDecodable(t)
  BY <1>38, <1>a DEF InDecodable, wsync
<1>39. CASE UNCHANGED vars
  BY <1>39, <1>a DEF vars, wsync
<1> QED
  BY <1>1, <1>2, <1>3, <1>4, <1>5, <1>6, <1>7, <1>8, <1>9, <1>10, <1>11, <1>12, <1>13, <1>14,
       <1>15, <1>16, <1>17, <1>18, <1>19, <1>20, <1>21, <1>22, <1>23, <1>24, <1>25, <1>26,
       <1>27, <1>28, <1>29, <1>30, <1>31, <1>32, <1>33, <1>34, <1>35, <1>36, <1>37, <1>38,
       <1>39 DEF Next, MainCalls, MainRuns, Nnet, Search, Runs, Gone
-----------------------------------------------------------------------------
(* Frames                                                                  *)

\* The features have no fewer samples after FeatureComputation().
LEMMA WaveformTaken ==
  ASSUME Frames, Waveform, NnetWaveform
  PROVE  pipe' \in [samples : Nat, finished : BOOLEAN] /\ pipe.samples <= pipe'.samples
<1>1. CASE NoWaveform
  <2>1. pipe' = pipe \/ pipe' = [pipe EXCEPT !.finished = TRUE]
    BY <1>1 DEF NoWaveform
  <2>2. pipe \in [samples : Nat, finished : BOOLEAN]
    BY DEF Frames, FramesType
  <2>3. pipe'.samples = pipe.samples /\ pipe.samples \in Nat
    BY <2>1, <2>2
  <2>4. pipe' \in [samples : Nat, finished : BOOLEAN]
    BY <2>1, <2>2
  <2> QED BY <2>3, <2>4
<1>2. CASE TakeWaveform
  BY <1>2, WaveformMoved DEF Frames, Waveform
<1> QED BY <1>1, <1>2 DEF NnetWaveform

\* The frames that the nnet thread takes are there; none means there are none.
LEMMA FramesTakenType ==
  ASSUME FramesType, nnet.consumed <= NumFramesReady
  PROVE  /\ FramesTaken \in Nat
         /\ FramesTaken <= NumFramesReady - nnet.consumed
         /\ FramesTaken = 0 => NumFramesReady = nnet.consumed
<1>1. NumFramesReady - nnet.consumed \in Nat
  BY NumFramesType DEF FramesType, NumFramesReady
<1> DEFINE n == NumFramesReady - nnet.consumed
<1> HIDE DEF n
<1>2. n \in Nat /\ NnetBatchSize \in Nat \ {0}
  BY <1>1, ConfigAssumption DEF n
<1>3. FramesTaken = Min({n, NnetBatchSize})
  BY DEF FramesTaken, n
<1>4. FramesTaken \in Nat /\ FramesTaken <= n /\ (FramesTaken = 0 => n = 0)
  <2>1. /\ Min({n, NnetBatchSize}) \in {n, NnetBatchSize}
        /\ Min({n, NnetBatchSize}) <= n
    BY <1>2, MinOfTwo
  <2> QED BY <1>2, <1>3, <2>1
<1>5. NumFramesReady \in Int /\ nnet.consumed \in Int
  BY NumFramesType DEF FramesType, NumFramesReady
<1> QED BY <1>4, <1>5 DEF n

\* What AdvanceDecoding() is called for goes forward, by at most a batch.
LEMMA AdvanceDecodingType ==
  ASSUME FramesType, NumLoglikesReady > search.frames
  PROVE  /\ AdvanceDecoding \in Nat
         /\ search.frames <= AdvanceDecoding
         /\ AdvanceDecoding <= search.frames + DecodeBatchSize
         /\ AdvanceDecoding <= NumLoglikesReady
<1>1. search.frames \in Nat
  BY DEF FramesType
<1>2. decodable.offset \in Nat /\ decodable.rows \in Nat
  BY DEF FramesType
<1>3. NumLoglikesReady \in Nat
  BY <1>2 DEF NumLoglikesReady
<1>4. /\ search.frames + DecodeBatchSize \in Nat
      /\ search.frames <= search.frames + DecodeBatchSize
  BY <1>1, ConfigAssumption
<1>5. /\ AdvanceDecoding \in {NumLoglikesReady, search.frames + DecodeBatchSize}
      /\ AdvanceDecoding <= NumLoglikesReady
      /\ AdvanceDecoding <= search.frames + DecodeBatchSize
  <2> DEFINE batch == search.frames + DecodeBatchSize
  <2>1. NumLoglikesReady \in Int /\ batch \in Int
    BY <1>3, <1>4
  <2> HIDE DEF batch
  <2>2. /\ Min({NumLoglikesReady, batch}) \in {NumLoglikesReady, batch}
        /\ Min({NumLoglikesReady, batch}) <= NumLoglikesReady
        /\ Min({NumLoglikesReady, batch}) <= batch
    BY <2>1, MinOfTwo
  <2> QED BY <2>2 DEF batch, AdvanceDecoding
<1> HIDE DEF AdvanceDecoding
<1> QED BY <1>1, <1>3, <1>4, <1>5

\* Every step keeps the order of the stages and what their ends mean.
LEMMA FramesStep ==
  ASSUME Control, Frames, Waveform, [Next]_vars
  PROVE  Frames'
<1> USE DataAssumption DEF Frames, FramesType, Counted, Ended, Computed, NumLoglikesReady
<1> USE DEF NnetFeatures, NnetGives, NnetFailed, NnetPlaces, SearchPlaces
<1>0. NumFramesReady \in Nat
  BY NumFramesType DEF NumFramesReady
<1>a. CASE UNCHANGED <<pipe, nnet, decodable, search, num_frames_decoded>> /\ (abort => abort')
  BY <1>a DEF MainUnchanged, AbortAllThreads, CallGetAdaptationState, flags, NumFramesReady
<1>1. CASE \E dim \in PieceDims : AcceptWaveform(dim)
  BY <1>1, <1>a DEF MainUnchanged, AbortAllThreads, CallGetAdaptationState, flags,
       AcceptWaveform
<1>2. CASE NumWaveformPiecesPending
  BY <1>2, <1>a DEF MainUnchanged, AbortAllThreads, CallGetAdaptationState, flags,
       NumWaveformPiecesPending
<1>3. CASE InputFinished
  BY <1>3, <1>a DEF MainUnchanged, AbortAllThreads, CallGetAdaptationState, flags, InputFinished
<1>4. CASE TerminateDecoding
  BY <1>4, <1>a DEF MainUnchanged, AbortAllThreads, CallGetAdaptationState, flags,
       TerminateDecoding
<1>5. CASE Wait
  BY <1>5, <1>a DEF MainUnchanged, AbortAllThreads, CallGetAdaptationState, flags, Wait
<1>6. CASE ReadDecoder
  BY <1>6, <1>a DEF MainUnchanged, AbortAllThreads, CallGetAdaptationState, flags, ReadDecoder
<1>7. CASE GetAdaptationState
  BY <1>7, <1>a DEF MainUnchanged, AbortAllThreads, CallGetAdaptationState, flags,
       GetAdaptationState
<1>8. CASE FinalizeDecoding
  BY <1>8, <1>a DEF MainUnchanged, AbortAllThreads, CallGetAdaptationState, flags,
       FinalizeDecoding
<1>9. CASE Destroy
  BY <1>9, <1>a DEF MainUnchanged, AbortAllThreads, CallGetAdaptationState, flags, Destroy
<1>10. CASE MainLocked
  BY <1>10, <1>a DEF MainUnchanged, AbortAllThreads, CallGetAdaptationState, flags, MainLocked
<1>11. CASE MainReturns
  BY <1>11, <1>a DEF MainUnchanged, AbortAllThreads, CallGetAdaptationState, flags, MainReturns
<1>12. CASE Join("nnet")
  BY <1>12, <1>a DEF MainUnchanged, AbortAllThreads, CallGetAdaptationState, flags, Join
<1>13. CASE Join("search")
  BY <1>13, <1>a DEF MainUnchanged, AbortAllThreads, CallGetAdaptationState, flags, Join
<1>14. CASE Destroyed
  BY <1>14, <1>a DEF MainUnchanged, AbortAllThreads, CallGetAdaptationState, flags, Destroyed
<1>15. CASE NnetTop
  <2>1. UNCHANGED <<pipe, decodable, search, num_frames_decoded, abort>>
    BY <1>15 DEF NnetTop, NnetUnchanged, flags
  <2>0. NumFramesReady' = NumFramesReady
    BY <2>1 DEF NumFramesReady
  <2>2. PICK place \in {"take", "wave"} :
          nnet' = [nnet EXCEPT !.pc = place] /\ (place = "wave" => ~pipe.finished)
    BY <1>15 DEF NnetTop, NnetGoto, FeaturesDone
  <2>3. nnet.pc = "top"
    BY <1>15 DEF NnetTop
  <2>a. FramesType'
    BY <1>0, <2>0, <2>1, <2>2, <2>3
  <2>b. Counted'
    BY <1>0, <2>0, <2>1, <2>2, <2>3
  <2>c. Ended'
    BY <1>0, <2>0, <2>1, <2>2, <2>3
  <2> QED BY <2>a, <2>b, <2>c
<1>16. CASE NnetWaveform
  <2>1. UNCHANGED <<decodable, search, num_frames_decoded, abort>> /\ nnet.pc = "wave"
    BY <1>16 DEF NnetWaveform, NnetUnchanged, flags
  <2>2. nnet' = [nnet EXCEPT !.pc = "taken"]
    BY <1>16 DEF NnetWaveform, NnetGoto
  <2>3. pipe' \in [samples : Nat, finished : BOOLEAN] /\ pipe.samples <= pipe'.samples
    BY <1>16, WaveformTaken
  <2>4. NumFramesReady <= NumFramesReady'
    BY <2>3, NumFramesMonotonic DEF NumFramesReady
  <2>5. NumFramesReady \in Nat /\ NumFramesReady' \in Nat
    BY <2>3, NumFramesType DEF NumFramesReady
  <2>6. ~nnet.last /\ ~decodable.finished
    BY <2>1
  <2> QED BY <2>1, <2>2, <2>3, <2>4, <2>5, <2>6
<1>17. CASE NnetWaveformRefused
  BY <1>0, <1>17 DEF NnetWaveformRefused, NnetUnchanged, flags, NumFramesReady, NnetGoto
<1>18. CASE NnetFeaturesThrow
  BY <1>0, <1>18 DEF NnetFeaturesThrow, NnetUnchanged, flags, NumFramesReady
<1>19. CASE NnetWaveformTaken
  BY <1>0, <1>19 DEF NnetWaveformTaken, NnetUnchanged, flags, NumFramesReady, NnetGoto
<1>20. CASE NnetCompute
  <2>1. UNCHANGED <<pipe, decodable, search, num_frames_decoded, abort>> /\ nnet.pc = "take"
    BY <1>20 DEF NnetCompute, NnetUnchanged, flags
  <2>0. NumFramesReady' = NumFramesReady
    BY <2>1 DEF NumFramesReady
  <2> DEFINE consumed == nnet.consumed + FramesTaken
             rows == IF Flushing THEN RightContext
                     ELSE OutputFrames(consumed) - OutputFrames(nnet.consumed)
  <2>2. nnet' = [nnet EXCEPT
                !.consumed = consumed, !.rows = rows, !.last = Flushing,
                !.pc = IF rows > 0 THEN "give" ELSE IF Flushing THEN "finish" ELSE "top"]
    BY <1>20 DEF NnetCompute
  <2>3. /\ FramesTaken \in Nat /\ consumed \in Nat /\ consumed <= NumFramesReady
        /\ Flushing => consumed = NumFramesReady /\ consumed = nnet.consumed /\ pipe.finished
    BY FramesTakenType, <1>0, NumFramesType DEF NumFramesReady, Flushing, FeaturesDone
  <2>4. Flushing => nnet.consumed > RightContext \/ (RightContext = 0 /\ nnet.consumed > 0)
    BY <1>20 DEF NnetCompute, FlushFails
  <2>5. rows \in Nat /\ nnet.output + rows = IF Flushing THEN consumed ELSE OutputFrames(consumed)
    <3>1. CASE Flushing
      BY <2>1, <2>3, <2>4, <3>1 DEF OutputFrames
    <3>2. CASE ~Flushing
      BY <2>1, <2>3, <3>2 DEF OutputFrames
    <3> QED BY <3>1, <3>2
  <2>6. OutputFrames(consumed) <= consumed
    BY <2>3 DEF OutputFrames
  <2>7. Flushing \in BOOLEAN
    BY DEF Flushing
  <2> HIDE DEF consumed, rows
  <2>8. nnet' \in [pc : NnetPlaces, consumed : Nat, output : Nat, rows : Nat,
                   last : BOOLEAN, thrown : BOOLEAN]
    BY <2>2, <2>3, <2>5, <2>7
  <2>9. /\ nnet'.consumed = consumed /\ nnet'.output = nnet.output /\ nnet'.last = Flushing
        /\ nnet'.rows = rows
        /\ nnet'.pc = IF rows > 0 THEN "give" ELSE IF Flushing THEN "finish" ELSE "top"
    BY <2>2
  <2>10. Counted'
    BY <1>0, <2>0, <2>1, <2>3, <2>5, <2>6, <2>8, <2>9
  <2>11. Ended'
    BY <1>0, <2>0, <2>1, <2>3, <2>5, <2>8, <2>9
  <2> QED BY <2>1, <2>8, <2>10, <2>11
<1>21. CASE NnetComputeThrows
  <2>1. UNCHANGED <<pipe, decodable, search, num_frames_decoded, abort>> /\ nnet.pc = "take"
    BY <1>21 DEF NnetComputeThrows, NnetUnchanged, flags
  <2>2. \/ nnet' = [nnet EXCEPT !.pc = "threw"]
        \/ nnet' = [nnet EXCEPT !.pc = "threw", !.thrown = TRUE]
    BY <1>21 DEF NnetComputeThrows, NnetGoto
  <2>3. /\ nnet'.pc = "threw" /\ nnet'.consumed = nnet.consumed
        /\ nnet'.output = nnet.output /\ nnet'.last = nnet.last
    BY <2>2
  <2>0. NumFramesReady' = NumFramesReady
    BY <2>1 DEF NumFramesReady
  <2>a. FramesType'
    BY <1>0, <2>0, <2>1, <2>2
  <2>b. Counted'
    BY <1>0, <2>0, <2>1, <2>3
  <2>c. Ended'
    BY <1>0, <2>0, <2>1, <2>3
  <2> QED BY <2>a, <2>b, <2>c
<1>22. CASE NnetGive
  <2>1. UNCHANGED <<pipe, search, num_frames_decoded, abort>> /\ nnet.pc = "give"
    BY <1>22 DEF NnetGive, NnetUnchanged, flags
  <2>0. NumFramesReady' = NumFramesReady
    BY <2>1 DEF NumFramesReady
  <2>2. CASE AcceptLoglikes
    <3>1. /\ decodable' = [decodable EXCEPT !.offset = num_frames_decoded,
                 !.rows = decodable.rows - (num_frames_decoded - decodable.offset) + nnet.rows]
          /\ nnet' = [nnet EXCEPT !.output = nnet.output + nnet.rows, !.pc = "given"]
      BY <2>2 DEF AcceptLoglikes
    <3>2. decodable.rows - (num_frames_decoded - decodable.offset) + nnet.rows \in Nat
      OBVIOUS
    <3>3. nnet.output + nnet.rows <= nnet.consumed
      BY <2>1 DEF OutputFrames
    <3>4. FramesType'
      <4>1. decodable' \in [offset : Nat, rows : Nat, finished : BOOLEAN]
        BY <3>1, <3>2
      <4>2. nnet' \in [pc : NnetPlaces, consumed : Nat, output : Nat, rows : Nat,
                        last : BOOLEAN, thrown : BOOLEAN]
        <5> DEFINE output == nnet.output + nnet.rows
        <5>1. output \in Nat /\ "given" \in NnetPlaces
          OBVIOUS
        <5>2. nnet' = [nnet EXCEPT !.output = output, !.pc = "given"]
          BY <3>1
        <5> HIDE DEF output
        <5> QED BY <5>1, <5>2
      <4> QED BY <2>1, <4>1, <4>2
    <3>5. Counted'
      BY <1>0, <2>0, <2>1, <3>1, <3>2, <3>3
    <3>6. Ended'
      BY <1>0, <2>0, <2>1, <3>1, <3>2
    <3> QED BY <3>4, <3>5, <3>6
  <2>3. CASE NnetGoto("retry") /\ UNCHANGED decodable
    <3>1. FramesType'
      BY <2>1, <2>3 DEF NnetGoto
    <3>2. Counted'
      BY <1>0, <2>0, <2>1, <2>3 DEF NnetGoto
    <3>3. Ended'
      BY <1>0, <2>0, <2>1, <2>3 DEF NnetGoto
    <3> QED BY <3>1, <3>2, <3>3
  <2> QED BY <1>22, <2>2, <2>3 DEF NnetGive
<1>23. CASE NnetGiven
  BY <1>0, <1>23 DEF NnetGiven, NnetUnchanged, flags, NumFramesReady, NnetGoto
<1>24. CASE NnetInputIsFinished
  <2>1. UNCHANGED <<pipe, search, num_frames_decoded, abort>> /\ nnet.pc = "finish"
    BY <1>24 DEF NnetInputIsFinished, NnetUnchanged, flags
  <2>2. /\ decodable' = [decodable EXCEPT !.finished = TRUE]
        /\ nnet' = [nnet EXCEPT !.pc = "finished"]
    BY <1>24 DEF NnetInputIsFinished, NnetGoto
  <2>0. NumFramesReady' = NumFramesReady
    BY <2>1 DEF NumFramesReady
  <2>a. FramesType'
    BY <1>0, <2>0, <2>1, <2>2
  <2>b. Counted'
    BY <1>0, <2>0, <2>1, <2>2
  <2>c. Ended'
    BY <1>0, <2>0, <2>1, <2>2
  <2> QED BY <2>a, <2>b, <2>c
<1>25. CASE NnetFinished
  BY <1>0, <1>25 DEF NnetFinished, NnetUnchanged, flags, NumFramesReady, NnetGoto
<1>26. CASE NnetLoglikesRefused
  BY <1>0, <1>26 DEF NnetLoglikesRefused, NnetUnchanged, flags, NumFramesReady, NnetGoto
<1>27. CASE NnetReturnsFalse
  BY <1>0, <1>27 DEF NnetReturnsFalse, NnetUnchanged, flags, NumFramesReady, NnetGoto
<1>28. CASE NnetCatches
  BY <1>0, <1>28 DEF NnetCatches, NnetUnchanged, flags, NumFramesReady, NnetGoto,
       AbortAllThreads
<1>29. CASE SearchTop
  BY <1>0, <1>29 DEF SearchTop, SearchUnchanged, flags, NumFramesReady, SearchGoto
<1>30. CASE SearchNoFrames
  BY <1>0, <1>30 DEF SearchNoFrames, SearchUnchanged, flags, NumFramesReady, SearchGoto
<1>31. CASE SearchAdvance
  <2>1. UNCHANGED <<pipe, decodable, nnet, num_frames_decoded, abort>> /\ search.pc = "lock"
    BY <1>31 DEF SearchAdvance, SearchUnchanged, flags
  <2>2. /\ search' = [search EXCEPT !.pc = "decoded", !.frames = AdvanceDecoding]
        /\ NumLoglikesReady > search.frames
    BY <1>31 DEF SearchAdvance
  <2>3. /\ AdvanceDecoding \in Nat
        /\ search.frames <= AdvanceDecoding
        /\ AdvanceDecoding <= search.frames + DecodeBatchSize
        /\ AdvanceDecoding <= NumLoglikesReady
    BY <2>2, AdvanceDecodingType
  <2> HIDE DEF AdvanceDecoding
  <2>0. NumFramesReady' = NumFramesReady
    BY <2>1 DEF NumFramesReady
  <2>a. FramesType'
    BY <1>0, <2>0, <2>1, <2>2, <2>3
  <2>b. Counted'
    BY <1>0, <2>0, <2>1, <2>2, <2>3
  <2>c. Ended'
    BY <1>0, <2>0, <2>1, <2>2, <2>3
  <2> QED BY <2>a, <2>b, <2>c
<1>32. CASE SearchThrows
  <2>1. UNCHANGED <<pipe, decodable, nnet, num_frames_decoded, abort>> /\ search.pc = "lock"
    BY <1>32 DEF SearchThrows, SearchUnchanged, flags
  <2>2. PICK frames \in search.frames..AdvanceDecoding :
           search' = [search EXCEPT !.pc = "threw", !.frames = frames, !.thrown = TRUE]
    BY <1>32 DEF SearchThrows
  <2>3. /\ NumLoglikesReady > search.frames
        /\ AdvanceDecoding \in Nat
        /\ AdvanceDecoding <= search.frames + DecodeBatchSize
        /\ AdvanceDecoding <= NumLoglikesReady
    BY <1>32, AdvanceDecodingType DEF SearchThrows
  <2>4. frames \in Nat /\ search.frames <= frames /\ frames <= AdvanceDecoding
    BY <2>3
  <2> HIDE DEF AdvanceDecoding
  <2>0. NumFramesReady' = NumFramesReady
    BY <2>1 DEF NumFramesReady
  <2>a. FramesType'
    BY <1>0, <2>0, <2>1, <2>2, <2>4
  <2>b. Counted'
    BY <1>0, <2>0, <2>1, <2>2, <2>3, <2>4, ConfigAssumption
  <2>c. Ended'
    BY <1>0, <2>0, <2>1, <2>2, <2>3, <2>4
  <2> QED BY <2>a, <2>b, <2>c
<1>33. CASE SearchPublish
  <2>1. /\ UNCHANGED <<pipe, decodable, nnet, abort>> /\ num_frames_decoded' = search.frames
        /\ search.pc = "decoded" /\ search' = [search EXCEPT !.pc = "unlock"]
    BY <1>33 DEF SearchPublish, SearchUnchanged, flags, SearchGoto
  <2>2. /\ ~search.thrown /\ search'.pc = "unlock" /\ search'.frames = search.frames
        /\ search'.thrown = search.thrown
    BY <2>1
  <2>0. NumFramesReady' = NumFramesReady
    BY <2>1 DEF NumFramesReady
  <2>a. FramesType'
    BY <1>0, <2>0, <2>1
  <2>b. Counted'
    BY <1>0, <2>0, <2>1, <2>2, ConfigAssumption
  <2>c. Ended'
    BY <1>0, <2>0, <2>1, <2>2
  <2> QED BY <2>a, <2>b, <2>c
<1>34. CASE SearchReturned
  <2>1. UNCHANGED <<pipe, decodable, nnet, num_frames_decoded, abort>>
    BY <1>34 DEF SearchReturned, SearchUnchanged, flags
  <2>2. PICK place \in SearchPlaces : search' = [search EXCEPT !.pc = place]
    BY <1>34 DEF SearchReturned, SearchGoto
  <2>3. /\ search.pc # "decoded" /\ place \notin {"last", "decoded"}
        /\ place = "exit" => search.pc = "last" \/ abort
    BY <1>34, <2>2 DEF SearchReturned, SearchGoto
  <2>4. search.pc \notin {"threw", "exit"}
    BY <1>34 DEF SearchReturned
  <2>5. /\ ~search.thrown /\ num_frames_decoded = search.frames
        /\ search'.pc = place /\ search'.frames = search.frames
        /\ search'.thrown = search.thrown
    BY <2>2, <2>3, <2>4
  <2>0. NumFramesReady' = NumFramesReady
    BY <2>1 DEF NumFramesReady
  <2>a. FramesType'
    BY <1>0, <2>0, <2>1, <2>2, <2>3
  <2>b. Counted'
    BY <1>0, <2>0, <2>1, <2>5, ConfigAssumption
  <2>c. Ended'
    BY <1>0, <2>0, <2>1, <2>2, <2>3
  <2> QED BY <2>a, <2>b, <2>c
<1>35. CASE SearchCatches
  BY <1>0, <1>35 DEF SearchCatches, SearchUnchanged, flags, NumFramesReady, SearchGoto,
       AbortAllThreads
<1>36. CASE \E t \in {"main", "nnet", "search"} : AbortStep(t)
  BY <1>36, <1>a DEF MainUnchanged, AbortAllThreads, CallGetAdaptationState, flags, AbortStep
<1>37. CASE \E t \in {"producer", "consumer"} : InWaveform(t)
  BY <1>37, <1>a DEF MainUnchanged, AbortAllThreads, CallGetAdaptationState, flags, InWaveform
<1>38. CASE \E t \in {"producer", "consumer"} : InDecodable(t)
  BY <1>38, <1>a DEF MainUnchanged, AbortAllThreads, CallGetAdaptationState, flags, InDecodable
<1>39. CASE UNCHANGED vars
  BY <1>39, <1>a DEF MainUnchanged, AbortAllThreads, CallGetAdaptationState, flags, vars, flags
<1> QED
  BY <1>1, <1>2, <1>3, <1>4, <1>5, <1>6, <1>7, <1>8, <1>9, <1>10, <1>11, <1>12, <1>13, <1>14,
       <1>15, <1>16, <1>17, <1>18, <1>19, <1>20, <1>21, <1>22, <1>23, <1>24, <1>25, <1>26,
       <1>27, <1>28, <1>29, <1>30, <1>31, <1>32, <1>33, <1>34, <1>35, <1>36, <1>37, <1>38,
       <1>39 DEF Next, MainCalls, MainRuns, Nnet, Search, Runs, Gone
-----------------------------------------------------------------------------
(* Waiting                                                                 *)

\* A call of Lock() leaves the permits.
LEMMA PermitsCall ==
  ASSUME NEW t \in {"producer", "consumer"}, DS!SyncTypeOK, Permits, DS!CallLock(t)
  PROVE  Permits'
BY DEF Permits, Permit, DS!SyncTypeOK, DS!ThreadType, DS!Places, DS!CallLock, DS!Goto

\* UnlockSuccess() gives the permits back, and then nobody waits.
LEMMA PermitsSuccess ==
  ASSUME NEW t \in {"producer", "consumer"}, DS!SyncTypeOK, Permits, DS!UnlockSuccess(t)
  PROVE  Permits' /\ \A u \in {"producer", "consumer"} : ~dwaiting'[u]
<1> USE DEF Permits, Permit, DS!SyncTypeOK, DS!ThreadType, DS!Places, DS!UnlockSuccess, DS!Goto,
     DS!Other
<1>1. CASE t = "producer"
  BY <1>1
<1>2. CASE t = "consumer"
  BY <1>2
<1> QED BY <1>1, <1>2

\* UnlockFailure() leaves the caller's permit to its flag.
LEMMA PermitsFailure ==
  ASSUME NEW t \in {"producer", "consumer"}, DS!SyncTypeOK, Permits, DS!UnlockFailure(t)
  PROVE  /\ Permits'
         /\ \A u \in {"producer", "consumer"} \ {t} : dwaiting'[u] = dwaiting[u]
BY DEF Permits, Permit, DS!SyncTypeOK, DS!ThreadType, DS!Places, DS!UnlockFailure, DS!Goto

\* What a thread does inside the synchronizer leaves the permits.
LEMMA PermitsInside ==
  ASSUME NEW t \in {"producer", "consumer"}, DS!SyncTypeOK, Permits, DS!RunInside(t)
  PROVE  Permits' /\ UNCHANGED dwaiting
<1> USE DEF Permits, Permit, DS!SyncTypeOK, DS!ThreadType, DS!Places, DS!Goto
<1>1. CASE DS!WaitSemaphore(t)
  BY <1>1 DEF DS!WaitSemaphore
<1>2. CASE DS!RetestAbort(t)
  BY <1>2 DEF DS!RetestAbort
<1>3. CASE DS!LockMutex(t)
  BY <1>3 DEF DS!LockMutex
<1>4. CASE DS!FinishLock(t)
  BY <1>4 DEF DS!FinishLock
<1>5. CASE DS!UnlockMutex(t)
  BY <1>5 DEF DS!UnlockMutex
<1>6. CASE DS!ReturnFromUnlock(t)
  BY <1>6 DEF DS!ReturnFromUnlock
<1> QED BY <1>1, <1>2, <1>3, <1>4, <1>5, <1>6 DEF DS!RunInside

\* Every step keeps the permits, and the reason for which each side waits: what
\* it waits on changes only by an UnlockSuccess() of the other side.
LEMMA WaitingStep ==
  ASSUME Control, Frames, Waiting, [Next]_vars
  PROVE  Waiting'
<1> USE DEF Waiting
<1>t. DS!SyncTypeOK /\ WS!SyncTypeOK
  BY DEF Control, ControlType
<1>a. CASE UNCHANGED <<nnet.output, num_frames_decoded, dsync, wwaiting>>
  BY <1>a DEF dsync, Permits, Permit
<1>b. CASE UNCHANGED <<nnet.output, num_frames_decoded, wwaiting, dwaiting>> /\ Permits'
  BY <1>b
<1>c. CASE /\ UNCHANGED wwaiting /\ Permits'
           /\ \A u \in {"producer", "consumer"} : ~dwaiting'[u]
  BY <1>c
<1>1. CASE \E dim \in PieceDims : AcceptWaveform(dim)
  BY <1>1, <1>a DEF AcceptWaveform, MainUnchanged, WS!CallLock
<1>2. CASE NumWaveformPiecesPending
  BY <1>2, <1>a DEF NumWaveformPiecesPending, MainUnchanged, WS!CallLock
<1>3. CASE InputFinished
  BY <1>3, <1>a DEF InputFinished, MainUnchanged, WS!CallLock
<1>4. CASE TerminateDecoding
  BY <1>4, <1>a DEF TerminateDecoding, MainUnchanged, wsync
<1>5. CASE Wait
  BY <1>5, <1>a DEF Wait, MainUnchanged, wsync
<1>6. CASE ReadDecoder
  BY <1>6, <1>a DEF ReadDecoder, MainUnchanged, wsync
<1>7. CASE GetAdaptationState
  BY <1>7, <1>a DEF GetAdaptationState, MainUnchanged, wsync, CallGetAdaptationState
<1>8. CASE FinalizeDecoding
  BY <1>8, <1>a DEF FinalizeDecoding, MainUnchanged, wsync
<1>9. CASE Destroy
  BY <1>9, <1>a DEF Destroy, MainUnchanged, wsync
<1>10. CASE MainLocked
  <2>1. UNCHANGED <<nnet.output, num_frames_decoded, dsync>>
    BY <1>10 DEF MainLocked, MainUnchanged
  <2>2. ~wwaiting'["producer"]
    BY <1>10, <1>t DEF MainLocked, WS!UnlockSuccess, WS!SyncTypeOK, WS!ThreadType, WS!Other
  <2> QED BY <2>1, <2>2 DEF dsync, Permits, Permit
<1>11. CASE MainReturns
  BY <1>11, <1>a DEF MainReturns, MainUnchanged, wsync
<1>12. CASE Join("nnet")
  BY <1>12, <1>a DEF Join, MainUnchanged, wsync
<1>13. CASE Join("search")
  BY <1>13, <1>a DEF Join, MainUnchanged, wsync
<1>14. CASE Destroyed
  BY <1>14, <1>a DEF Destroyed, MainUnchanged, wsync
<1>15. CASE NnetTop
  <2>1. UNCHANGED <<nnet.output, num_frames_decoded, dsync>>
    BY <1>15 DEF NnetTop, NnetUnchanged, NnetGoto, Frames, FramesType
  <2>2. UNCHANGED wwaiting
    BY <1>15 DEF NnetTop, WS!CallLock, wsync
  <2> QED BY <2>1, <2>2, <1>a
<1>16. CASE NnetWaveform
  <2>1. UNCHANGED <<nnet.output, num_frames_decoded, dsync>>
    BY <1>16 DEF NnetWaveform, NnetUnchanged, NnetGoto, Frames, FramesType
  <2>2. WS!UnlockSuccess("consumer") \/ WS!UnlockFailure("consumer")
    BY <1>16 DEF NnetWaveform, NoWaveform, TakeWaveform
  <2>3. ~wwaiting'["producer"]
    BY <2>2, <1>t DEF WS!UnlockSuccess, WS!UnlockFailure, WS!SyncTypeOK, WS!ThreadType, WS!Other
  <2> QED BY <2>1, <2>3 DEF dsync, Permits, Permit
<1>17. CASE NnetWaveformRefused
  BY <1>17, <1>a DEF NnetWaveformRefused, NnetUnchanged, wsync, NnetGoto, AbortAllThreads,
       Frames, FramesType
<1>18. CASE NnetFeaturesThrow
  BY <1>18, <1>a DEF NnetFeaturesThrow, NnetUnchanged, wsync, NnetGoto, AbortAllThreads, Frames,
       FramesType
<1>19. CASE NnetWaveformTaken
  BY <1>19, <1>a DEF NnetWaveformTaken, NnetUnchanged, wsync, NnetGoto, AbortAllThreads, Frames,
       FramesType
<1>20. CASE NnetCompute
  <2>1. UNCHANGED <<nnet.output, num_frames_decoded, wwaiting>>
    BY <1>20 DEF NnetCompute, NnetUnchanged, Frames, FramesType, wsync
  <2>2. CASE UNCHANGED dsync
    BY <2>1, <2>2, <1>a
  <2>3. CASE DS!CallLock("producer")
    BY <2>1, <2>3, <1>b, <1>t, PermitsCall DEF DS!CallLock
  <2> QED BY <1>20, <2>2, <2>3 DEF NnetCompute
<1>21. CASE NnetComputeThrows
  BY <1>21, <1>a DEF NnetComputeThrows, NnetUnchanged, wsync, NnetGoto, AbortAllThreads, Frames,
       FramesType
<1>22. CASE NnetGive
  <2>1. UNCHANGED <<num_frames_decoded, wwaiting>> /\ dat["producer"] = "locked"
    BY <1>22 DEF NnetGive, NnetUnchanged, wsync
  <2>2. CASE DS!UnlockSuccess("producer")
    BY <2>1, <2>2, <1>c, <1>t, PermitsSuccess
  <2>3. CASE ~FewToCopy /\ NnetGoto("retry") /\ DS!UnlockFailure("producer")
    <3>1. UNCHANGED nnet.output
      BY <2>3 DEF NnetGoto, Frames, FramesType
    <3>2. nnet.output - num_frames_decoded > MaxLoglikesCopy
      BY <2>3, ConfigAssumption DEF FewToCopy, Frames, FramesType
    <3>3. Permits' /\ dwaiting'["consumer"] = dwaiting["consumer"]
      BY <2>3, <1>t, PermitsFailure
    <3> QED BY <2>1, <3>1, <3>2, <3>3
  <2> QED BY <1>22, <2>2, <2>3 DEF NnetGive
<1>23. CASE NnetGiven
  <2>1. UNCHANGED <<nnet.output, num_frames_decoded, wwaiting>>
    BY <1>23 DEF NnetGiven, NnetGoto, NnetUnchanged, Frames, FramesType, wsync
  <2>2. CASE UNCHANGED dsync
    BY <2>1, <2>2, <1>a
  <2>3. CASE DS!CallLock("producer")
    BY <2>1, <2>3, <1>b, <1>t, PermitsCall DEF DS!CallLock
  <2> QED BY <1>23, <2>2, <2>3 DEF NnetGiven
<1>24. CASE NnetInputIsFinished
  BY <1>24, <1>c, <1>t, PermitsSuccess DEF NnetInputIsFinished, wsync
<1>25. CASE NnetFinished
  BY <1>25, <1>a DEF NnetFinished, NnetUnchanged, wsync, NnetGoto, AbortAllThreads, Frames,
       FramesType
<1>26. CASE NnetLoglikesRefused
  BY <1>26, <1>a DEF NnetLoglikesRefused, NnetUnchanged, wsync, NnetGoto, AbortAllThreads,
       Frames, FramesType
<1>27. CASE NnetReturnsFalse
  BY <1>27, <1>a DEF NnetReturnsFalse, NnetUnchanged, wsync, NnetGoto, AbortAllThreads, Frames,
       FramesType
<1>28. CASE NnetCatches
  BY <1>28, <1>a DEF NnetCatches, NnetUnchanged, wsync, NnetGoto, AbortAllThreads, Frames,
       FramesType
<1>29. CASE SearchTop
  <2>1. UNCHANGED <<nnet.output, num_frames_decoded, wwaiting>> /\ DS!CallLock("consumer")
    BY <1>29 DEF SearchTop, SearchUnchanged, wsync
  <2> QED BY <2>1, <1>b, <1>t, PermitsCall DEF DS!CallLock
<1>30. CASE SearchNoFrames
  <2>1. UNCHANGED <<nnet.output, num_frames_decoded, wwaiting>>
    BY <1>30 DEF SearchNoFrames, SearchUnchanged, wsync
  <2>2. CASE DS!UnlockSuccess("consumer")
    BY <2>1, <2>2, <1>c, <1>t, PermitsSuccess
  <2>3. CASE DS!UnlockFailure("consumer")
    <3>1. nnet.output = num_frames_decoded
      BY <1>30 DEF SearchNoFrames, Frames, FramesType, Counted, NumLoglikesReady
    <3>2. Permits' /\ dwaiting'["producer"] = dwaiting["producer"]
      BY <2>3, <1>t, PermitsFailure
    <3> QED BY <2>1, <3>1, <3>2
  <2> QED BY <1>30, <2>2, <2>3 DEF SearchNoFrames
<1>31. CASE SearchAdvance
  BY <1>31, <1>a DEF SearchAdvance, SearchUnchanged, wsync
<1>32. CASE SearchThrows
  BY <1>32, <1>a DEF SearchThrows, SearchUnchanged, wsync
<1>33. CASE SearchPublish
  BY <1>33, <1>c, <1>t, PermitsSuccess DEF SearchPublish, SearchUnchanged, wsync
<1>34. CASE SearchReturned
  BY <1>34, <1>a DEF SearchReturned, SearchUnchanged, wsync
<1>35. CASE SearchCatches
  BY <1>35, <1>a DEF SearchCatches, SearchUnchanged, wsync
<1>36. CASE \E t \in {"main", "nnet", "search"} : AbortStep(t)
  <2> PICK t \in {"main", "nnet", "search"} : AbortStep(t)
    BY <1>36
  <2>1. UNCHANGED <<nnet.output, num_frames_decoded, wwaiting>>
    BY DEF AbortStep, WS!RaiseAbort, WS!SignalAbort, wsync
  <2>2. UNCHANGED dwaiting /\ Permits'
    <3>1. CASE UNCHANGED dsync
      BY <3>1 DEF dsync, Permits, Permit
    <3>2. CASE DS!RaiseAbort
      BY <3>2 DEF DS!RaiseAbort, Permits
    <3>3. CASE DS!SignalAbort /\ aborting[t] = "loglikes_signal"
      BY <3>3 DEF DS!SignalAbort, Permits, Control, AbortKnown
    <3> QED BY <3>1, <3>2, <3>3 DEF AbortStep
  <2> QED BY <2>1, <2>2, <1>b
<1>37. CASE \E t \in {"producer", "consumer"} : InWaveform(t)
  BY <1>37, <1>a DEF InWaveform, WS!RunInside, WS!WaitSemaphore, WS!RetestAbort, WS!LockMutex,
                       WS!FinishLock, WS!UnlockMutex, WS!ReturnFromUnlock
<1>38. CASE \E t \in {"producer", "consumer"} : InDecodable(t)
  <2> PICK t \in {"producer", "consumer"} : InDecodable(t)
    BY <1>38
  <2>1. UNCHANGED <<nnet.output, num_frames_decoded, wwaiting>> /\ DS!RunInside(t)
    BY DEF InDecodable, wsync
  <2> QED BY <2>1, <1>b, <1>t, PermitsInside
<1>39. CASE UNCHANGED vars
  BY <1>39, <1>a DEF vars, wsync
<1> QED
  BY <1>1, <1>2, <1>3, <1>4, <1>5, <1>6, <1>7, <1>8, <1>9, <1>10, <1>11, <1>12, <1>13, <1>14,
       <1>15, <1>16, <1>17, <1>18, <1>19, <1>20, <1>21, <1>22, <1>23, <1>24, <1>25, <1>26,
       <1>27, <1>28, <1>29, <1>30, <1>31, <1>32, <1>33, <1>34, <1>35, <1>36, <1>37, <1>38,
       <1>39 DEF Next, MainCalls, MainRuns, Nnet, Search, Runs, Gone
-----------------------------------------------------------------------------
(* The four together, from the first state on.                             *)

IInv == Control /\ Frames /\ Waiting /\ Waveform

\* The invariant holds at first.
LEMMA InitEstablishes == ASSUME Init PROVE IInv
<1> USE DataAssumption, ConfigAssumption DEF Init
<1>1. Control
  BY DEF Control, ControlType, AbortKnown, Places, Workers, MainPlaces, MainLocks, NnetPlaces,
         NnetFeatures, SearchPlaces, AbortPlaces, Outside, WS!SyncInit, DS!SyncInit,
         WS!SyncTypeOK, DS!SyncTypeOK, WS!ThreadType, DS!ThreadType, WS!Places, DS!Places
<1>2. Frames
  <2>1. FramesType
    BY DEF FramesType, NnetPlaces, NnetFeatures, SearchPlaces
  <2>2. NumFrames(0) = 0 /\ OutputFrames(0) = 0
    BY DEF NumFrames, OutputFrames
  <2>3. Counted
    BY <2>2 DEF Counted, NumLoglikesReady, NumFramesReady, Computed
  <2>4. Ended
    BY DEF Ended, NnetFeatures, NnetFailed
  <2> QED BY <2>1, <2>3, <2>4 DEF Frames
<1>3. Waiting
  BY DEF Waiting, Permits, Permit, WS!SyncInit, DS!SyncInit, WS!ThreadType, DS!ThreadType
<1>4. Waveform
  <2>1. WaveType
    BY DEF WaveType
  <2>2. Sum(wave.input) = 0 /\ Sum(wave.processed) = 0
    BY SumEmpty
  <2> QED BY <2>1, <2>2 DEF Waveform, Received, Stored
<1> QED BY <1>1, <1>2, <1>3, <1>4 DEF IInv

\* Every step keeps it.
LEMMA NextPreserves == ASSUME IInv, [Next]_vars PROVE IInv'
BY ControlStep, FramesStep, WaitingStep, WaveformStep DEF IInv, Frames

\* It holds in every state.
LEMMA IInvHolds == Spec => []IInv
<1>1. Init => IInv
  BY InitEstablishes
<1>2. IInv /\ [Next]_vars => IInv'
  BY NextPreserves
<1> QED BY <1>1, <1>2, PTL DEF Spec

-----------------------------------------------------------------------------
(* The theorems.                                                           *)

\* The nnet and the search thread agree on the frames, so that the assertions
\* of RunNnetEvaluationInternal(), AcceptLoglikes(), AdvanceDecoding() and
\* LogLikelihood() hold whatever the interleaving and wherever an abort comes.
THEOREM FramesAreOrdered == Spec => []FramesOrdered
<1>1. IInv => FramesOrdered
  BY DEF IInv, Frames, FramesType, Counted, Ended, Computed, FramesOrdered, NnetFailed
<1> QED BY <1>1, IInvHolds, PTL

\* The producer waits only while more log-likelihoods are undecoded than may be
\* copied, the consumer only while none is: the two never wait for each other,
\* and main never waits for the nnet thread.
THEOREM NoMutualWait == Spec => []NeverBothWaiting
<1>1. IInv => NeverBothWaiting
  <2> SUFFICES ASSUME IInv PROVE NeverBothWaiting
    OBVIOUS
  <2>1. ~(dwaiting["producer"] /\ dwaiting["consumer"])
    BY ConfigAssumption DEF IInv, Waiting, Frames, FramesType
  <2> QED BY <2>1 DEF IInv, Waiting, NeverBothWaiting
<1> QED BY <1>1, IInvHolds, PTL

\* No sample given to AcceptWaveform() is lost between the threads.
THEOREM WaveformIsKept == Spec => []WaveformKept
<1>1. IInv => WaveformKept
  <2> SUFFICES ASSUME IInv PROVE WaveformKept
    OBVIOUS
  <2>1. ControlType /\ WaveType /\ Stored \in Nat
    BY StoredType DEF IInv, Control, Waveform
  <2>2. ASSUME ~abort
        PROVE  wave.discarded + Stored
                 = wave.received - (IF main.pc = "accept" THEN main.dim ELSE 0)
    <3>1. ~wabort
      BY <2>2 DEF IInv, Control, AbortKnown
    <3>2. wave.discarded + Stored + (IF main.pc = "accept" THEN main.dim ELSE 0) = wave.received
      BY <3>1 DEF IInv, Waveform, Received
    <3> QED BY <2>1, <3>2 DEF ControlType, WaveType
  <2> QED BY <2>2 DEF IInv, Waveform, WaveformKept
<1> QED BY <1>1, IInvHolds, PTL

\* GetRemainingWaveform() after Wait(): its assertions hold, also after an abort
\* or an exception, and it starts right after the frames that were decoded, unless
\* the search threw: then up to a batch of decoded frames is given once more.
THEOREM RemainingWaveformIsRight == Spec => []RemainingWaveform
<1>1. IInv => RemainingWaveform
  <2> SUFFICES ASSUME IInv, AllJoined PROVE RemainingWaveform
    BY DEF RemainingWaveform
  <2>1. /\ WaveType /\ FramesType /\ Stored \in Nat
        /\ Sum(wave.input) \in Nat /\ Sum(wave.processed) \in Nat
    BY StoredType DEF IInv, Frames, Waveform
  <2>2. /\ num_frames_decoded <= search.frames
        /\ search.frames <= num_frames_decoded + DecodeBatchSize
        /\ ~search.thrown => num_frames_decoded = search.frames
    BY DEF IInv, Control, Places, Frames, Counted, AllJoined
  <2>3. num_frames_decoded <= NumFrames(pipe.samples) /\ NumFrames(pipe.samples) \in Nat
    BY <2>1, <2>2, NumFramesType DEF IInv, Frames, FramesType, Counted, NumFramesReady
  <2>4. Shift * num_frames_decoded <= Shift * NumFrames(pipe.samples)
    BY <2>1, <2>3, LimitGrows DEF FramesType
  <2>5. Shift * NumFrames(pipe.samples) <= pipe.samples
    BY <2>1, NumFramesBound DEF FramesType
  <2>6. pipe.samples <= wave.discarded + Stored
    BY <2>1 DEF IInv, Waveform, Stored, WaveType
  <2>7. /\ Shift * num_frames_decoded \in Int /\ Shift * NumFrames(pipe.samples) \in Int
        /\ pipe.samples \in Int /\ wave.discarded + Stored \in Int
    BY <2>1, <2>3, DataAssumption DEF FramesType, WaveType
  <2>8. Shift * num_frames_decoded <= wave.discarded + Stored
    BY <2>4, <2>5, <2>6, <2>7
  <2>9. search.frames - num_frames_decoded
           \in 0..(IF search.thrown THEN DecodeBatchSize ELSE 0)
    BY <2>1, <2>2, ConfigAssumption DEF FramesType
  <2> QED BY <2>8, <2>9 DEF IInv, Waveform, RemainingWaveform
<1> QED BY <1>1, IInvHolds, PTL

\* Wait() returns only when the decoder has every frame of the waveform, unless
\* somebody aborted.
THEOREM AllIsDecoded == Spec => []DecodedAll
<1>1. IInv => DecodedAll
  <2> SUFFICES ASSUME IInv, AllJoined, ~abort PROVE search.frames = NumFrames(wave.received)
    BY DEF DecodedAll
  <2>1. nnet.pc = "exit" /\ search.pc = "exit" /\ ~wabort
    BY DEF IInv, Control, Places, AbortKnown, AllJoined
  <2>2. /\ decodable.finished /\ search.frames = NumLoglikesReady
        /\ nnet.last /\ nnet.output = nnet.consumed
        /\ nnet.consumed = NumFramesReady /\ pipe.finished
    BY <2>1 DEF IInv, Frames, Ended
  <2>3. search.frames = NumFrames(pipe.samples)
    BY <2>2 DEF IInv, Frames, Counted, NumFramesReady
  <2>4. wave.finished /\ wave.input = <<>> /\ main.pc # "accept"
    BY <2>2 DEF IInv, Waveform
  <2>5. /\ Stored = Sum(wave.processed) + 0 /\ Sum(wave.processed) \in Nat
        /\ wave.discarded \in Nat /\ wave.received \in Nat
    BY <2>4, SumEmpty, StoredType DEF IInv, Waveform, Stored, WaveType
  <2>6. wave.discarded + Stored + 0 = wave.received
    BY <2>1, <2>4 DEF IInv, Waveform, Received
  <2>7. pipe.samples = wave.received
    BY <2>5, <2>6 DEF IInv, Waveform
  <2> QED BY <2>3, <2>7
<1> QED BY <1>1, IInvHolds, PTL

\* Flush() comes after all of the input, which is longer than the right context.
LEMMA FlushSucceeds == ASSUME LongEnough, IInv, Flushing PROVE ~FlushFails
<1>1. /\ nnet.consumed \in Nat /\ nnet.consumed <= NumFramesReady /\ pipe.samples \in Nat
      /\ FramesType
  BY DEF IInv, Frames, FramesType, Counted
<1>2. nnet.consumed = NumFrames(pipe.samples) /\ pipe.finished
  BY <1>1, FramesTakenType DEF Flushing, FeaturesDone, NumFramesReady
<1>3. wave.finished /\ wave.input = <<>> /\ main.pc # "accept" /\ wave.received >= MinSamples
  BY <1>2 DEF IInv, Waveform
<1>4. /\ Stored = Sum(wave.processed) + 0 /\ Sum(wave.processed) \in Nat
      /\ wave.discarded \in Nat /\ wave.received \in Nat
  BY <1>3, SumEmpty, StoredType DEF IInv, Waveform, Stored, WaveType
<1>5. wave.discarded + Stored + 0 = wave.received
  BY <1>3 DEF IInv, Waveform, Received
<1>6. pipe.samples >= MinSamples
  BY <1>3, <1>4, <1>5 DEF IInv, Waveform
<1>7. NumFrames(MinSamples) <= nnet.consumed /\ NumFrames(MinSamples) \in Nat
  BY <1>1, <1>2, <1>6, NumFramesMonotonic, NumFramesType, DataAssumption
<1> QED BY <1>1, <1>7, DataAssumption DEF LongEnough, FlushFails

\* error_ and the places behind an exception stay what they stand for.
LEMMA ThrownStep == ASSUME LongEnough, IInv, Thrown, [Next]_vars PROVE Thrown'
<1> USE DEF Thrown
<1>t. FramesType /\ abort \in BOOLEAN
  BY DEF IInv, Frames, Control, ControlType
<1>a. CASE UNCHANGED <<nnet, search>> /\ (error' => error)
  BY <1>a
<1>b. CASE UNCHANGED <<error, search>> /\ nnet'.thrown = nnet.thrown /\ nnet'.pc # "threw"
  BY <1>b
<1>c. CASE UNCHANGED <<error, nnet>> /\ search'.thrown = search.thrown /\ search'.pc # "threw"
  BY <1>c
<1>1. CASE MainCalls
  <2>1. ASSUME NEW dim \in PieceDims, AcceptWaveform(dim) PROVE UNCHANGED <<error, nnet, search>>
    BY <2>1 DEF AcceptWaveform, MainUnchanged, flags
  <2>2. CASE NumWaveformPiecesPending \/ InputFinished \/ Wait \/ ReadDecoder \/ GetAdaptationState
             \/ FinalizeDecoding
    BY <1>a, <2>2 DEF NumWaveformPiecesPending, InputFinished, Wait, ReadDecoder,
         GetAdaptationState, CallGetAdaptationState, FinalizeDecoding, MainUnchanged, flags
  <2>3. CASE TerminateDecoding
    <3>1. error' => error
      BY <2>3 DEF TerminateDecoding, AbortAllThreads
    <3> QED BY <1>a, <2>3, <3>1 DEF TerminateDecoding, MainUnchanged
  <2>4. CASE Destroy
    <3>1. error' => error
      BY <2>4 DEF Destroy, AbortAllThreads, flags
    <3> QED BY <1>a, <2>4, <3>1 DEF Destroy, MainUnchanged
  <2> QED BY <1>1, <1>a, <2>1, <2>2, <2>3, <2>4 DEF MainCalls
<1>2. CASE MainRuns
  <2>1. UNCHANGED <<error, nnet, search>>
    BY <1>2 DEF MainRuns, MainLocked, MainReturns, Join, Destroyed, MainUnchanged, flags
  <2> QED BY <1>a, <2>1
<1>3. CASE Nnet
  <2>1. CASE NnetFeaturesThrow
    BY <1>t, <2>1 DEF NnetFeaturesThrow, NnetUnchanged, flags, FramesType
  <2>2. CASE NnetComputeThrows
    <3>1. nnet' = [nnet EXCEPT !.pc = "threw", !.thrown = TRUE] /\ UNCHANGED <<error, search>>
      BY <2>2, FlushSucceeds DEF NnetComputeThrows, NnetUnchanged, flags
    <3> QED BY <1>t, <3>1 DEF FramesType
  <2>3. CASE NnetCatches
    <3>1. UNCHANGED search /\ nnet' = [nnet EXCEPT !.pc = "exit"] /\ nnet.pc = "threw"
      BY <2>3 DEF NnetCatches, NnetGoto, NnetUnchanged
    <3> QED BY <1>t, <3>1 DEF FramesType
  <2>4. CASE NnetReturnsFalse
    <3>1. abort
      BY <2>4 DEF NnetReturnsFalse, IInv, Control, AbortKnown
    <3>2. UNCHANGED <<error, search>> /\ nnet' = [nnet EXCEPT !.pc = "exit"]
      BY <2>4, <3>1 DEF NnetReturnsFalse, NnetGoto, NnetUnchanged, flags
    <3> QED BY <1>b, <1>t, <3>2 DEF FramesType
  <2>5. CASE NnetTop \/ NnetWaveform \/ NnetWaveformRefused \/ NnetWaveformTaken \/ NnetGiven
             \/ NnetInputIsFinished \/ NnetFinished \/ NnetLoglikesRefused
    <3>1. PICK place \in NnetPlaces \ {"threw"} : nnet' = [nnet EXCEPT !.pc = place]
      BY <2>5 DEF NnetTop, NnetWaveform, NnetWaveformRefused, NnetWaveformTaken, NnetGiven,
           NnetInputIsFinished, NnetFinished, NnetLoglikesRefused, NnetGoto,
           NnetPlaces, NnetFeatures, NnetGives, NnetFailed
    <3>2. UNCHANGED <<error, search>>
      BY <2>5 DEF NnetTop, NnetWaveform, NnetWaveformRefused, NnetWaveformTaken, NnetGiven,
           NnetInputIsFinished, NnetFinished, NnetLoglikesRefused, NnetUnchanged, flags
    <3> QED BY <1>b, <1>t, <3>1, <3>2 DEF FramesType
  <2>6. CASE NnetCompute
    <3>1. nnet'.thrown = nnet.thrown /\ nnet'.pc # "threw"
      BY <1>t, <2>6 DEF NnetCompute, FramesType
    <3> QED BY <1>b, <2>6, <3>1 DEF NnetCompute, NnetUnchanged, flags
  <2>7. CASE NnetGive
    <3>1. nnet'.thrown = nnet.thrown /\ nnet'.pc # "threw"
      BY <1>t, <2>7 DEF NnetGive, AcceptLoglikes, NnetGoto, FramesType
    <3> QED BY <1>b, <2>7, <3>1 DEF NnetGive, NnetUnchanged, flags
  <2> QED BY <1>3, <2>1, <2>2, <2>3, <2>4, <2>5, <2>6, <2>7 DEF Nnet
<1>4. CASE Search
  <2>1. CASE SearchThrows
    BY <1>t, <2>1 DEF SearchThrows, SearchUnchanged, flags, FramesType
  <2>2. CASE SearchCatches
    <3>1. UNCHANGED nnet /\ search' = [search EXCEPT !.pc = "exit"] /\ search.pc = "threw"
      BY <2>2 DEF SearchCatches, SearchGoto, SearchUnchanged
    <3> QED BY <1>t, <3>1 DEF FramesType
  <2>3. CASE SearchReturned
    <3>1. search.pc = "false" => abort
      BY DEF IInv, Control, AbortKnown
    <3>2. PICK place \in SearchPlaces \ {"threw"} : search' = [search EXCEPT !.pc = place]
      BY <2>3, <3>1 DEF SearchReturned, SearchGoto, SearchPlaces
    <3> QED BY <1>c, <1>t, <2>3, <3>2 DEF SearchReturned, SearchUnchanged, flags, FramesType
  <2>4. CASE SearchTop \/ SearchNoFrames \/ SearchPublish
    <3>1. PICK place \in SearchPlaces \ {"threw"} : search' = [search EXCEPT !.pc = place]
      BY <2>4 DEF SearchTop, SearchNoFrames, SearchPublish, SearchGoto, SearchPlaces
    <3>2. UNCHANGED <<error, nnet>>
      BY <2>4 DEF SearchTop, SearchNoFrames, SearchPublish, SearchUnchanged, flags
    <3> QED BY <1>c, <1>t, <3>1, <3>2 DEF FramesType
  <2>5. CASE SearchAdvance
    BY <1>c, <1>t, <2>5 DEF SearchAdvance, SearchUnchanged, flags, FramesType
  <2> QED BY <1>4, <2>1, <2>2, <2>3, <2>4, <2>5 DEF Search
<1>5. CASE \E t \in {"main", "nnet", "search"} : AbortStep(t)
  BY <1>5, <1>a DEF AbortStep
<1>6. CASE \E t \in {"producer", "consumer"} : InWaveform(t) \/ InDecodable(t)
  BY <1>6, <1>a DEF InWaveform, InDecodable, flags
<1>7. CASE UNCHANGED vars
  BY <1>7, <1>a DEF vars, flags
<1> QED BY <1>1, <1>2, <1>3, <1>4, <1>5, <1>6, <1>7 DEF Next, Runs, Gone

\* error_ is "something we should never encounter": only an exception of the
\* features, the neural net or the decoder sets it, never TerminateDecoding(),
\* the destructor or the end of an utterance longer than the right context.
THEOREM OnlyExceptionsAreErrors == LongEnough => (Spec => []NoError)
<1> SUFFICES ASSUME LongEnough PROVE Spec => []NoError
  OBVIOUS
<1>1. Init => Thrown
  BY DEF Init, Thrown
<1>2. IInv /\ Thrown /\ [Next]_vars => Thrown'
  BY ThrownStep
<1>3. Thrown => NoError
  BY DEF Thrown, NoError
<1> QED BY <1>1, <1>2, <1>3, IInvHolds, PTL DEF Spec
=============================================================================
