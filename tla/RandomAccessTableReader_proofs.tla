------------------ MODULE RandomAccessTableReader_proofs ------------------
(***************************************************************************)
(* Proofs about the RandomAccessTableReader, for every table, with or      *)
(* without unreadable entries, repeated keys and wrong order, and for any  *)
(* calls: the value given is that of the key asked for, no key is lost, a  *)
(* yes of HasKey() is kept by Value(), and the option once gives each      *)
(* entry out once.                                                         *)
(*                                                                         *)
(* No answer can be judged by the members of one implementation alone, so  *)
(* that the invariant says for each of them what it knows of the table:    *)
(*   Script      script_ is complete and what was given is a tombstone     *)
(*   Archive     how far was read, and why not further                     *)
(*   Memory      what was read is in memory, or given and not needed again *)
(*   Requested   with the options s and cs, what was passed is behind      *)
(* YesKept is what a yes leaves for the next call, and NothingMissing is   *)
(* NoKeyLost for an archive that has not broken off, also of the entries   *)
(* behind one that it has yet to meet: Close() makes use of that.          *)
(***************************************************************************)
EXTENDS RandomAccessTableReader, SequenceTheorems, FiniteSetTheorems, WellFoundedInduction,
        TLAPS

-----------------------------------------------------------------------------
(* The inductive invariant. *)

States == {"kUninitialized", "kNotHaveObject", "kHaveObject", "kGaveObject",
           "kNoObject", "kEof", "kError"}

Type ==
    /\ table \in Seq(Entries)
    /\ opts \in Options
    /\ state \in States
    /\ pos \in 0..Len(table)
    /\ ans \in [op : {"none", "HasKey", "Value", "Close"}, key : Nat,
                result : {"yes", "no", "threw", "value"}, entry : Nat]

\* script_ has every entry of the script file once.  What the reader has in its
\* hands is an object that could be read; with the option once the entries that
\* were given are the tombstones.
Script ==
    /\ script \in [DOMAIN table -> DOMAIN table]
    /\ \A j \in DOMAIN table : \E i \in DOMAIN table : script[i] = j
    /\ state \in {"kNotHaveObject", "kHaveObject", "kGaveObject"}
    /\ state # "kNotHaveObject" => cur \in DOMAIN table /\ holder = cur /\ table[cur].good
    /\ state = "kGaveObject" => cur \in given
    /\ opts.once => tombs = given
    /\ opts.once /\ state = "kHaveObject" => cur \notin given

\* How far the archive was read, and why not further.
Archive ==
    /\ state \in {"kNoObject", "kEof", "kError"}
                   \cup (IF opts.kind = "dsorted" THEN {"kHaveObject"} ELSE {})
    /\ \A i \in 1..pos : table[i].good
    /\ state = "kEof" => pos = Len(table)
    /\ state = "kError" => pos < Len(table) /\ ~table[pos + 1].good
    /\ opts.kind = "sorted" => lastFound \in 0..pos
    /\ given \subseteq 1..pos
    /\ opts.kind # "unsorted" => \A i \in 2..pos : Key(i - 1) < Key(i)

\* What is in memory: all that was read, except what was given and is not to be
\* asked for again.
Memory ==
    /\ memory \subseteq 1..pos
    /\ \A i \in 1..pos : i \notin memory => opts.once /\ i \in given
    /\ opts.once => given \cap memory \subseteq {pending}
    /\ pending # 0 => opts.once /\ pending \in given

\* The archive of a user who asks in order: what was passed is behind him.
Requested ==
    /\ lastRequested \in Nat
    /\ state = "kNoObject" => pos = 0
    /\ state = "kHaveObject" => pos > 0
    /\ \A i \in 1..pos : i < pos \/ state \in {"kEof", "kError"} => Key(i) < lastRequested

\* Each of these for the readers that keep it, until Close().
Reading ==
    /\ opts.kind = "script" => ~HasDuplicate
    /\ opts.kind = "script" /\ state # "kUninitialized" => Script
    /\ opts.kind # "script" /\ state # "kUninitialized" => Archive
    /\ opts.kind \in {"sorted", "unsorted"} /\ state # "kUninitialized" => Memory
    /\ opts.kind = "dsorted" /\ Open => Requested

\* What a yes of HasKey() leaves for Value().
YesKept ==
    ans.op = "HasKey" /\ ans.result = "yes" =>
      CASE opts.kind = "script" -> /\ \E i \in DOMAIN table : Here(i, ans.key)
                                   /\ opts.permissive => Holds(ans.key)
        [] opts.kind = "dsorted" -> /\ state = "kHaveObject" /\ Key(pos) = ans.key
                                    /\ lastRequested = ans.key
        [] opts.kind = "sorted" -> /\ lastFound \in memory /\ Key(lastFound) = ans.key
                                   /\ pending = 0
        [] OTHER -> pending = 0 /\ \E i \in memory : Key(i) = ans.key

\* An entry whose key was denied only after its value had been given once.
Excused(i) == Key(i) \in denied => opts.once /\ i \in given

\* As long as the archive did not break off, an entry that can not be read does
\* not count.
NothingMissing ==
    opts.kind # "script" /\ state \notin {"kError", "kUninitialized"} =>
        \A i \in DOMAIN table : Excused(i)

IInv == /\ Type /\ Reading /\ YesKept /\ ValueIsOfKey
        /\ AsDeclared => NothingMissing
        /\ NoKeyLost

-----------------------------------------------------------------------------
(* The least and the greatest of a set, and the entries of a table. *)

\* Min() of natural numbers, which the model takes where the code loops to the
\* first of several reasons to stop.
LEMMA MinOf ==
    ASSUME NEW S, S \subseteq Nat, S # {}
    PROVE  Min(S) \in S /\ \A x \in S : Min(S) <= x
<1>1. PICK x \in S : \A y \in S : <<y, x>> \notin OpToRel(<, Nat)
  BY NatLessThanWellFounded, WFMin
<1>2. \A y \in S : x <= y
  <2> SUFFICES ASSUME NEW y \in S PROVE x <= y
    OBVIOUS
  <2>1. x \in Nat /\ y \in Nat
    OBVIOUS
  <2>2. ~(y < x)
    BY <1>1, <2>1, Zenon DEF OpToRel
  <2> QED BY <2>1, <2>2
<1> QED BY <1>2 DEF Min

\* Max() of bounded natural numbers.
LEMMA MaxOf ==
    ASSUME NEW n \in Nat, NEW S, S \subseteq 0..n, S # {}
    PROVE  Max(S) \in S /\ \A x \in S : x <= Max(S)
<1> DEFINE T == {n - x : x \in S}
<1>1. T \subseteq Nat /\ T # {}
  <2>1. \A x \in S : n - x \in Nat
    OBVIOUS
  <2> QED BY <2>1
<1>2. Min(T) \in T /\ \A y \in T : Min(T) <= y
  <2> HIDE DEF T
  <2> QED BY <1>1, MinOf
<1>3. PICK m \in S : n - m = Min(T)
  BY <1>2
<1>4. \A x \in S : x <= m
  <2> SUFFICES ASSUME NEW x \in S PROVE x <= m
    OBVIOUS
  <2>1. n - m <= n - x
    <3>1. n - x \in T
      OBVIOUS
    <3> HIDE DEF T
    <3> QED BY <1>2, <1>3, <3>1
  <2> QED BY <2>1
<1> QED BY <1>4 DEF Max

\* What rises from one entry to the next rises from any entry to a later one.
LEMMA Rising ==
    ASSUME NEW n \in Nat, NEW f, \A i \in 1..n : f[i] \in Nat,
           \A i \in 2..n : f[i - 1] < f[i]
    PROVE  \A i, j \in 1..n : i < j => f[i] < f[j]
<1> SUFFICES ASSUME NEW i \in 1..n,
                    \E j \in 1..n : i < j /\ ~(f[i] < f[j])
             PROVE  FALSE
  OBVIOUS
<1> DEFINE S == {j \in 1..n : i < j /\ ~(f[i] < f[j])}
<1> DEFINE j == Min(S)
<1>1. j \in S /\ \A x \in S : j <= x
  <2>1. S \subseteq Nat /\ S # {}
    OBVIOUS
  <2> HIDE DEF S
  <2> QED BY <2>1, MinOf
<1>2. j \in 2..n /\ j - 1 \in 1..n /\ f[j - 1] < f[j]
  <2> HIDE DEF j
  <2> QED BY <1>1
<1>3. j - 1 \notin S
  <2> HIDE DEF j
  <2> QED BY <1>1
<1>4. CASE j - 1 = i
  BY <1>1, <1>2, <1>4
<1>5. CASE j - 1 # i
  <2>1. i < j - 1
    <3> HIDE DEF j
    <3> QED BY <1>1, <1>5
  <2>2. f[i] < f[j - 1]
    BY <1>2, <1>3, <2>1
  <2>3. f[i] < f[j]
    <3>1. f[i] \in Nat /\ f[j - 1] \in Nat /\ f[j] \in Nat
      BY <1>2
    <3> HIDE DEF j
    <3> QED BY <1>2, <2>2, <3>1
  <2> QED BY <1>1, <2>3
<1> QED BY <1>4, <1>5

\* The entries of a table and their keys.
LEMMA KeysAreNumbers ==
    ASSUME table \in Seq(Entries)
    PROVE  /\ Len(table) \in Nat /\ DOMAIN table = 1..Len(table)
           /\ \A i \in 1..Len(table) : Key(i) \in Nat /\ table[i].good \in BOOLEAN
<1>1. Len(table) \in Nat /\ DOMAIN table = 1..Len(table) /\ \A i \in 1..Len(table) : table[i] \in Entries
  BY LenProperties, ElementOfSeq
<1> QED BY <1>1, KeysAssumption DEF Entries, Key

\* A script file without two entries of one key can be sorted, and the sorted
\* script_ has all its entries.
LEMMA SortedIsComplete ==
    ASSUME table \in Seq(Entries), ~HasDuplicate
    PROVE  /\ Sorted \in [DOMAIN table -> DOMAIN table]
           /\ \A j \in DOMAIN table : \E i \in DOMAIN table : Sorted[i] = j
<1> DEFINE D == 1..Len(table)
           Below(i) == {j \in D : Key(j) <= Key(i)}
           r == [i \in D |-> Cardinality(Below(i))]
<1>1. Len(table) \in Nat /\ DOMAIN table = D /\ IsFiniteSet(D) /\ Cardinality(D) = Len(table)
      /\ \A i \in D : Key(i) \in Nat
  <2>1. Len(table) \in Nat /\ DOMAIN table = D /\ \A i \in D : Key(i) \in Nat
    BY KeysAreNumbers
  <2>2. IsFiniteSet(D) /\ Cardinality(D) = IF 1 > Len(table) THEN 0 ELSE Len(table) - 1 + 1
    BY <2>1, FS_Interval
  <2> HIDE DEF D
  <2> QED BY <2>1, <2>2
<1>2. \A i, j \in D : i # j => Key(i) # Key(j)
  BY <1>1 DEF HasDuplicate
<1>3. \A i \in D : IsFiniteSet(Below(i)) /\ Cardinality(Below(i)) \in D
  <2> SUFFICES ASSUME NEW i \in D PROVE IsFiniteSet(Below(i)) /\ Cardinality(Below(i)) \in D
    OBVIOUS
  <2>1. IsFiniteSet(Below(i)) /\ Cardinality(Below(i)) <= Len(table)
    BY <1>1, FS_Subset
  <2>2. Below(i) # {}
    BY <1>1
  <2> HIDE DEF Below
  <2> QED BY <1>1, <2>1, <2>2, FS_EmptySet, FS_CardinalityType
<1>4. \A i, j \in D : Key(i) < Key(j) => r[i] < r[j]
  <2> SUFFICES ASSUME NEW i \in D, NEW j \in D, Key(i) < Key(j)
               PROVE  Cardinality(Below(i)) < Cardinality(Below(j))
    OBVIOUS
  <2>1. Below(i) \in SUBSET Below(j)
    BY <1>1
  <2>2. j \in Below(j) /\ j \notin Below(i)
    BY <1>1
  <2>3. Cardinality(Below(i)) \in Nat /\ Cardinality(Below(j)) \in Nat
    <3> HIDE DEF Below, D
    <3> QED BY <1>3, FS_CardinalityType
  <2>4. IsFiniteSet(Below(j))
    <3> HIDE DEF Below, D
    <3> QED BY <1>3
  <2> HIDE DEF Below
  <2>5. Cardinality(Below(i)) <= Cardinality(Below(j))
        /\ (Cardinality(Below(j)) = Cardinality(Below(i)) => Below(j) = Below(i))
    BY <2>1, <2>4, FS_Subset
  <2> QED BY <2>2, <2>3, <2>5
<1>5. r \in Injection(D, D)
  <2>1. r \in [D -> D]
    BY <1>3
  <2>2. \A i, j \in D : i # j => r[i] # r[j]
    <3> SUFFICES ASSUME NEW i \in D, NEW j \in D, i # j PROVE r[i] # r[j]
      OBVIOUS
    <3>1. Key(i) < Key(j) \/ Key(j) < Key(i)
      BY <1>1, <1>2
    <3>2. r[i] < r[j] \/ r[j] < r[i]
      <4> HIDE DEF r
      <4> QED BY <3>1, <1>4
    <3>3. r[i] \in Nat /\ r[j] \in Nat
      BY <2>1, <1>1
    <3> HIDE DEF r
    <3> QED BY <3>2, <3>3
  <2> HIDE DEF r
  <2> QED BY <2>1, <2>2 DEF Injection, IsInjective
<1>6. r \in Surjection(D, D)
  <2> HIDE DEF r, D
  <2> QED BY <1>1, <1>5, FS_Injection
<1> DEFINE s == [m \in D |-> CHOOSE i \in D : r[i] = m]
<1>7. \A m \in D : s[m] \in D /\ r[s[m]] = m
  <2>1. \A m \in D : \E i \in D : r[i] = m
    <3> HIDE DEF r
    <3> QED BY <1>6 DEF Surjection
  <2> HIDE DEF r
  <2> QED BY <2>1
<1>8. s \in [D -> D] /\ \A i, j \in D : i < j => Key(s[i]) < Key(s[j])
  <2>1. s \in [D -> D]
    BY <1>7
  <2>2. ASSUME NEW i \in D, NEW j \in D, i < j PROVE Key(s[i]) < Key(s[j])
    <3>1. s[i] \in D /\ s[j] \in D /\ r[s[i]] = i /\ r[s[j]] = j
      BY <1>7
    <3>2. s[i] # s[j]
      <4> HIDE DEF r, s
      <4> QED BY <3>1, <2>2
    <3>3. Key(s[i]) # Key(s[j])
      <4> HIDE DEF r, s
      <4> QED BY <3>1, <3>2, <1>2
    <3>4. ~(Key(s[j]) < Key(s[i]))
      <4>1. i \in Nat /\ j \in Nat /\ ~(j < i)
        BY <1>1, <2>2
      <4>2. Key(s[j]) < Key(s[i]) => r[s[j]] < r[s[i]]
        <5> HIDE DEF r, s, D
        <5> QED BY <3>1, <1>4
      <4> HIDE DEF r, s, D
      <4> QED BY <3>1, <4>1, <4>2
    <3>5. Key(s[i]) \in Nat /\ Key(s[j]) \in Nat
      <4> HIDE DEF r, s
      <4> QED BY <3>1, <1>1
    <3> HIDE DEF r, s
    <3> QED BY <3>3, <3>4, <3>5
  <2> QED BY <2>1, <2>2
<1>9. Sorted \in [D -> D] /\ \A i, j \in D : i < j => Key(Sorted[i]) < Key(Sorted[j])
  <2> HIDE DEF s, D
  <2> QED BY <1>1, <1>8 DEF Sorted
<1>10. Sorted \in Injection(D, D)
  <2>1. \A i, j \in D : i # j => Sorted[i] # Sorted[j]
    <3> SUFFICES ASSUME NEW i \in D, NEW j \in D, i # j, Sorted[i] = Sorted[j] PROVE FALSE
      OBVIOUS
    <3>1. i < j \/ j < i
      OBVIOUS
    <3>2. Key(Sorted[i]) \in Nat /\ Key(Sorted[i]) = Key(Sorted[j])
      BY <1>1, <1>9
    <3> QED BY <3>1, <3>2, <1>9
  <2> QED BY <1>9, <2>1 DEF Injection, IsInjective
<1>11. Sorted \in Surjection(D, D)
  <2> HIDE DEF D
  <2> QED BY <1>1, <1>10, FS_Injection
<1> HIDE DEF D
<1> QED BY <1>1, <1>9, <1>11 DEF Surjection

-----------------------------------------------------------------------------
(* What a call finds in an archive. *)

\* FindKeyInternal() piece by piece: the entry it read last, and what came of it.
Last(k) == IF MustRead(k) THEN Stop(k) ELSE pos
Ended(k) == Last(k) > Len(table)
Bad(k) == MustRead(k) /\ ~Ended(k) /\ ~table[Last(k)].good
Refused(k) == MustRead(k) /\ ~Ended(k) /\ ~Bad(k) /\ Unexpected(Last(k))
Read(k) == IF Ended(k) \/ Bad(k) \/ Refused(k) THEN Last(k) - 1 ELSE Last(k)
Stored(k) == IF opts.kind = "dsorted" THEN {} ELSE Kept \union (pos + 1 .. Read(k))
Seen(k) == CASE opts.kind = "unsorted" -> Stored(k)
             [] opts.kind = "sorted" -> 1..Read(k)
             [] OTHER -> IF state \in {"kEof", "kError"} \/ Ended(k) \/ Bad(k) THEN {}
                         ELSE {Last(k)} \ {0}

\* Find() is made of these pieces.
LEMMA FindIs ==
    ASSUME NEW k
    PROVE  /\ Find(k).pos = Read(k)
           /\ Find(k).memory = Stored(k)
           /\ Find(k).threw = Refused(k)
           /\ Find(k).state = IF Ended(k) THEN "kEof" ELSE IF Bad(k) THEN "kError"
                              ELSE IF MustRead(k) /\ opts.kind = "dsorted" THEN "kHaveObject"
                              ELSE state
           /\ Find(k).hit = IF opts.kind = "sorted" /\ lastFound # 0 /\ Key(lastFound) = k
                            THEN lastFound
                            ELSE Max({i \in Seen(k) : Key(i) = k} \union {0})
BY DEF Find, Last, Ended, Bad, Refused, Read, Stored, Seen

\* What is known when an archive is asked for a key.
ArchiveOpen == Type /\ opts.kind # "script" /\ state # "kUninitialized" /\ Archive
               /\ (opts.kind \in {"sorted", "unsorted"} => Memory)

\* The loop stops at the first entry that gives a reason to.
LEMMA StopsFirst ==
    ASSUME Type, NEW k
    PROVE  /\ Stop(k) \in pos + 1 .. Len(table) + 1
           /\ \A i \in pos + 1 .. Stop(k) - 1 :
                 /\ table[i].good /\ ~Unexpected(i)
                 /\ IF opts.kind = "unsorted" THEN Key(i) # k ELSE ~(Key(i) >= k)
           /\ Stop(k) <= Len(table) =>
                 \/ ~table[Stop(k)].good
                 \/ Unexpected(Stop(k))
                 \/ IF opts.kind = "unsorted" THEN Key(Stop(k)) = k ELSE Key(Stop(k)) >= k
<1> DEFINE W(i) == \/ ~table[i].good
                   \/ Unexpected(i)
                   \/ IF opts.kind = "unsorted" THEN Key(i) = k ELSE Key(i) >= k
           S == {i \in pos + 1 .. Len(table) : W(i)} \union {Len(table) + 1}
<1>1. Len(table) \in Nat /\ pos \in Nat /\ pos <= Len(table)
  BY KeysAreNumbers DEF Type
<1>2. S \subseteq Nat /\ S # {} /\ Stop(k) = Min(S)
  <2>1. Stop(k) = Min(S)
    BY DEF Stop
  <2>2. S \subseteq Nat /\ S # {}
    <3> HIDE DEF W
    <3> QED BY <1>1
  <2> QED BY <2>1, <2>2
<1>3. Stop(k) \in S /\ \A x \in S : Stop(k) <= x
  <2> HIDE DEF S
  <2> QED BY <1>2, MinOf
<1>4. /\ Stop(k) \in pos + 1 .. Len(table) + 1
      /\ \A i \in pos + 1 .. Stop(k) - 1 : ~W(i)
      /\ Stop(k) <= Len(table) => W(Stop(k))
  <2> HIDE DEF W
  <2>1. Stop(k) \in pos + 1 .. Len(table) + 1
    BY <1>1, <1>3
  <2>2. ASSUME NEW i \in pos + 1 .. Stop(k) - 1, W(i) PROVE FALSE
    <3>1. i \in S /\ i < Stop(k)
      BY <1>1, <2>1, <2>2
    <3> HIDE DEF S
    <3> QED BY <1>1, <1>3, <2>1, <3>1
  <2>3. ASSUME Stop(k) <= Len(table) PROVE W(Stop(k))
    BY <1>1, <1>3, <2>1, <2>3
  <2> QED BY <2>1, <2>2, <2>3
<1> QED BY <1>4

\* How far the archive is read.
LEMMA ReadOn ==
    ASSUME ArchiveOpen, NEW k
    PROVE  /\ Read(k) \in pos..Len(table)
           /\ \A i \in pos + 1 .. Read(k) : table[i].good /\ ~Unexpected(i)
           /\ Ended(k) => MustRead(k) /\ Read(k) = Len(table)
           /\ Bad(k) => Read(k) < Len(table) /\ ~table[Read(k) + 1].good
           /\ ~Ended(k) /\ ~Bad(k) /\ ~Refused(k) => Read(k) = Last(k)
           /\ MustRead(k) /\ ~Ended(k) /\ ~Bad(k) /\ ~Refused(k) =>
                 /\ Read(k) > pos
                 /\ IF opts.kind = "unsorted" THEN Key(Read(k)) = k ELSE Key(Read(k)) >= k
           /\ ~MustRead(k) => Read(k) = pos /\ ~Ended(k) /\ ~Bad(k) /\ ~Refused(k)
<1>1. Len(table) \in Nat /\ pos \in Nat /\ pos <= Len(table)
  BY KeysAreNumbers DEF Type, ArchiveOpen
<1>2. CASE ~MustRead(k)
  BY <1>1, <1>2 DEF Last, Ended, Bad, Refused, Read
<1>3. CASE MustRead(k)
  <2>1. Last(k) = Stop(k)
    BY <1>3 DEF Last
  <2>2. /\ Stop(k) \in pos + 1 .. Len(table) + 1
        /\ \A i \in pos + 1 .. Stop(k) - 1 : table[i].good /\ ~Unexpected(i)
        /\ Stop(k) <= Len(table) =>
                 \/ ~table[Stop(k)].good
                 \/ Unexpected(Stop(k))
                 \/ IF opts.kind = "unsorted" THEN Key(Stop(k)) = k ELSE Key(Stop(k)) >= k
    BY StopsFirst DEF ArchiveOpen
  <2>3. CASE Ended(k)
    <3>1. Stop(k) = Len(table) + 1 /\ Read(k) = Len(table) /\ ~Bad(k) /\ ~Refused(k)
      BY <1>1, <2>1, <2>2, <2>3 DEF Ended, Read, Bad, Refused
    <3> QED BY <1>1, <1>3, <2>2, <2>3, <3>1
  <2>4. CASE Bad(k) \/ Refused(k)
    <3>1. ~Ended(k) /\ Read(k) = Stop(k) - 1 /\ Stop(k) <= Len(table)
      BY <1>1, <2>1, <2>2, <2>4 DEF Ended, Read, Bad, Refused
    <3>2. Read(k) \in pos..Len(table) /\ Read(k) + 1 = Stop(k) /\ Read(k) < Len(table)
      BY <1>1, <2>2, <3>1
    <3>3. Bad(k) => ~table[Stop(k)].good
      BY <2>1 DEF Bad
    <3> QED BY <1>3, <2>2, <2>4, <3>1, <3>2, <3>3
  <2>5. CASE ~Ended(k) /\ ~Bad(k) /\ ~Refused(k)
    <3>1. Read(k) = Stop(k) /\ Stop(k) <= Len(table) /\ table[Stop(k)].good /\ ~Unexpected(Stop(k))
      BY <1>1, <1>3, <2>1, <2>2, <2>5 DEF Ended, Bad, Refused, Read
    <3>2. \A i \in pos + 1 .. Read(k) : i = Stop(k) \/ i \in pos + 1 .. Stop(k) - 1
      BY <1>1, <2>2, <3>1
    <3> QED BY <1>1, <1>3, <2>1, <2>2, <2>5, <3>1, <3>2
  <2> QED BY <2>3, <2>4, <2>5
<1> QED BY <1>2, <1>3

\* The archive behind a call.
LEMMA FoundArchive ==
    ASSUME ArchiveOpen, NEW k
    PROVE  /\ Find(k).pos = Read(k)
           /\ Find(k).state \in {"kNoObject", "kEof", "kError"}
                   \cup (IF opts.kind = "dsorted" THEN {"kHaveObject"} ELSE {})
           /\ \A i \in 1..Read(k) : table[i].good
           /\ Find(k).state = "kEof" => Read(k) = Len(table)
           /\ Find(k).state = "kError" => Read(k) < Len(table) /\ ~table[Read(k) + 1].good
           /\ opts.kind # "unsorted" => \A i \in 2..Read(k) : Key(i - 1) < Key(i)
<1>1. Len(table) \in Nat /\ pos \in Nat /\ pos <= Len(table)
      /\ \A i \in 1..Len(table) : Key(i) \in Nat
  BY KeysAreNumbers DEF Type, ArchiveOpen
<1>2. /\ Read(k) \in pos..Len(table)
      /\ \A i \in pos + 1 .. Read(k) : table[i].good /\ ~Unexpected(i)
      /\ ~MustRead(k) => Read(k) = pos
  BY ReadOn
<1>3. \A i \in 1..Read(k) : i \in 1..pos \/ i \in pos + 1 .. Read(k)
  BY <1>1, <1>2
<1>4. MustRead(k) => state \in {"kNoObject", "kHaveObject"}
  BY DEF MustRead
<1>5. \A i \in 1..Read(k) : table[i].good
  BY <1>2, <1>3 DEF ArchiveOpen, Archive
<1>6. /\ Find(k).state \in {"kNoObject", "kEof", "kError"}
                   \cup (IF opts.kind = "dsorted" THEN {"kHaveObject"} ELSE {})
      /\ Find(k).state = "kEof" => Ended(k) \/ (~MustRead(k) /\ state = "kEof")
      /\ Find(k).state = "kError" => Bad(k) \/ (~MustRead(k) /\ state = "kError")
  BY <1>4, FindIs DEF ArchiveOpen, Archive
<1>7. Find(k).state = "kEof" => Read(k) = Len(table)
  BY <1>2, <1>6, ReadOn DEF ArchiveOpen, Archive
<1>8. Find(k).state = "kError" => Read(k) < Len(table) /\ ~table[Read(k) + 1].good
  BY <1>2, <1>6, ReadOn DEF ArchiveOpen, Archive
<1>9. opts.kind # "unsorted" => \A i \in 2..Read(k) : Key(i - 1) < Key(i)
  <2> SUFFICES ASSUME opts.kind # "unsorted", NEW i \in 2..Read(k) PROVE Key(i - 1) < Key(i)
    OBVIOUS
  <2>1. CASE i \in 1..pos
    BY <1>1, <2>1 DEF ArchiveOpen, Archive
  <2>2. CASE i \in pos + 1 .. Read(k)
    <3>1. ~(i > 1 /\ Key(i) <= Key(i - 1))
      BY <1>2, <2>2 DEF Unexpected
    <3>2. i > 1 /\ Key(i) \in Nat /\ Key(i - 1) \in Nat
      BY <1>1, <1>2
    <3> QED BY <3>1, <3>2
  <2>3. i \in 1..Read(k)
    BY <1>1, <1>2
  <2> QED BY <1>3, <2>1, <2>2, <2>3
<1> QED BY <1>5, <1>6, <1>7, <1>8, <1>9, FindIs

\* The entry found has the key, and when there is none nothing that was seen has.
LEMMA FoundHit ==
    ASSUME ArchiveOpen, NEW k \in Keys
    PROVE  /\ Find(k).hit \in Nat
           /\ Find(k).hit # 0 => Key(Find(k).hit) = k
           /\ Find(k).hit # 0 /\ opts.kind # "sorted" => Find(k).hit \in Seen(k)
           /\ Find(k).hit = 0 => \A i \in Seen(k) : Key(i) # k
           /\ opts.kind = "sorted" \/ ~Refused(k) => Find(k).hit \in 0..Read(k)
<1>1. Len(table) \in Nat /\ pos \in Nat /\ pos <= Len(table)
      /\ \A i \in 1..Len(table) : Key(i) \in Nat
  BY KeysAreNumbers DEF Type, ArchiveOpen
<1>2. /\ Read(k) \in pos..Len(table)
      /\ ~MustRead(k) => Read(k) = pos
      /\ ~Ended(k) /\ ~Bad(k) /\ ~Refused(k) => Read(k) = Last(k)
  BY ReadOn
<1>3. Last(k) \in pos..Len(table) + 1
  BY <1>1, StopsFirst DEF Last, ArchiveOpen
<1>4. ASSUME NEW i \in Seen(k)
      PROVE  /\ i \in Nat \ {0}
             /\ opts.kind = "sorted" \/ ~Refused(k) => i \in 1..Read(k)
             /\ i \in 1..Len(table) + 1
  <2>1. CASE opts.kind = "unsorted"
    <3>1. Seen(k) = Kept \union (pos + 1 .. Read(k))
      BY <2>1 DEF Seen, Stored
    <3>2. CASE i \in Kept
      <4>1. i \in 1..pos
        BY <2>1, <3>2 DEF Kept, ArchiveOpen, Memory
      <4> QED BY <1>1, <1>2, <4>1
    <3>3. CASE i \in pos + 1 .. Read(k)
      BY <1>1, <1>2, <3>3
    <3> QED BY <3>1, <3>2, <3>3
  <2>2. CASE opts.kind = "sorted"
    <3>1. i \in 1..Read(k)
      BY <2>2 DEF Seen
    <3> QED BY <1>1, <1>2, <3>1
  <2>3. CASE opts.kind = "dsorted"
    <3>1. i = Last(k) /\ i # 0 /\ ~Ended(k) /\ ~Bad(k)
      BY <2>3 DEF Seen
    <3>2. i \in Nat /\ i <= Len(table) + 1
      BY <1>1, <1>3, <3>1
    <3>3. ~Refused(k) => i = Read(k)
      BY <1>2, <3>1
    <3> QED BY <1>1, <1>2, <2>3, <3>1, <3>2, <3>3
  <2> QED BY <2>1, <2>2, <2>3 DEF ArchiveOpen, Type, Options
<1>5. CASE opts.kind = "sorted" /\ lastFound # 0 /\ Key(lastFound) = k
  <2>1. Find(k).hit = lastFound
    BY <1>5, FindIs
  <2>2. lastFound \in 0..pos
    BY <1>5 DEF ArchiveOpen, Archive
  <2> QED BY <1>1, <1>2, <1>5, <2>1, <2>2
<1>6. CASE ~(opts.kind = "sorted" /\ lastFound # 0 /\ Key(lastFound) = k)
  <2> DEFINE S == {i \in Seen(k) : Key(i) = k} \union {0}
  <2>1. Find(k).hit = Max(S)
    BY <1>6, FindIs
  <2>2. S \subseteq 0..Len(table) + 1 /\ S # {} /\ Len(table) + 1 \in Nat
    BY <1>1, <1>4
  <2>3. Max(S) \in S /\ \A x \in S : x <= Max(S)
    <3> HIDE DEF S
    <3> QED BY <2>2, MaxOf
  <2>4. Max(S) \in Nat
    <3>1. 0..Len(table) + 1 \subseteq Nat
      BY <1>1
    <3> HIDE DEF S
    <3> QED BY <2>2, <2>3, <3>1
  <2>5. ASSUME Max(S) = 0, NEW i \in Seen(k), Key(i) = k PROVE FALSE
    <3>1. i \in S /\ i \in Nat \ {0}
      BY <1>4, <2>5
    <3>2. i <= Max(S)
      <4> HIDE DEF S
      <4> QED BY <2>3, <3>1
    <3> HIDE DEF S
    <3> QED BY <2>5, <3>1, <3>2
  <2>6. Max(S) # 0 => Max(S) \in Seen(k) /\ Key(Max(S)) = k
    BY <2>3
  <2>7. opts.kind = "sorted" \/ ~Refused(k) => Max(S) \in 0..Read(k)
    <3> HIDE DEF S
    <3> QED BY <1>1, <1>2, <1>4, <2>6
  <2> HIDE DEF S
  <2> QED BY <2>1, <2>4, <2>5, <2>6, <2>7
<1> QED BY <1>5, <1>6

\* A call of HasKey() or Value(), piece by piece.
Throws(op, k) == Refused(k) \/ CalledWrongly(k, Find(k)) \/ (op = "Value" /\ Find(k).hit = 0)

\* What a call changes, with its answer and what the user remembers of it.
LEMMA CallIs ==
    ASSUME NEW op \in {"HasKey", "Value"}, NEW k \in Keys, ArchiveCall(op, k)
    PROVE  /\ Open /\ opts.kind # "script"
           /\ pos' = Read(k) /\ memory' = Stored(k) /\ state' = Find(k).state
           /\ lastFound' = IF Find(k).hit = 0 THEN lastFound ELSE Find(k).hit
           /\ lastRequested' = k
           /\ pending' = IF op = "Value" /\ ~Throws(op, k) THEN Pending(Find(k)) ELSE 0
           /\ ans'.op = op /\ ans'.key = k
           /\ IF Throws(op, k) THEN ans'.result = "threw" /\ ans'.entry = 0
              ELSE IF op = "HasKey"
                   THEN ans'.result = (IF Find(k).hit # 0 THEN "yes" ELSE "no") /\ ans'.entry = 0
                   ELSE ans'.result = "value" /\ ans'.entry = Find(k).hit /\ Find(k).hit # 0
           /\ denied' = IF op = "HasKey" /\ ~Throws(op, k) /\ Find(k).hit = 0
                        THEN denied \union {k} ELSE denied
           /\ given' = IF op = "Value" /\ ~Throws(op, k)
                       THEN given \union {Find(k).hit} ELSE given
           /\ table' = table /\ opts' = opts
<1> DEFINE f == Find(k)
           threw == f.threw \/ CalledWrongly(k, f) \/ (op = "Value" /\ f.hit = 0)
<1>1. /\ Open /\ opts.kind # "script"
      /\ pos' = f.pos /\ memory' = f.memory /\ state' = f.state
      /\ lastFound' = IF f.hit = 0 THEN lastFound ELSE f.hit
      /\ lastRequested' = k
      /\ pending' = IF op = "Value" /\ ~threw THEN Pending(f) ELSE 0
      /\ IF threw THEN Answer(op, k, "threw", 0)
         ELSE IF op = "HasKey" THEN Answer(op, k, IF f.hit # 0 THEN "yes" ELSE "no", 0)
         ELSE Answer(op, k, "value", f.hit)
      /\ table' = table /\ opts' = opts
  BY DEF ArchiveCall
<1>2. threw = Throws(op, k)
  BY FindIs DEF Throws
<1>3. f.pos = Read(k) /\ f.memory = Stored(k)
  BY FindIs
<1> HIDE DEF f, threw
<1>4. CASE threw
  BY <1>1, <1>2, <1>3, <1>4 DEF Answer, f
<1>5. CASE ~threw /\ op = "HasKey"
  BY <1>1, <1>2, <1>3, <1>5 DEF Answer, f
<1>6. CASE ~threw /\ op = "Value"
  <2>1. f.hit # 0
    BY <1>2, <1>6 DEF Throws, f
  <2> QED BY <1>1, <1>2, <1>3, <1>6, <2>1 DEF Answer, f
<1> QED BY <1>4, <1>5, <1>6

\* An archive that is open is one the invariant speaks of.
LEMMA CallFindsArchiveOpen ==
    ASSUME IInv, Open, opts.kind # "script"
    PROVE  ArchiveOpen
BY DEF IInv, Reading, Open, ArchiveOpen, Type, Options

\* A call keeps the types, and what is known of the archive and of the memory.
LEMMA CallType ==
    ASSUME IInv, NEW op \in {"HasKey", "Value"}, NEW k \in Keys, ArchiveCall(op, k)
    PROVE  Type'
<1>1. ArchiveOpen
  BY CallIs, CallFindsArchiveOpen
<1>2. Len(table) \in Nat /\ Read(k) \in 0..Len(table)
  BY <1>1, ReadOn, KeysAreNumbers DEF ArchiveOpen, Type
<1>3. Find(k).hit \in Nat /\ k \in Nat
  BY <1>1, FoundHit, KeysAssumption
<1>4. ans' \in [op : {"none", "HasKey", "Value", "Close"}, key : Nat,
                result : {"yes", "no", "threw", "value"}, entry : Nat]
  <2>1. \E result \in {"yes", "no", "threw", "value"}, entry \in Nat :
           ans' = [op |-> op, key |-> k, result |-> result, entry |-> entry]
    BY <1>3 DEF ArchiveCall, Answer
  <2> QED BY <1>3, <2>1
<1>5. state' \in States
  BY <1>1, FoundArchive, CallIs DEF States
<1> QED BY <1>1, <1>2, <1>4, <1>5, CallIs DEF Type, ArchiveOpen

\* A call reads on only while it can, and in order.
LEMMA CallArchive ==
    ASSUME IInv, NEW op \in {"HasKey", "Value"}, NEW k \in Keys, ArchiveCall(op, k)
    PROVE  Archive'
<1>1. ArchiveOpen
  BY CallIs, CallFindsArchiveOpen
<1>2. Read(k) \in pos..Len(table) /\ pos \in Nat /\ Len(table) \in Nat
  BY <1>1, ReadOn, KeysAreNumbers DEF ArchiveOpen, Type
<1>3. opts.kind = "sorted" => lastFound' \in 0..pos'
  <2>1. opts.kind = "sorted" => Find(k).hit \in 0..Read(k)
    BY <1>1, FoundHit
  <2> QED BY <1>1, <1>2, <2>1, CallIs DEF ArchiveOpen, Archive
<1>4. given' \subseteq 1..pos'
  <2> SUFFICES ASSUME NEW i \in given' PROVE i \in 1..Read(k)
    BY CallIs
  <2>1. given \subseteq 1..pos
    BY <1>1 DEF ArchiveOpen, Archive
  <2>2. op = "Value" /\ ~Throws(op, k) => Find(k).hit \in 1..Read(k)
    <3> SUFFICES ASSUME op = "Value", ~Throws(op, k) PROVE Find(k).hit \in 1..Read(k)
      OBVIOUS
    <3>1. ~Refused(k) /\ Find(k).hit # 0
      BY DEF Throws
    <3>2. Find(k).hit \in 0..Read(k)
      BY <1>1, <3>1, FoundHit
    <3> QED BY <1>2, <3>1, <3>2
  <2>3. i \in given \/ (op = "Value" /\ ~Throws(op, k) /\ i = Find(k).hit)
    BY CallIs
  <2>4. i \in given => i \in 1..Read(k)
    BY <1>2, <2>1
  <2> QED BY <2>2, <2>3, <2>4
<1>5. \A i \in DOMAIN table : Key(i)' = Key(i)
  BY CallIs DEF Key
<1>6. opts'.kind # "unsorted" => \A i \in 2..pos' : Key(i - 1)' < Key(i)'
  <2>1. opts.kind # "unsorted" => \A i \in 2..Read(k) : Key(i - 1) < Key(i)
    BY <1>1, FoundArchive
  <2> QED BY <2>1, CallIs DEF Key
<1>7. /\ state' \in {"kNoObject", "kEof", "kError"}
                   \cup (IF opts'.kind = "dsorted" THEN {"kHaveObject"} ELSE {})
      /\ \A i \in 1..pos' : table'[i].good
      /\ state' = "kEof" => pos' = Len(table')
      /\ state' = "kError" => pos' < Len(table') /\ ~table'[pos' + 1].good
  BY <1>1, FoundArchive, CallIs
<1> QED BY <1>3, <1>4, <1>6, <1>7, CallIs DEF Archive

\* A call keeps in memory what it reads, and deletes what it gave before; what
\* it gave is not there any more.
LEMMA CallMemory ==
    ASSUME IInv, NEW op \in {"HasKey", "Value"}, NEW k \in Keys, ArchiveCall(op, k),
           opts.kind \in {"sorted", "unsorted"}
    PROVE  Memory' /\ (opts.once => given \cap memory' = {})
<1>1. ArchiveOpen /\ Memory
  BY CallIs, CallFindsArchiveOpen DEF ArchiveOpen
<1>2. Read(k) \in pos..Len(table) /\ pos \in Nat /\ Len(table) \in Nat
  BY <1>1, ReadOn, KeysAreNumbers DEF ArchiveOpen, Type
<1>3. memory' = (memory \ {pending}) \union (pos + 1 .. Read(k)) /\ pos' = Read(k)
  BY CallIs DEF Stored, Kept
<1>4. given \subseteq 1..pos /\ given \subseteq given' /\ opts' = opts
  BY <1>1, CallIs DEF ArchiveOpen, Archive
<1>5. opts.once => given \cap memory' = {}
  <2> SUFFICES ASSUME opts.once, NEW i \in given, i \in memory' PROVE FALSE
    OBVIOUS
  <2>1. i \in 1..pos /\ i \notin pos + 1 .. Read(k)
    BY <1>2, <1>4
  <2>2. i \in memory /\ i # pending
    BY <1>3, <2>1
  <2> QED BY <1>1, <2>2 DEF Memory
<1>6. memory' \subseteq 1..pos'
  <2> SUFFICES ASSUME NEW i \in memory' PROVE i \in 1..Read(k)
    BY <1>3
  <2>1. CASE i \in memory
    <3>1. i \in 1..pos
      BY <1>1, <2>1 DEF Memory
    <3> QED BY <1>2, <3>1
  <2>2. CASE i \in pos + 1 .. Read(k)
    BY <1>2, <2>2
  <2> QED BY <1>3, <2>1, <2>2
<1>7. \A i \in 1..pos' : i \notin memory' => opts.once /\ i \in given'
  BY <1>1, <1>2, <1>3, <1>4 DEF Memory
<1>8. pending' # 0 => op = "Value" /\ ~Throws(op, k) /\ opts.once /\ pending' = Find(k).hit
  BY CallIs DEF Pending
<1>9. pending' # 0 => opts.once /\ pending' \in given'
  BY <1>8, CallIs
<1>10. opts.once => given' \cap memory' \subseteq {pending'}
  <2>1. CASE op = "Value" /\ ~Throws(op, k)
    <3>1. given' = given \union {Find(k).hit}
      BY <2>1, CallIs
    <3>2. opts.once => pending' = Find(k).hit
      BY <2>1, CallIs DEF Pending
    <3> QED BY <1>5, <3>1, <3>2
  <2>2. CASE ~(op = "Value" /\ ~Throws(op, k))
    BY <1>5, <2>2, CallIs
  <2> QED BY <2>1, <2>2
<1> QED BY <1>4, <1>5, <1>6, <1>7, <1>9, <1>10 DEF Memory

\* The archive of a user who asks in order.
LEMMA CallRequested ==
    ASSUME IInv, NEW op \in {"HasKey", "Value"}, NEW k \in Keys, ArchiveCall(op, k),
           opts.kind = "dsorted", ~Throws(op, k)
    PROVE  Requested'
<1>1. ArchiveOpen /\ Requested
  BY CallIs, CallFindsArchiveOpen DEF IInv, Reading
<1>2. /\ Len(table) \in Nat /\ pos \in Nat /\ pos <= Len(table) /\ k \in Nat /\ lastRequested \in Nat
      /\ \A i \in 1..Len(table) : Key(i) \in Nat
      /\ Read(k) \in pos..Len(table)
  BY <1>1, ReadOn, KeysAreNumbers, KeysAssumption DEF ArchiveOpen, Type, Requested
<1>3. ~Refused(k) /\ lastRequested <= k
  BY <1>2 DEF Throws, CalledWrongly
<1>4. \A i \in 1..pos : i < pos \/ state \in {"kEof", "kError"} => Key(i) < k
  <2> SUFFICES ASSUME NEW i \in 1..pos, Key(i) < lastRequested PROVE Key(i) < k
    BY <1>1 DEF Requested
  <2> QED BY <1>2, <1>3
<1>5. MustRead(k) <=> state = "kNoObject" \/ (state = "kHaveObject" /\ k > Key(pos))
  BY DEF MustRead
<1>6. CASE ~MustRead(k)
  <2>1. Read(k) = pos /\ Find(k).state = state /\ state # "kNoObject"
    BY <1>1, <1>5, <1>6, ReadOn, FindIs
  <2>2. state' = state /\ pos' = pos /\ lastRequested' = k /\ table' = table
    BY <2>1, CallIs
  <2> QED BY <1>1, <1>2, <1>4, <2>1, <2>2 DEF Requested, Key
<1>7. CASE MustRead(k)
  <2>1. \A i \in 1..pos : Key(i) < k
    <3> SUFFICES ASSUME NEW i \in 1..pos PROVE Key(i) < k
      OBVIOUS
    <3>1. CASE state = "kNoObject"
      BY <1>1, <1>2, <3>1 DEF Requested
    <3>2. CASE state = "kHaveObject" /\ k > Key(pos)
      <4>1. CASE i = pos
        BY <1>2, <3>2, <4>1
      <4>2. CASE i < pos
        BY <1>4, <4>2
      <4> QED BY <1>2, <4>1, <4>2
    <3> QED BY <1>5, <1>7, <3>1, <3>2
  <2>2. \A i \in pos + 1 .. Stop(k) - 1 : Key(i) < k
    <3> SUFFICES ASSUME NEW i \in pos + 1 .. Stop(k) - 1 PROVE Key(i) < k
      OBVIOUS
    <3>1. ~(Key(i) >= k) /\ Stop(k) \in pos + 1 .. Len(table) + 1
      BY <1>1, StopsFirst DEF ArchiveOpen
    <3>2. i \in 1..Len(table)
      BY <1>2, <3>1
    <3> QED BY <1>2, <3>1, <3>2
  <2>3. Stop(k) \in pos + 1 .. Len(table) + 1
    BY <1>1, StopsFirst DEF ArchiveOpen
  <2>4. \A i \in 1..Read(k) : i < Stop(k) => Key(i) < k
    <3> SUFFICES ASSUME NEW i \in 1..Read(k), i < Stop(k) PROVE Key(i) < k
      OBVIOUS
    <3>1. i \in 1..pos \/ i \in pos + 1 .. Stop(k) - 1
      BY <1>2, <2>3
    <3> QED BY <2>1, <2>2, <3>1
  <2>5. CASE Ended(k) \/ Bad(k)
    <3>1. Read(k) = Stop(k) - 1 /\ Find(k).state \in {"kEof", "kError"}
      BY <1>7, <2>5, FindIs DEF Read, Last
    <3>2. \A i \in 1..Read(k) : Key(i) < k
      BY <1>2, <2>3, <2>4, <3>1
    <3>3. state' \in {"kEof", "kError"} /\ pos' = Read(k) /\ lastRequested' = k /\ table' = table
      BY <3>1, CallIs
    <3> QED BY <1>2, <3>2, <3>3 DEF Requested, Key
  <2>6. CASE ~Ended(k) /\ ~Bad(k)
    <3>1. Read(k) = Stop(k) /\ Find(k).state = "kHaveObject"
      BY <1>3, <1>7, <2>6, FindIs DEF Read, Last
    <3>2. Read(k) > 0 /\ \A i \in 1..Read(k) : i < Read(k) => Key(i) < k
      BY <1>2, <2>3, <2>4, <3>1
    <3>3. state' = "kHaveObject" /\ pos' = Read(k) /\ lastRequested' = k /\ table' = table
      BY <3>1, CallIs
    <3> QED BY <1>2, <3>2, <3>3 DEF Requested, Key
  <2> QED BY <2>5, <2>6
<1> QED BY <1>6, <1>7

\* An entry that was found is there for Value() to give.
LEMMA FoundIsThere ==
    ASSUME ArchiveOpen, NEW k \in Keys, NEW op, ~Throws(op, k), Find(k).hit # 0
    PROVE  /\ Find(k).hit \in 1..Read(k)
           /\ Key(Find(k).hit) = k
           /\ opts.kind = "dsorted" => Find(k).state = "kHaveObject" /\ Read(k) = Find(k).hit
           /\ opts.kind # "dsorted" => Find(k).hit \in Stored(k)
<1>1. ~Refused(k) /\ ~CalledWrongly(k, Find(k)) /\ Read(k) \in Nat
  <2>1. Read(k) \in pos..Len(table) /\ pos \in Nat /\ Len(table) \in Nat
    BY ReadOn, KeysAreNumbers DEF ArchiveOpen, Type
  <2> QED BY <2>1 DEF Throws
<1>2. Find(k).hit \in 0..Read(k) /\ Key(Find(k).hit) = k
      /\ (opts.kind # "sorted" => Find(k).hit \in Seen(k))
  BY <1>1, FoundHit
<1>3. ASSUME opts.kind = "dsorted"
      PROVE  Find(k).state = "kHaveObject" /\ Read(k) = Find(k).hit
  <2>1. Find(k).hit = Last(k) /\ ~Ended(k) /\ ~Bad(k) /\ state \notin {"kEof", "kError"}
    BY <1>2, <1>3 DEF Seen
  <2>2. Find(k).hit = Read(k)
    BY <1>1, <2>1, ReadOn
  <2>3. state \in {"kNoObject", "kHaveObject"}
    BY <1>3, <2>1 DEF ArchiveOpen, Archive
  <2>4. Find(k).state = "kHaveObject"
    BY <1>3, <2>1, <2>3, FindIs DEF MustRead
  <2> QED BY <2>2, <2>4
<1>4. ASSUME opts.kind # "dsorted"
      PROVE  Find(k).hit \in Stored(k)
  <2>1. CASE opts.kind = "sorted"
    BY <1>1, <2>1, FindIs DEF CalledWrongly
  <2>2. CASE opts.kind = "unsorted"
    BY <1>2, <2>2 DEF Seen
  <2> QED BY <1>4, <2>1, <2>2 DEF ArchiveOpen, Type, Options
<1> QED BY <1>1, <1>2, <1>3, <1>4

\* A yes is kept in the members until the next call.
LEMMA CallYesKept ==
    ASSUME IInv, NEW op \in {"HasKey", "Value"}, NEW k \in Keys, ArchiveCall(op, k)
    PROVE  YesKept'
<1> SUFFICES ASSUME ans'.op = "HasKey", ans'.result = "yes"
             PROVE  CASE opts.kind = "script" -> FALSE
                      [] opts.kind = "dsorted" -> /\ state' = "kHaveObject" /\ Key(pos') = k
                                                  /\ lastRequested' = k
                      [] opts.kind = "sorted" -> /\ lastFound' \in memory' /\ Key(lastFound') = k
                                                 /\ pending' = 0
                      [] OTHER -> pending' = 0 /\ \E i \in memory' : Key(i) = k
  BY CallIs DEF YesKept, Key
<1>1. ArchiveOpen /\ opts.kind # "script"
  BY CallIs, CallFindsArchiveOpen
<1>2. op = "HasKey" /\ ~Throws(op, k) /\ Find(k).hit # 0
  BY CallIs
<1>3. lastFound' = Find(k).hit /\ pending' = 0 /\ memory' = Stored(k) /\ pos' = Read(k)
      /\ state' = Find(k).state /\ lastRequested' = k
  BY <1>2, CallIs
<1>4. /\ Key(Find(k).hit) = k
      /\ opts.kind = "dsorted" => Find(k).state = "kHaveObject" /\ Read(k) = Find(k).hit
      /\ opts.kind # "dsorted" => Find(k).hit \in Stored(k)
  BY <1>1, <1>2, FoundIsThere
<1>5. opts.kind \in {"dsorted", "sorted", "unsorted"}
  BY <1>1 DEF ArchiveOpen, Type, Options
<1>6. CASE opts.kind = "dsorted"
  BY <1>3, <1>4, <1>6
<1>7. CASE opts.kind = "sorted"
  BY <1>3, <1>4, <1>7
<1>8. CASE opts.kind = "unsorted"
  BY <1>3, <1>4, <1>8
<1> QED BY <1>5, <1>6, <1>7, <1>8

\* A value is that of the key.
LEMMA CallValue ==
    ASSUME IInv, NEW op \in {"HasKey", "Value"}, NEW k \in Keys, ArchiveCall(op, k)
    PROVE  ValueIsOfKey'
<1> SUFFICES ASSUME ans'.op = "Value", ans'.result = "value"
             PROVE  /\ ans'.entry \in Readable' /\ Key(ans'.entry) = k
                    /\ CASE opts.kind = "script" -> FALSE
                         [] opts.kind = "dsorted" -> state' = "kHaveObject" /\ pos' = ans'.entry
                         [] OTHER -> ans'.entry \in memory'
  BY CallIs DEF ValueIsOfKey, Key
<1>1. ArchiveOpen /\ opts.kind # "script"
  BY CallIs, CallFindsArchiveOpen
<1>2. op = "Value" /\ ~Throws(op, k) /\ Find(k).hit # 0 /\ ans'.entry = Find(k).hit
  BY CallIs
<1>3. memory' = Stored(k) /\ pos' = Read(k) /\ state' = Find(k).state
  BY <1>2, CallIs
<1>4. /\ Find(k).hit \in 1..Read(k)
      /\ Key(Find(k).hit) = k
      /\ opts.kind = "dsorted" => Find(k).state = "kHaveObject" /\ Read(k) = Find(k).hit
      /\ opts.kind # "dsorted" => Find(k).hit \in Stored(k)
  BY <1>1, <1>2, FoundIsThere
<1>5. Find(k).hit \in Readable
  <2>1. Read(k) \in Nat /\ Read(k) <= Len(table) /\ DOMAIN table = 1..Len(table) /\ Len(table) \in Nat
        /\ \A i \in 1..Read(k) : table[i].good
    <3>1. Read(k) \in pos..Len(table) /\ pos \in Nat /\ Len(table) \in Nat /\ DOMAIN table = 1..Len(table)
      BY <1>1, ReadOn, KeysAreNumbers DEF ArchiveOpen, Type
    <3> QED BY <1>1, <3>1, FoundArchive
  <2>2. Find(k).hit \in DOMAIN table /\ \A j \in 1..Find(k).hit : j \in 1..Read(k)
    BY <1>4, <2>1
  <2> QED BY <1>1, <2>1, <2>2 DEF Readable
<1>6. Readable' = Readable
  BY CallIs DEF Readable
<1>7. opts.kind \in {"dsorted", "sorted", "unsorted"}
  BY <1>1 DEF ArchiveOpen, Type, Options
<1>8. CASE opts.kind = "dsorted"
  BY <1>2, <1>3, <1>4, <1>5, <1>6, <1>8
<1>9. CASE opts.kind # "dsorted"
  BY <1>1, <1>2, <1>3, <1>4, <1>5, <1>6, <1>9
<1> QED BY <1>8, <1>9

\* A key is not found only if it is behind the entry on which the archive broke
\* off, or was given and is not asked for again.
LEMMA NotThere ==
    ASSUME IInv, NEW k \in Keys, ArchiveCall("HasKey", k), AsDeclared,
           ~Throws("HasKey", k), Find(k).hit = 0,
           NEW i \in DOMAIN table, Key(i) = k
    PROVE  (Find(k).state = "kError" /\ i > Read(k)) \/ (opts.once /\ i \in given)
<1>1. ArchiveOpen /\ opts.kind # "script"
  BY CallIs, CallFindsArchiveOpen
<1>2. /\ Len(table) \in Nat /\ DOMAIN table = 1..Len(table) /\ pos \in Nat /\ pos <= Len(table)
      /\ \A j \in 1..Len(table) : Key(j) \in Nat
      /\ Read(k) \in pos..Len(table) /\ k \in Nat /\ Read(k) \in Nat /\ i \in 1..Len(table)
  BY <1>1, ReadOn, KeysAreNumbers, KeysAssumption DEF ArchiveOpen, Type
<1>3. ~Refused(k) /\ \A j \in Seen(k) : Key(j) # k
  BY <1>1, FoundHit DEF Throws
<1>4. Find(k).state = "kEof" => i <= Read(k)
  BY <1>1, <1>2, FoundArchive
<1>5. CASE opts.kind = "unsorted"
  <2>1. Seen(k) = Kept \union (pos + 1 .. Read(k)) /\ memory' = Seen(k)
    BY <1>5, CallIs DEF Seen, Stored
  <2>2. i \notin memory'
    BY <1>3, <2>1
  <2>3. CASE i <= Read(k)
    <3>1. Memory' /\ pos' = Read(k) /\ opts' = opts /\ given' = given
      BY <1>5, CallMemory, CallIs
    <3> QED BY <1>2, <2>2, <2>3, <3>1 DEF Memory
  <2>4. CASE i > Read(k)
    <3>1. CASE MustRead(k)
      <4>1. ~Ended(k)
        BY <1>1, <1>2, <2>4, ReadOn
      <4>2. ~(~Bad(k))
        <5> SUFFICES ASSUME ~Bad(k) PROVE FALSE
          OBVIOUS
        <5>1. Read(k) > pos /\ Key(Read(k)) = k
          BY <1>1, <1>3, <1>5, <3>1, <4>1, ReadOn
        <5>2. Read(k) \in pos + 1 .. Read(k)
          BY <1>2, <5>1
        <5> QED BY <1>3, <2>1, <5>1, <5>2
      <4> QED BY <2>4, <4>1, <4>2, FindIs
    <3>2. CASE ~MustRead(k)
      <4>1. Find(k).state = state
        BY <1>1, <1>5, <3>2, ReadOn, FindIs
      <4>2. state # "kNoObject"
        BY <1>3, <1>5, <2>1, <3>2 DEF MustRead
      <4>3. state \in {"kEof", "kError"}
        BY <1>1, <1>5, <4>2 DEF ArchiveOpen, Archive
      <4> QED BY <1>2, <1>4, <2>4, <4>1, <4>3
    <3> QED BY <3>1, <3>2
  <2> QED BY <1>2, <2>3, <2>4
<1>6. CASE opts.kind \in {"sorted", "dsorted"}
  <2>1. \A j \in DOMAIN table : j < i => Key(j) < k
    BY <1>6 DEF AsDeclared, IsSorted
  <2>2. CASE i <= Read(k)
    <3>1. CASE opts.kind = "sorted"
      BY <1>2, <1>3, <2>2, <3>1 DEF Seen
    <3>2. CASE opts.kind = "dsorted"
      <4>1. Requested' /\ lastRequested' = k /\ pos' = Read(k) /\ state' = Find(k).state /\ table' = table
        BY <3>2, CallRequested, CallIs
      <4>2. ~(i < Read(k) \/ Find(k).state \in {"kEof", "kError"})
        BY <1>2, <2>2, <4>1 DEF Requested, Key
      <4>3. i = Read(k) /\ ~Ended(k) /\ ~Bad(k) /\ state \notin {"kEof", "kError"}
        <5>1. Find(k).state \notin {"kEof", "kError"}
          BY <4>2
        <5>2. i = Read(k)
          BY <1>2, <2>2, <4>2
        <5>3. ~Ended(k) /\ ~Bad(k)
          BY <5>1, FindIs
        <5>4. state \in {"kEof", "kError"} => Find(k).state = state
          BY <3>2, <5>3, FindIs DEF MustRead
        <5> QED BY <5>1, <5>2, <5>3, <5>4
      <4>4. Read(k) = Last(k) /\ Seen(k) = {Last(k)} \ {0}
        BY <1>1, <1>3, <3>2, <4>3, ReadOn DEF Seen
      <4>5. i \in Seen(k)
        BY <1>2, <4>3, <4>4
      <4> QED BY <1>3, <4>5
    <3> QED BY <1>6, <3>1, <3>2
  <2>3. CASE i > Read(k)
    <3>1. CASE MustRead(k)
      <4>1. ~Ended(k)
        BY <1>1, <1>2, <2>3, ReadOn
      <4>2. ~(~Bad(k))
        <5> SUFFICES ASSUME ~Bad(k) PROVE FALSE
          OBVIOUS
        <5>1. Read(k) > pos /\ Key(Read(k)) >= k
          BY <1>1, <1>3, <1>6, <3>1, <4>1, ReadOn
        <5>2. Read(k) \in DOMAIN table /\ Read(k) < i
          BY <1>2, <2>3, <5>1
        <5>3. Key(Read(k)) < k /\ Key(Read(k)) \in Nat
          BY <1>2, <2>1, <5>2
        <5> QED BY <1>2, <5>1, <5>3
      <4> QED BY <2>3, <4>1, <4>2, FindIs
    <3>2. CASE ~MustRead(k)
      <4>1. Find(k).state = state /\ Read(k) = pos
        BY <1>1, <3>2, ReadOn, FindIs
      <4>2. CASE state \in {"kEof", "kError"}
        BY <1>2, <1>4, <2>3, <4>1, <4>2
      <4>3. CASE state \notin {"kEof", "kError"}
        <5>1. state \in {"kNoObject", "kHaveObject"} /\ (opts.kind = "sorted" => state = "kNoObject")
          BY <1>1, <1>6, <4>3 DEF ArchiveOpen, Archive
        <5>2. ~(k > Key(pos)) /\ pos # 0
          <6>1. CASE opts.kind = "sorted"
            BY <3>2, <5>1, <6>1 DEF MustRead
          <6>2. CASE opts.kind = "dsorted"
            <7>1. state = "kHaveObject" /\ ~(k > Key(pos))
              BY <3>2, <5>1, <6>2 DEF MustRead
            <7>2. Open
              BY CallIs
            <7>3. pos > 0
              BY <6>2, <7>1, <7>2 DEF IInv, Reading, Requested
            <7> QED BY <7>1, <7>3
          <6> QED BY <1>6, <6>1, <6>2
        <5>3. pos \in DOMAIN table /\ pos < i
          BY <1>2, <2>3, <4>1, <5>2
        <5>4. Key(pos) < k /\ Key(pos) \in Nat
          BY <1>2, <2>1, <5>3
        <5> QED BY <1>2, <5>2, <5>4
      <4> QED BY <4>2, <4>3
    <3> QED BY <3>1, <3>2
  <2> QED BY <1>2, <2>2, <2>3
<1> QED BY <1>1, <1>5, <1>6 DEF ArchiveOpen, Type, Options

\* A call loses no key.
LEMMA CallLosesNone ==
    ASSUME IInv, NEW op \in {"HasKey", "Value"}, NEW k \in Keys, ArchiveCall(op, k)
    PROVE  (AsDeclared => NothingMissing)' /\ NoKeyLost'
<1> SUFFICES ASSUME AsDeclared'
             PROVE  NothingMissing' /\ \A i \in Readable' : Excused(i)'
  BY CallIs DEF NoKeyLost, Excused
<1>1. ArchiveOpen /\ opts.kind # "script"
  BY CallIs, CallFindsArchiveOpen
<1>2. /\ AsDeclared /\ table' = table /\ opts' = opts /\ state' = Find(k).state
      /\ given \subseteq given' /\ Readable' = Readable
      /\ \A i \in DOMAIN table : Key(i)' = Key(i)
  BY CallIs DEF AsDeclared, IsSorted, HasDuplicate, Readable, Key
<1>3. ASSUME NEW i \in DOMAIN table, Excused(i)
      PROVE  Excused(i)' \/ (Find(k).state = "kError" /\ i > Read(k))
  <2>1. CASE Key(i) = k /\ op = "HasKey" /\ ~Throws(op, k) /\ Find(k).hit = 0
    BY <1>2, <2>1, NotThere DEF Excused
  <2>2. CASE ~(Key(i) = k /\ op = "HasKey" /\ ~Throws(op, k) /\ Find(k).hit = 0)
    <3>1. Key(i) \in denied' => Key(i) \in denied
      BY <2>2, CallIs
    <3> QED BY <1>2, <1>3, <3>1 DEF Excused
  <2> QED BY <2>1, <2>2
<1>4. \A i \in Readable' : Excused(i)'
  <2> SUFFICES ASSUME NEW i \in Readable PROVE Excused(i)'
    BY <1>2
  <2>1. i \in DOMAIN table /\ Excused(i) /\ \A j \in 1..i : table[j].good
    BY <1>1, <1>2 DEF IInv, NoKeyLost, Readable, Excused
  <2>2. ~(Find(k).state = "kError" /\ i > Read(k))
    <3> SUFFICES ASSUME Find(k).state = "kError", i > Read(k) PROVE FALSE
      OBVIOUS
    <3>1. ~table[Read(k) + 1].good /\ Read(k) \in Nat /\ i \in Nat
      <4>1. Read(k) \in pos..Len(table) /\ pos \in Nat /\ Len(table) \in Nat /\ DOMAIN table = 1..Len(table)
        BY <1>1, ReadOn, KeysAreNumbers DEF ArchiveOpen, Type
      <4> QED BY <1>1, <2>1, <4>1, FoundArchive
    <3>2. Read(k) + 1 \in 1..i
      BY <3>1
    <3> QED BY <2>1, <3>1, <3>2
  <2> QED BY <1>3, <2>1, <2>2
<1>5. NothingMissing'
  <2> SUFFICES ASSUME Find(k).state \notin {"kError", "kUninitialized"}, NEW i \in DOMAIN table
               PROVE  Excused(i)'
    BY <1>2 DEF NothingMissing
  <2>1. state \notin {"kError", "kUninitialized"}
    <3>1. state = "kError" => ~MustRead(k)
      BY DEF MustRead
    <3>2. ~MustRead(k) => Find(k).state = state
      BY <1>1, ReadOn, FindIs
    <3> QED BY <1>1, <3>1, <3>2 DEF ArchiveOpen
  <2>2. Excused(i)
    BY <1>1, <1>2, <2>1 DEF IInv, NothingMissing
  <2> QED BY <1>3, <2>2
<1> QED BY <1>4, <1>5

\* A call keeps the invariant.
LEMMA CallKeepsInvariant ==
    ASSUME IInv, NEW op \in {"HasKey", "Value"}, NEW k \in Keys, ArchiveCall(op, k)
    PROVE  IInv'
<1>1. opts' = opts /\ opts.kind # "script" /\ Open
  BY CallIs
<1>2. Open' => ~Throws(op, k)
  BY CallIs DEF Open
<1>3. Reading'
  BY <1>1, <1>2, CallArchive, CallMemory, CallRequested DEF Reading
<1> QED BY <1>3, CallType, CallYesKept, CallValue, CallLosesNone DEF IInv

-----------------------------------------------------------------------------
(* The script file. *)

\* LookupKey() finds a key that is in script_.
LEMMA LookedUp ==
    ASSUME Script, NEW found, NEW k
    PROVE  LET place == LookupKey(found, k)
           IN  IF Here(place, k) THEN script[place] \in DOMAIN table /\ Key(script[place]) = k
               ELSE \A i \in DOMAIN table : Key(i) # k
<1> DEFINE place == LookupKey(found, k)
<1>1. DOMAIN script = DOMAIN table
  BY DEF Script
<1>2. CASE Here(place, k)
  BY <1>1, <1>2 DEF Here, Script
<1>3. CASE ~Here(place, k)
  <2>1. ~\E i \in DOMAIN script : Here(i, k)
    BY <1>3 DEF LookupKey
  <2>2. ASSUME NEW j \in DOMAIN table PROVE Key(j) # k
    <3>1. PICK i \in DOMAIN table : script[i] = j
      BY DEF Script
    <3> QED BY <1>1, <2>1, <3>1 DEF Here
  <2> QED BY <1>3, <2>2
<1> QED BY <1>2, <1>3

\* HasKeyInternal() leaves the members as they are, but for last_found_.
FoundSame(f) == f.state = state /\ f.cur = cur /\ f.holder = holder

\* What HasKeyInternal() may return and leave.
LEMMA FoundCases ==
    ASSUME Script, NEW k, NEW preload \in BOOLEAN, NEW f \in Found(k, preload)
    PROVE  \/ Holds(k) /\ f.result = "yes" /\ FoundSame(f)
           \/ f.result = "no" /\ FoundSame(f) /\ \A i \in DOMAIN table : Key(i) # k
           \/ \E e \in DOMAIN table :
                 /\ Key(e) = k /\ ~Holds(k)
                 /\ \/ f.result = "threw" /\ opts.once /\ e \in tombs /\ FoundSame(f)
                    \/ f.result = "yes" /\ ~preload /\ FoundSame(f)
                    \/ /\ preload /\ table[e].good /\ f.result = "yes" /\ ~(opts.once /\ e \in tombs)
                       /\ f.state = "kHaveObject" /\ f.cur = e /\ f.holder = e
                    \/ /\ preload /\ ~table[e].good /\ f.result = "no"
                       /\ FoundSame(f) \/ (f.state = "kNotHaveObject" /\ f.cur = cur)
<1> DEFINE place == LookupKey(lastFound, k)
           entry == script[place]
           Same(result) == [result |-> result, state |-> state, cur |-> cur, holder |-> holder,
                            lastFound |-> place]
<1>1. IF Here(place, k) THEN entry \in DOMAIN table /\ Key(entry) = k
      ELSE \A i \in DOMAIN table : Key(i) # k
  BY LookedUp
<1>2. f \in (IF Holds(k) THEN {[Same("yes") EXCEPT !.lastFound = lastFound]}
             ELSE IF ~Here(place, k) THEN {Same("no")}
             ELSE IF opts.once /\ entry \in tombs THEN {Same("threw")}
             ELSE IF ~preload THEN {Same("yes")}
             ELSE IF table[entry].good
                  THEN {[result |-> "yes", state |-> "kHaveObject", cur |-> entry, holder |-> entry,
                         lastFound |-> place]}
             ELSE {Same("no"), [Same("no") EXCEPT !.state = "kNotHaveObject", !.holder = 0]})
  BY DEF Found
<1> HIDE DEF place, entry
<1>3. CASE Holds(k)
  BY <1>2, <1>3 DEF FoundSame
<1>4. CASE ~Holds(k) /\ ~Here(place, k)
  BY <1>1, <1>2, <1>4 DEF FoundSame
<1>5. CASE ~Holds(k) /\ Here(place, k)
  <2>1. CASE opts.once /\ entry \in tombs
    BY <1>1, <1>2, <1>5, <2>1 DEF FoundSame
  <2>2. CASE ~(opts.once /\ entry \in tombs) /\ ~preload
    BY <1>1, <1>2, <1>5, <2>2 DEF FoundSame
  <2>3. CASE ~(opts.once /\ entry \in tombs) /\ preload /\ table[entry].good
    BY <1>1, <1>2, <1>5, <2>3
  <2>4. CASE ~(opts.once /\ entry \in tombs) /\ preload /\ ~table[entry].good
    <3>1. f = Same("no") \/ f = [Same("no") EXCEPT !.state = "kNotHaveObject", !.holder = 0]
      BY <1>2, <1>5, <2>4
    <3>2. /\ f.result = "no"
          /\ FoundSame(f) \/ (f.state = "kNotHaveObject" /\ f.cur = cur)
      <4>1. CASE f = Same("no")
        BY <4>1 DEF FoundSame
      <4>2. CASE f = [Same("no") EXCEPT !.state = "kNotHaveObject", !.holder = 0]
        BY <4>2
      <4> QED BY <3>1, <4>1, <4>2
    <3>3. entry \in DOMAIN table /\ Key(entry) = k
      BY <1>1, <1>5
    <3> HIDE DEF Same
    <3> QED BY <1>5, <2>4, <3>2, <3>3
  <2> QED BY <2>1, <2>2, <2>3, <2>4
<1> QED BY <1>3, <1>4, <1>5

\* What the reader has in its hands after that.
LEMMA FoundScript ==
    ASSUME Script, ~HasDuplicate, NEW k, NEW preload \in BOOLEAN, NEW f \in Found(k, preload)
    PROVE  /\ f.state \in {"kNotHaveObject", "kHaveObject", "kGaveObject"}
           /\ f.result \in {"yes", "no", "threw"}
           /\ f.state # "kNotHaveObject" =>
                 f.cur \in DOMAIN table /\ f.holder = f.cur /\ table[f.cur].good
           /\ f.state = "kGaveObject" => f.cur \in given
           /\ opts.once /\ f.state = "kHaveObject" => f.cur \notin given
           /\ f.result = "yes" => \E e \in DOMAIN table : Key(e) = k
           /\ f.result = "yes" /\ preload =>
                 f.state \in {"kHaveObject", "kGaveObject"} /\ Key(f.cur) = k
           /\ f.result = "no" => \A i \in DOMAIN table : Key(i) = k => preload /\ ~table[i].good
<1>1. CASE Holds(k) /\ f.result = "yes" /\ FoundSame(f)
  BY <1>1 DEF Holds, FoundSame, Script
<1>2. CASE f.result = "no" /\ FoundSame(f) /\ \A i \in DOMAIN table : Key(i) # k
  BY <1>2 DEF FoundSame, Script
<1>3. CASE \E e \in DOMAIN table :
                 /\ Key(e) = k /\ ~Holds(k)
                 /\ \/ f.result = "threw" /\ opts.once /\ e \in tombs /\ FoundSame(f)
                    \/ f.result = "yes" /\ ~preload /\ FoundSame(f)
                    \/ /\ preload /\ table[e].good /\ f.result = "yes" /\ ~(opts.once /\ e \in tombs)
                       /\ f.state = "kHaveObject" /\ f.cur = e /\ f.holder = e
                    \/ /\ preload /\ ~table[e].good /\ f.result = "no"
                       /\ FoundSame(f) \/ (f.state = "kNotHaveObject" /\ f.cur = cur)
  <2>1. PICK e \in DOMAIN table :
                 /\ Key(e) = k /\ ~Holds(k)
                 /\ \/ f.result = "threw" /\ opts.once /\ e \in tombs /\ FoundSame(f)
                    \/ f.result = "yes" /\ ~preload /\ FoundSame(f)
                    \/ /\ preload /\ table[e].good /\ f.result = "yes" /\ ~(opts.once /\ e \in tombs)
                       /\ f.state = "kHaveObject" /\ f.cur = e /\ f.holder = e
                    \/ /\ preload /\ ~table[e].good /\ f.result = "no"
                       /\ FoundSame(f) \/ (f.state = "kNotHaveObject" /\ f.cur = cur)
    BY <1>3
  <2>2. \A i \in DOMAIN table : Key(i) = k => i = e
    BY <2>1 DEF HasDuplicate
  <2>3. CASE f.result = "threw" /\ FoundSame(f)
    BY <2>3 DEF FoundSame, Script
  <2>4. CASE f.result = "yes" /\ ~preload /\ FoundSame(f)
    BY <2>1, <2>4 DEF FoundSame, Script
  <2>5. CASE /\ preload /\ table[e].good /\ f.result = "yes" /\ ~(opts.once /\ e \in tombs)
             /\ f.state = "kHaveObject" /\ f.cur = e /\ f.holder = e
    BY <2>1, <2>5 DEF Script
  <2>6. CASE /\ preload /\ ~table[e].good /\ f.result = "no"
             /\ FoundSame(f) \/ (f.state = "kNotHaveObject" /\ f.cur = cur)
    BY <2>1, <2>2, <2>6 DEF FoundSame, Script
  <2> QED BY <2>1, <2>3, <2>4, <2>5, <2>6
<1> QED BY <1>1, <1>2, <1>3, FoundCases

\* The option permissive is a yes or a no.
LEMMA PreloadIsBoolean == opts \in Options => Preload \in BOOLEAN
BY DEF Options, Preload

\* A script file that is open is one the invariant speaks of.
LEMMA ScriptOpen ==
    ASSUME IInv, Open, opts.kind = "script"
    PROVE  Type /\ Script /\ ~HasDuplicate
BY DEF IInv, Reading, Open

\* HasKey() keeps the invariant.
LEMMA HasKeyKeepsInvariant ==
    ASSUME IInv, NEW k \in Keys, ScriptHasKey(k)
    PROVE  IInv'
<1>1. Open /\ opts.kind = "script" /\ Type /\ Script /\ ~HasDuplicate
  BY ScriptOpen DEF ScriptHasKey
<1>2. PICK f \in Found(k, Preload) :
          /\ state' = f.state /\ cur' = f.cur /\ holder' = f.holder /\ lastFound' = f.lastFound
          /\ Answer("HasKey", k, f.result, 0)
  BY DEF ScriptHasKey
<1>3. /\ table' = table /\ opts' = opts /\ script' = script /\ tombs' = tombs /\ pos' = pos
  BY DEF ScriptHasKey, archiveVars
<1>4. /\ ans' = [op |-> "HasKey", key |-> k, result |-> f.result, entry |-> 0]
      /\ denied' = IF f.result = "no" THEN denied \union {k} ELSE denied
      /\ given' = given
  BY <1>2 DEF Answer
<1>5. /\ f.state \in {"kNotHaveObject", "kHaveObject", "kGaveObject"}
      /\ f.result \in {"yes", "no", "threw"}
      /\ f.state # "kNotHaveObject" =>
            f.cur \in DOMAIN table /\ f.holder = f.cur /\ table[f.cur].good
      /\ f.state = "kGaveObject" => f.cur \in given
      /\ opts.once /\ f.state = "kHaveObject" => f.cur \notin given
      /\ f.result = "yes" => \E e \in DOMAIN table : Key(e) = k
      /\ f.result = "yes" /\ Preload =>
            f.state \in {"kHaveObject", "kGaveObject"} /\ Key(f.cur) = k
      /\ f.result = "no" => \A i \in DOMAIN table : Key(i) = k => Preload /\ ~table[i].good
  BY <1>1, PreloadIsBoolean, FoundScript DEF Type
<1>6. Type'
  <2>1. k \in Nat
    BY KeysAssumption
  <2>2. state' \in States
    BY <1>2, <1>5 DEF States
  <2>3. ans' \in [op : {"none", "HasKey", "Value", "Close"}, key : Nat,
                  result : {"yes", "no", "threw", "value"}, entry : Nat]
    BY <1>4, <1>5, <2>1
  <2> QED BY <1>1, <1>3, <2>2, <2>3 DEF Type
<1>7. Script'
  <2>1. /\ script' \in [DOMAIN table' -> DOMAIN table']
        /\ \A j \in DOMAIN table' : \E i \in DOMAIN table' : script'[i] = j
        /\ opts'.once => tombs' = given'
    BY <1>1, <1>3, <1>4 DEF Script
  <2> QED BY <1>2, <1>3, <1>4, <1>5, <2>1 DEF Script
<1>8. Reading'
  BY <1>1, <1>3, <1>7 DEF Reading, HasDuplicate, Key
<1>9. YesKept'
  <2> SUFFICES ASSUME f.result = "yes"
               PROVE  /\ \E i \in DOMAIN table' : Here(i, k)'
                      /\ opts'.permissive => Holds(k)'
    BY <1>1, <1>3, <1>4 DEF YesKept, Here, Holds, Key
  <2>1. PICK e \in DOMAIN table : Key(e) = k
    BY <1>5
  <2>2. PICK i \in DOMAIN table : script[i] = e
    BY <1>1 DEF Script
  <2>3. Here(i, k)'
    <3>1. i \in DOMAIN script
      BY <1>1, <2>2 DEF Script
    <3> QED BY <1>3, <2>1, <2>2, <3>1 DEF Here, Key
  <2>4. opts.permissive => Holds(k)'
    BY <1>2, <1>3, <1>5 DEF Holds, Key, Preload
  <2> QED BY <1>3, <2>2, <2>3, <2>4
<1>10. ValueIsOfKey'
  BY <1>4 DEF ValueIsOfKey
<1>11. (AsDeclared => NothingMissing)' /\ NoKeyLost'
  <2>1. NothingMissing' /\ Readable' = Readable
        /\ Readable = {i \in DOMAIN table : table[i].good \/ ~opts.permissive}
    BY <1>1, <1>3 DEF NothingMissing, Readable
  <2>2. ASSUME NEW i \in Readable, AsDeclared PROVE Excused(i)'
    <3>1. Excused(i)
      BY <2>2 DEF IInv, NoKeyLost, Excused
    <3>2. Key(i) \in denied' => Key(i) \in denied
      BY <1>4, <1>5, <2>1 DEF Preload
    <3> QED BY <1>3, <1>4, <3>1, <3>2 DEF Excused, Key
  <2>3. AsDeclared' = AsDeclared
    BY <1>3 DEF AsDeclared, HasDuplicate, IsSorted, Key
  <2> QED BY <1>4, <2>1, <2>2, <2>3 DEF NoKeyLost, Excused
<1> QED BY <1>6, <1>8, <1>9, <1>10, <1>11 DEF IInv

\* Value() keeps the invariant.
LEMMA ValueKeepsInvariant ==
    ASSUME IInv, NEW k \in Keys, ScriptValue(k)
    PROVE  IInv'
<1>1. Open /\ opts.kind = "script" /\ Type /\ Script /\ ~HasDuplicate
  BY ScriptOpen DEF ScriptValue
<1>2. PICK f \in Found(k, TRUE) :
          /\ cur' = f.cur /\ holder' = f.holder
          /\ IF f.result = "yes" /\ ~(f.state = "kGaveObject" /\ opts.once)
             THEN /\ state' = "kGaveObject"
                  /\ tombs' = IF opts.once THEN tombs \union {f.cur} ELSE tombs
                  /\ Answer("Value", k, "value", f.holder)
             ELSE /\ state' = f.state /\ tombs' = tombs
                  /\ Answer("Value", k, "threw", 0)
  BY DEF ScriptValue
<1>3. /\ table' = table /\ opts' = opts /\ script' = script /\ pos' = pos
  BY DEF ScriptValue, archiveVars
<1>4. /\ f.state \in {"kNotHaveObject", "kHaveObject", "kGaveObject"}
      /\ f.state # "kNotHaveObject" =>
            f.cur \in DOMAIN table /\ f.holder = f.cur /\ table[f.cur].good
      /\ f.state = "kGaveObject" => f.cur \in given
      /\ opts.once /\ f.state = "kHaveObject" => f.cur \notin given
      /\ f.result = "yes" =>
            f.state \in {"kHaveObject", "kGaveObject"} /\ Key(f.cur) = k
  BY <1>1, FoundScript
<1>5. k \in Nat /\ DOMAIN table = 1..Len(table) /\ Len(table) \in Nat
  BY <1>1, KeysAssumption, KeysAreNumbers DEF Type
<1>6. Type' /\ Script' /\ ValueIsOfKey' /\ denied' = denied /\ given \subseteq given' /\ ans'.op = "Value"
  <2>1. CASE f.result = "yes" /\ ~(f.state = "kGaveObject" /\ opts.once)
    <3>1. /\ state' = "kGaveObject" /\ cur' = f.cur /\ holder' = f.cur
          /\ tombs' = IF opts.once THEN tombs \union {f.cur} ELSE tombs
          /\ Answer("Value", k, "value", f.cur)
          /\ f.cur \in 1..Len(table) /\ f.cur # 0 /\ table[f.cur].good /\ Key(f.cur) = k
      BY <1>2, <1>4, <1>5, <2>1
    <3>2. /\ ans' = [op |-> "Value", key |-> k, result |-> "value", entry |-> f.cur]
          /\ denied' = denied /\ given' = given \union {f.cur}
      BY <3>1 DEF Answer
    <3>3. Type'
      <4>1. ans' \in [op : {"none", "HasKey", "Value", "Close"}, key : Nat,
                      result : {"yes", "no", "threw", "value"}, entry : Nat]
        BY <1>5, <3>1, <3>2
      <4> QED BY <1>1, <1>3, <3>1, <4>1 DEF Type, States
    <3>4. Script'
      <4>1. opts'.once => tombs' = given'
        BY <1>1, <1>3, <3>1, <3>2 DEF Script
      <4> QED BY <1>1, <1>3, <1>5, <3>1, <3>2, <4>1 DEF Script
    <3>5. ValueIsOfKey'
      <4>1. f.cur \in Readable'
        BY <1>1, <1>3, <1>5, <3>1 DEF Readable
      <4> QED BY <1>1, <1>3, <3>1, <3>2, <4>1 DEF ValueIsOfKey, Key
    <3> QED BY <3>2, <3>3, <3>4, <3>5
  <2>2. CASE ~(f.result = "yes" /\ ~(f.state = "kGaveObject" /\ opts.once))
    <3>1. /\ state' = f.state /\ cur' = f.cur /\ holder' = f.holder /\ tombs' = tombs
          /\ ans' = [op |-> "Value", key |-> k, result |-> "threw", entry |-> 0]
          /\ denied' = denied /\ given' = given
      BY <1>2, <2>2 DEF Answer
    <3>2. Type'
      <4>1. ans' \in [op : {"none", "HasKey", "Value", "Close"}, key : Nat,
                      result : {"yes", "no", "threw", "value"}, entry : Nat]
        BY <1>5, <3>1
      <4> QED BY <1>1, <1>3, <1>4, <3>1, <4>1 DEF Type, States
    <3>3. Script'
      <4>1. /\ script' \in [DOMAIN table' -> DOMAIN table']
            /\ \A j \in DOMAIN table' : \E i \in DOMAIN table' : script'[i] = j
            /\ opts'.once => tombs' = given'
        BY <1>1, <1>3, <3>1 DEF Script
      <4> QED BY <1>3, <1>4, <3>1, <4>1 DEF Script
    <3>4. ValueIsOfKey'
      BY <3>1 DEF ValueIsOfKey
    <3> QED BY <3>1, <3>2, <3>3, <3>4
  <2> QED BY <2>1, <2>2
<1>7. Reading' /\ YesKept'
  BY <1>1, <1>3, <1>6 DEF Reading, HasDuplicate, Key, YesKept
<1>8. (AsDeclared => NothingMissing)' /\ NoKeyLost'
  <2>1. NothingMissing' /\ Readable' = Readable
    BY <1>1, <1>3 DEF NothingMissing, Readable
  <2>2. ASSUME NEW i \in Readable, AsDeclared PROVE Excused(i)'
    <3>1. Excused(i)
      BY <2>2 DEF IInv, NoKeyLost, Excused
    <3> QED BY <1>3, <1>6, <3>1 DEF Excused, Key
  <2>3. AsDeclared' = AsDeclared
    BY <1>3 DEF AsDeclared, HasDuplicate, IsSorted, Key
  <2> QED BY <1>6, <2>1, <2>2, <2>3 DEF NoKeyLost, Excused
<1> QED BY <1>6, <1>7, <1>8 DEF IInv

-----------------------------------------------------------------------------
(* The invariant holds. *)

\* Open() establishes it: a script file is complete in script_.
LEMMA InitEstablishes == Init => IInv
<1> SUFFICES ASSUME Init PROVE IInv
  OBVIOUS
<1>1. table \in Seq(Entries)
  <2>1. PICK n \in 0..MaxEntries : table \in [1..n -> Entries]
    BY DEF Init
  <2>2. n \in Nat
    BY KeysAssumption
  <2> QED BY <2>1, <2>2, SeqDef
<1>2. DOMAIN table = 1..Len(table) /\ Len(table) \in Nat
  BY <1>1, KeysAreNumbers
<1>3. Type
  <2>1. None \in [op : {"none", "HasKey", "Value", "Close"}, key : Nat,
                  result : {"yes", "no", "threw", "value"}, entry : Nat]
    BY DEF None
  <2> QED BY <1>1, <1>2, <2>1 DEF Init, Type, States
<1>4. Reading
  <2>1. CASE opts.kind = "script"
    <3>1. ~HasDuplicate /\ script = Sorted /\ state = "kNotHaveObject" /\ tombs = given
      BY <2>1 DEF Init
    <3>2. Script
      BY <1>1, <3>1, SortedIsComplete DEF Script
    <3> QED BY <2>1, <3>1, <3>2 DEF Reading
  <2>2. CASE opts.kind # "script"
    <3>1. state = "kNoObject" /\ pos = 0 /\ lastFound = 0 /\ given = {} /\ memory = {} /\ pending = 0
          /\ lastRequested = 0
      BY <2>2 DEF Init
    <3>2. Archive /\ Memory /\ Requested
      BY <3>1 DEF Archive, Memory, Requested
    <3> QED BY <2>2, <3>2 DEF Reading
  <2> QED BY <2>1, <2>2
<1>5. YesKept /\ ValueIsOfKey /\ NothingMissing /\ NoKeyLost
  BY DEF Init, None, YesKept, ValueIsOfKey, NothingMissing, NoKeyLost, Excused
<1> QED BY <1>3, <1>4, <1>5 DEF IInv

\* Close() reports an archive that broke off.
LEMMA CloseKeepsInvariant ==
    ASSUME IInv, Close
    PROVE  IInv'
<1>1. /\ table' = table /\ opts' = opts /\ pos' = pos /\ denied' = denied /\ given' = given
      /\ state # "kUninitialized" /\ state' = "kUninitialized"
      /\ ans' = [op |-> "Close", key |-> 0, result |-> IF CloseFails THEN "no" ELSE "yes", entry |-> 0]
  BY DEF Close, None
<1>2. Type'
  <2>1. ans' \in [op : {"none", "HasKey", "Value", "Close"}, key : Nat,
                  result : {"yes", "no", "threw", "value"}, entry : Nat]
    BY <1>1
  <2> QED BY <1>1, <2>1 DEF IInv, Type, States
<1>3. Reading'
  BY <1>1 DEF IInv, Reading, HasDuplicate, Key, Open
<1>4. YesKept' /\ ValueIsOfKey' /\ NothingMissing'
  BY <1>1 DEF YesKept, ValueIsOfKey, NothingMissing
<1>5. NoKeyLost'
  <2>1. AsDeclared' = AsDeclared /\ Readable' = Readable
        /\ \A i \in DOMAIN table : Excused(i)' = Excused(i)
    BY <1>1 DEF AsDeclared, HasDuplicate, IsSorted, Readable, Excused, Key
  <2>2. ASSUME AsDeclared, NEW i \in Readable PROVE Excused(i)
    BY <2>2 DEF IInv, NoKeyLost, Excused
  <2>3. ASSUME AsDeclared, ~CloseFails, ~opts.permissive, NEW i \in DOMAIN table PROVE Excused(i)
    <3>1. CASE opts.kind = "script"
      <4>1. i \in Readable
        BY <2>3, <3>1 DEF Readable
      <4> QED BY <2>2, <2>3, <4>1
    <3>2. CASE opts.kind # "script"
      BY <1>1, <2>3, <3>2 DEF CloseFails, IInv, NothingMissing
    <3> QED BY <3>1, <3>2
  <2>4. Readable \subseteq DOMAIN table
    BY DEF Readable
  <2> QED BY <1>1, <2>1, <2>2, <2>3, <2>4 DEF NoKeyLost, Excused
<1> QED BY <1>2, <1>3, <1>4, <1>5 DEF IInv

\* Every step keeps the invariant.
LEMMA NextKeepsInvariant == IInv /\ [Next]_vars => IInv'
<1> SUFFICES ASSUME IInv, [Next]_vars PROVE IInv'
  OBVIOUS
<1>1. ASSUME NEW k \in Keys, HasKey(k) PROVE IInv'
  BY <1>1, HasKeyKeepsInvariant, CallKeepsInvariant DEF HasKey
<1>2. ASSUME NEW k \in Keys, Value(k) PROVE IInv'
  BY <1>2, ValueKeepsInvariant, CallKeepsInvariant DEF Value
<1>3. CASE Close
  BY <1>3, CloseKeepsInvariant
<1>4. CASE UNCHANGED vars
  BY <1>4 DEF vars, scriptVars, archiveVars, IInv, Type, Reading, Script, Archive, Memory,
      Requested, YesKept, ValueIsOfKey, NothingMissing, NoKeyLost, Excused, AsDeclared,
      HasDuplicate, IsSorted, Readable, Key, Open, Here, Holds
<1> QED BY <1>1, <1>2, <1>3, <1>4 DEF Next

\* So that it always holds.
LEMMA InvariantHolds == Spec => []IInv
BY InitEstablishes, NextKeepsInvariant, PTL DEF Spec

-----------------------------------------------------------------------------
\* Value() gives the value of the key that was asked for, of an entry that can
\* be read, and its object is still there: in holder_, in the archive's reader,
\* or in seen_pairs_ or map_.
THEOREM ValueIsRight == Spec => []ValueIsOfKey
<1>1. IInv => ValueIsOfKey
  BY DEF IInv
<1> QED BY <1>1, InvariantHolds, PTL

\* Whatever is asked in whatever order, a table that is what the rspecifier says
\* loses no key that can be read, and an archive that broke off before a key
\* that was denied makes Close() fail.
THEOREM KeysAreKept == Spec => []NoKeyLost
<1>1. IInv => NoKeyLost
  BY DEF IInv
<1> QED BY <1>1, InvariantHolds, PTL

\* The step of YesMeansValue, in a script file and in the three kinds of archives.
ValuePromised ==
    /\ ans.op = "HasKey" /\ ans.result = "yes" /\ ans'.op = "Value" /\ ans'.key = ans.key
    /\ ~\E i \in given : Key(i) = ans.key /\ opts.once
    /\ opts.kind = "script" /\ ~opts.permissive => \A i \in DOMAIN table : table[i].good

\* With a script file: the key is there, and it was not given before.
LEMMA ScriptValueFollows ==
    ASSUME IInv, NEW k \in Keys, ScriptValue(k), ValuePromised
    PROVE  ans'.result = "value"
<1>1. Open /\ opts.kind = "script" /\ Type /\ Script /\ ~HasDuplicate
  BY ScriptOpen DEF ScriptValue
<1>2. PICK f \in Found(k, TRUE) :
          IF f.result = "yes" /\ ~(f.state = "kGaveObject" /\ opts.once)
          THEN Answer("Value", k, "value", f.holder)
          ELSE Answer("Value", k, "threw", 0)
  BY DEF ScriptValue
<1>3. ans.key = k
  BY <1>2 DEF ValuePromised, Answer
<1>4. PICK i \in DOMAIN table : Here(i, k)
  BY <1>1, <1>3 DEF IInv, YesKept, ValuePromised
<1>5. script[i] \in DOMAIN table /\ Key(script[i]) = k /\ (opts.permissive => Holds(k))
  BY <1>1, <1>3, <1>4 DEF Script, Here, IInv, YesKept, ValuePromised
<1>6. ASSUME opts.once, NEW e \in given, Key(e) = k PROVE FALSE
  BY <1>3, <1>6 DEF ValuePromised
<1>7. f.result = "yes" /\ ~(f.state = "kGaveObject" /\ opts.once)
  <2>1. CASE Holds(k)
    <3>1. (f.result = "yes" /\ FoundSame(f)) \/ (\A j \in DOMAIN table : Key(j) # k)
      BY <1>1, <2>1, FoundCases
    <3>2. f.result = "yes" /\ f.state = state
      BY <1>5, <3>1 DEF FoundSame
    <3>3. state = "kGaveObject" => cur \in given /\ Key(cur) = k
      BY <1>1, <2>1 DEF Script, Holds
    <3> QED BY <1>6, <3>2, <3>3
  <2>2. CASE ~Holds(k)
    <3>1. ~opts.permissive /\ \A j \in DOMAIN table : table[j].good
      BY <1>1, <1>5, <2>2 DEF ValuePromised, Type, Options
    <3>2. ASSUME NEW e \in DOMAIN table, Key(e) = k, opts.once, e \in tombs PROVE FALSE
      BY <1>1, <1>6, <3>2 DEF Script
    <3>3. f.result = "yes" /\ f.state = "kHaveObject"
      BY <1>1, <1>5, <2>2, <3>1, <3>2, FoundCases
    <3> QED BY <3>3
  <2> QED BY <2>1, <2>2
<1> QED BY <1>2, <1>7 DEF Answer

\* With an archive: the entry is found where HasKey() found it, without reading.
LEMMA ArchiveValueFollows ==
    ASSUME IInv, NEW k \in Keys, ArchiveCall("Value", k), ValuePromised
    PROVE  ans'.result = "value"
<1>1. ArchiveOpen /\ opts.kind # "script" /\ Open
  BY CallIs, CallFindsArchiveOpen
<1>2. ans.key = k /\ ans.op = "HasKey" /\ ans.result = "yes"
  BY CallIs DEF ValuePromised
<1>3. Len(table) \in Nat /\ pos \in 0..Len(table) /\ pos \in Nat
      /\ \A j \in 1..Len(table) : Key(j) \in Nat
  BY <1>1, KeysAreNumbers DEF ArchiveOpen, Type
<1>4. ASSUME ~MustRead(k)
      PROVE  Last(k) = pos /\ ~Ended(k) /\ ~Bad(k) /\ ~Refused(k) /\ Read(k) = pos
  BY <1>1, <1>4, ReadOn DEF Last
<1>5. CASE opts.kind = "dsorted"
  <2>1. state = "kHaveObject" /\ Key(pos) = k /\ lastRequested = k /\ pos > 0 /\ k \in Nat
    BY <1>1, <1>2, <1>5, KeysAssumption DEF IInv, YesKept, Reading, Requested
  <2>2. ~MustRead(k)
    BY <1>5, <2>1 DEF MustRead
  <2>3. pos \in Seen(k)
    BY <1>4, <1>5, <2>1, <2>2 DEF Seen
  <2>4. Find(k).hit # 0
    BY <1>1, <2>1, <2>3, FoundHit
  <2>5. ~CalledWrongly(k, Find(k))
    BY <1>5, <2>1 DEF CalledWrongly
  <2> QED BY <1>4, <2>2, <2>4, <2>5, CallIs DEF Throws
<1>6. CASE opts.kind = "sorted"
  <2>1. lastFound \in memory /\ Key(lastFound) = k /\ pending = 0 /\ lastFound \in 1..pos /\ k \in Nat
    BY <1>1, <1>2, <1>6, KeysAssumption DEF IInv, YesKept, ArchiveOpen, Memory
  <2>2. ~(k > Key(pos)) /\ pos # 0
    <3>1. \A i \in 2..pos : Key(i - 1) < Key(i)
      BY <1>1, <1>6 DEF ArchiveOpen, Archive
    <3> DEFINE g == [i \in 1..pos |-> Key(i)]
    <3>2. /\ \A i \in 1..pos : g[i] \in Nat
          /\ \A i \in 2..pos : g[i - 1] < g[i]
      BY <1>3, <3>1
    <3>3. \A i, j \in 1..pos : i < j => g[i] < g[j]
      <4> HIDE DEF g
      <4> QED BY <1>3, <3>2, Rising
    <3>4. lastFound = pos \/ Key(lastFound) < Key(pos)
      BY <1>3, <2>1, <3>3
    <3>5. Key(pos) \in Nat /\ pos # 0
      BY <1>3, <2>1
    <3> QED BY <2>1, <3>4, <3>5
  <2>3. ~MustRead(k)
    BY <1>6, <2>2 DEF MustRead
  <2>4. lastFound # 0
    BY <1>3, <2>1
  <2>5. Find(k).hit = lastFound
    BY <1>6, <2>1, <2>4, FindIs
  <2>6. Find(k).memory = Stored(k)
    BY FindIs
  <2>7. lastFound \in Stored(k)
    BY <1>6, <2>1, <2>4 DEF Stored, Kept
  <2>8. ~CalledWrongly(k, Find(k))
    BY <1>6, <2>5, <2>6, <2>7 DEF CalledWrongly
  <2> QED BY <1>4, <2>3, <2>4, <2>5, <2>8, CallIs DEF Throws
<1>7. CASE opts.kind = "unsorted"
  <2>1. pending = 0 /\ \E i \in memory : Key(i) = k
    BY <1>2, <1>7 DEF IInv, YesKept
  <2>2. PICK i \in memory : Key(i) = k
    BY <2>1
  <2>3. i \in Kept
    BY <1>1, <1>3, <1>7, <2>1, <2>2 DEF Kept, ArchiveOpen, Memory
  <2>4. ~MustRead(k)
    BY <1>7, <2>2, <2>3 DEF MustRead
  <2>5. i \in Seen(k)
    BY <1>7, <2>3 DEF Seen, Stored
  <2>6. Find(k).hit # 0
    BY <1>1, <2>2, <2>5, FoundHit
  <2>7. ~CalledWrongly(k, Find(k))
    BY <1>7, <2>6 DEF CalledWrongly
  <2> QED BY <1>4, <2>4, <2>6, <2>7, CallIs DEF Throws
<1> QED BY <1>1, <1>5, <1>6, <1>7 DEF ArchiveOpen, Type, Options

\* Where HasKey() says yes, Value() of that key does not throw, except on a file
\* that cannot be read and on a key asked for against the promise to ask once.
THEOREM YesIsKept == Spec => YesMeansValue
<1>1. ASSUME IInv, Next, ValuePromised PROVE ans'.result = "value"
  <2>1. ASSUME NEW k \in Keys, HasKey(k) PROVE FALSE
    <3>1. ans'.op = "HasKey"
      BY <2>1, CallIs DEF HasKey, ScriptHasKey, Answer
    <3> QED BY <1>1, <3>1 DEF ValuePromised
  <2>2. ASSUME NEW k \in Keys, Value(k) PROVE ans'.result = "value"
    BY <1>1, <2>2, ScriptValueFollows, ArchiveValueFollows DEF Value
  <2>3. CASE Close
    BY <1>1, <2>3 DEF ValuePromised, Close, None
  <2> QED BY <1>1, <2>1, <2>2, <2>3 DEF Next
<1>2. IInv /\ [Next]_vars =>
        [ /\ ans.op = "HasKey" /\ ans.result = "yes" /\ ans'.op = "Value" /\ ans'.key = ans.key
          /\ ~\E i \in given : Key(i) = ans.key /\ opts.once
          /\ opts.kind = "script" /\ ~opts.permissive => \A i \in DOMAIN table : table[i].good
          => ans'.result = "value" ]_vars
  BY <1>1 DEF ValuePromised
<1> QED BY <1>2, InvariantHolds, PTL DEF Spec, YesMeansValue

\* With the option once no entry is given out twice, except by an archive whose
\* user promised to ask in order.
THEOREM GivenOnce == Spec => OnceMeansOnce
<1>1. ASSUME IInv, Next, opts.once, opts.kind # "dsorted", ans'.op = "Value", ans'.result = "value"
      PROVE  ans'.entry \notin given
  <2>1. ASSUME NEW k \in Keys, HasKey(k) PROVE FALSE
    <3>1. ans'.op = "HasKey"
      BY <2>1, CallIs DEF HasKey, ScriptHasKey, Answer
    <3> QED BY <1>1, <3>1
  <2>2. ASSUME NEW k \in Keys, ScriptValue(k) PROVE ans'.entry \notin given
    <3>1. Open /\ opts.kind = "script" /\ Type /\ Script /\ ~HasDuplicate
      BY <1>1, <2>2, ScriptOpen DEF ScriptValue
    <3>2. PICK f \in Found(k, TRUE) :
              IF f.result = "yes" /\ ~(f.state = "kGaveObject" /\ opts.once)
              THEN Answer("Value", k, "value", f.holder)
              ELSE Answer("Value", k, "threw", 0)
      BY <2>2 DEF ScriptValue
    <3>3. f.result = "yes" /\ f.state # "kGaveObject" /\ ans'.entry = f.holder
      BY <1>1, <3>2 DEF Answer
    <3>4. f.state = "kHaveObject" /\ f.holder = f.cur /\ f.cur \notin given
      BY <1>1, <3>1, <3>3, FoundScript
    <3> QED BY <3>3, <3>4
  <2>3. ASSUME NEW k \in Keys, ArchiveCall("Value", k) PROVE ans'.entry \notin given
    <3>1. ArchiveOpen /\ opts.kind \in {"sorted", "unsorted"}
      BY <1>1, <2>3, CallIs, CallFindsArchiveOpen DEF ArchiveOpen, Type, Options
    <3>2. ~Throws("Value", k) /\ ans'.entry = Find(k).hit /\ Find(k).hit # 0 /\ memory' = Stored(k)
      BY <1>1, <2>3, CallIs
    <3>3. Find(k).hit \in memory'
      BY <3>1, <3>2, FoundIsThere
    <3>4. given \cap memory' = {}
      BY <1>1, <2>3, <3>1, CallMemory
    <3> QED BY <3>2, <3>3, <3>4
  <2>4. CASE Close
    BY <1>1, <2>4 DEF Close, None
  <2> QED BY <1>1, <2>1, <2>2, <2>3, <2>4 DEF Next, Value
<1>2. IInv /\ [Next]_vars =>
        [ opts.once /\ opts.kind # "dsorted" /\ ans'.op = "Value" /\ ans'.result = "value"
          => ans'.entry \notin given ]_vars
  BY <1>1
<1> QED BY <1>2, InvariantHolds, PTL DEF Spec, OnceMeansOnce
=============================================================================
