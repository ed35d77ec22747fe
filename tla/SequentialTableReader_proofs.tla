-------------------- MODULE SequentialTableReader_proofs --------------------
(***************************************************************************)
(* Proofs about module SequentialTableReader, for tables of any length:    *)
(* the two threads never use the base reader at the same time,             *)
(* the value that is given out is that of the key, and what is shown and   *)
(* reported is a reading of the table (module TableReading).               *)
(*                                                                         *)
(* Nothing in the code locks the base reader.  What keeps the threads      *)
(* apart is one baton: while the background thread sleeps in               *)
(* producer_sem_.Wait() there is at most one permit, which is in one of    *)
(* the semaphores or in the user's hand; while it works there is none      *)
(* (OneBaton).  It is read together with what each thread has found out    *)
(* about the base reader before it goes on (BaseKnown).                    *)
(*                                                                         *)
(* The refinement needs to know besides where the base reader stands: at   *)
(* the last key shown or one step ahead of it, with nothing but dropped    *)
(* entries between (Frontier), and who is to move it next (Moves).         *)
(***************************************************************************)
EXTENDS SequentialTableReader, SequenceTheorems, FiniteSetTheorems, WellFoundedInduction,
        TLAPS

-----------------------------------------------------------------------------
(* The inductive invariant. *)

States == {"kFileStart", "kEof", "kError", "kHaveScpLine", "kLoadSucceeded", "kLoadFailed",
           "kHaveObject", "kFreedObject"}

TypeOK ==
    /\ table \in Seq(Entry) /\ opts \in Options
    /\ base \in [state : States, pos : Nat, holder : Nat]
    /\ base_reader \in BOOLEAN
    /\ consumer_sem \in Nat /\ producer_sem \in Nat
    /\ user \in {"open", "create", "opened", "idle", "next", "take", "go",
                 "close", "closing", "release", "join", "closed"}
    /\ thread \in {"none", "check", "signal", "wait", "read", "last", "bye", "ended"}
    /\ key \in Nat /\ holder \in Nat /\ keys \in Seq(Nat) /\ threw \in BOOLEAN

\* Who there is: with no background thread there are no permits, and only a
\* user whose Open() failed comes near it.
Threads ==
    /\ ~opts.bg => /\ thread = "none" /\ ~base_reader
                   /\ user \in {"open", "idle", "closed"}
    /\ thread = "none" => consumer_sem = 0 /\ producer_sem = 0
    /\ opts.bg /\ thread = "none" =>
          /\ user \in {"open", "create", "idle", "close", "closed"}
          /\ user = "idle" => threw
    /\ user \in {"open", "create"} => thread = "none"
    /\ user = "create" => base_reader
    /\ thread # "none" => base_reader \/ user \in {"release", "join", "closed"}
    /\ user \in {"release", "join"} => ~base_reader
    /\ user = "closed" /\ thread # "none" => ~base_reader

UserHolds == IF user \in {"take", "go", "closing", "release"} THEN 1 ELSE 0
Permits == consumer_sem + producer_sem + UserHolds

\* The baton that stands in for a mutex around the base reader.
OneBaton ==
    base_reader => /\ thread \in {"check", "signal", "read"} => Permits = 0
                   /\ thread = "wait" => Permits <= 1

\* What the one who holds the baton knows of the base reader.
BaseKnown ==
    /\ user = "open" => ~BaseDone
    /\ user = "create" \/ (thread = "check" /\ base_reader) => base.state # "kFreedObject"
    /\ thread \in {"signal", "wait", "read"} /\ base_reader => ~BaseDone
    /\ thread \in {"last", "bye", "ended"} /\ base_reader => BaseDone
    /\ user = "take" => thread = "wait" /\ base_reader

\* The base reader's own place, value and key.
PlaceInTable ==
    /\ ~BaseDone => base.pos <= Len(table)
    /\ HasValue(base) => base.holder = base.pos

LastKey == keys[Len(keys)]

\* What the user has in his hands belongs to the last key that he was shown.
ShownKey ==
    /\ user = "take" => key = base.pos
    /\ opts.bg /\ user # "take" /\ ~threw /\ key # 0 =>
          keys # <<>> /\ key = LastKey /\ holder \in {0, key}
    /\ ~opts.bg /\ user # "open" /\ ~BaseDone =>
          keys # <<>> /\ base.pos = LastKey /\ base.holder \in {0, base.pos}

\* Where the base reader is in the table, seen from the last key that the user
\* was shown: at it, or one step ahead, and then only dropped entries lie
\* between.
Frontier ==
    /\ \A j \in Reading!LastShown + 1 .. base.pos - 1 : Class(j) = "dropped"
    /\ base.state = "kEof" => base.pos = Len(table) + 1
    /\ base.state = "kError" => base.pos \in DOMAIN table /\ Class(base.pos) = "broken"
    /\ ~BaseDone /\ user # "open" => base.pos \in DOMAIN table /\ Class(base.pos) = "shown"

AtLast == base.pos = Reading!LastShown
Ahead == base.pos > Reading!LastShown

\* Who moves it: the thread reads on from the last key shown, the user takes
\* what lies ahead of it.
Moves ==
    /\ AtLast \/ Ahead
    /\ BaseDone \/ user = "take" => Ahead
    /\ user = "open" => base.pos = 0 /\ keys = <<>>
    /\ base_reader /\ ~BaseDone =>
          /\ producer_sem > 0 \/ thread = "read" \/ user = "go" => AtLast
          /\ consumer_sem > 0 \/ thread \in {"check", "signal"} \/ user = "create" => Ahead

\* What is reported: only at the end, and a reader whose Done() has returned
\* TRUE has seen its base reader done.
Reported ==
    /\ status = "open" \/ user \in {"release", "join", "closed"}
    /\ opts.bg /\ key = 0 /\ ~threw /\ user \notin {"open", "create", "opened", "next", "take"}
          /\ status \notin {"refused", "Open threw"} => BaseDone

IInv == TypeOK /\ Threads /\ OneBaton /\ BaseKnown /\ PlaceInTable /\ ShownKey
RInv == Frontier /\ Moves /\ Reported

-----------------------------------------------------------------------------
(* Lemmas about the base reader. *)

\* A set of natural numbers has a least one, and Min() finds it: numbers are
\* ordered as the intervals that end with them are by inclusion.
LEMMA MinOfNats ==
    ASSUME NEW T \in SUBSET Nat, T # {}
    PROVE  /\ Min(T) \in T
           /\ \A t \in T : Min(T) <= t
<1> DEFINE I == {1 .. t : t \in T}
<1>1. IsWellFoundedOn(StrictSubsetOrdering(Nat), FiniteSubsetsOf(Nat))
  BY FS_StrictSubsetOrderingWellFounded
<1>2. I \subseteq FiniteSubsetsOf(Nat) /\ I # {}
  <2>1. ASSUME NEW t \in T PROVE 1 .. t \in FiniteSubsetsOf(Nat)
    <3>1. IsFiniteSet(1 .. t)
      BY FS_Interval
    <3>2. 1 .. t \in SUBSET Nat
      OBVIOUS
    <3> QED
      BY <3>1, <3>2 DEF FiniteSubsetsOf
  <2> QED
    BY <2>1
<1>3. PICK x \in I : \A y \in I : ~(<<y, x>> \in StrictSubsetOrdering(Nat))
  <2> HIDE DEF I
  <2> QED
    BY <1>1, <1>2, WFMin
<1>4. PICK n \in T : x = 1 .. n
  OBVIOUS
<1>5. \A t \in T : n <= t
  <2> SUFFICES ASSUME NEW t \in T, t < n PROVE FALSE
    OBVIOUS
  <2>1. <<1 .. t, 1 .. n>> \notin StrictSubsetOrdering(Nat)
    BY <1>3, <1>4
  <2>2. 1 .. t \subseteq 1 .. n /\ n \in 1 .. n /\ n \notin 1 .. t
    OBVIOUS
  <2>3. 1 .. t \in SUBSET Nat /\ 1 .. n \in SUBSET Nat
    OBVIOUS
  <2> QED
    BY <2>1, <2>2, <2>3 DEF StrictSubsetOrdering
<1> QED
  BY <1>5 DEF Min

LEMMA TableIsSequence ==
    ASSUME table \in Tables
    PROVE  table \in Seq(Entry)
BY DEF Tables

\* Where Next() of either reader stops: at an entry of the table, or behind
\* its end; the value that it may already hold is the one of that entry.
LEMMA ScriptStops ==
    ASSUME table \in Seq(Entry), NEW pos \in Nat \ {0}, pos <= Len(table) + 1
    PROVE  LET b == ScriptNext(pos)
           IN  /\ b \in [state : States \ {"kFreedObject", "kFileStart"}, pos : Nat, holder : Nat]
               /\ b.state \notin {"kEof", "kError"} => b.pos <= Len(table) /\ b.holder \in {0, b.pos}
               /\ HasValue(b) => b.holder = b.pos
               /\ pos <= b.pos
               /\ \A j \in pos .. b.pos - 1 : table[j] = "badValue" /\ opts.permissive
               /\ b.state = "kEof" => b.pos = Len(table) + 1
               /\ b.state = "kError" => b.pos \in DOMAIN table /\ table[b.pos] = "badLine"
               /\ b.state \notin {"kEof", "kError"} =>
                     /\ b.pos \in DOMAIN table /\ table[b.pos] # "badLine"
                     /\ opts.permissive => table[b.pos] = "good"
<1> DEFINE T == {i \in pos .. Len(table) + 1 : StopsAt(i)}
           i == Min(T)
<1>1. T \in SUBSET Nat /\ T # {}
  <2>1. Len(table) + 1 \in T
    BY DEF StopsAt
  <2> QED
    BY <2>1
<1>2. i \in T /\ \A t \in T : i <= t
  <2> HIDE DEF T
  <2> QED
    BY <1>1, MinOfNats
<1>3. /\ i \in Nat /\ pos <= i /\ i <= Len(table) + 1 /\ StopsAt(i)
      /\ \A j \in pos .. i - 1 : j \in 1 .. Len(table) /\ ~StopsAt(j)
  <2>1. i \in pos .. Len(table) + 1 /\ StopsAt(i)
    BY <1>2
  <2>2. ASSUME NEW j \in pos .. i - 1 PROVE j \in 1 .. Len(table) /\ ~StopsAt(j)
    <3>1. j \in pos .. Len(table) + 1 /\ j < i /\ j \in 1 .. Len(table)
      BY <2>1
    <3> QED
      BY <1>2, <3>1
  <2> QED
    BY <2>1, <2>2
<1>4. ScriptNext(pos).pos = i /\ ScriptNext(pos) =
         IF i > Len(table) THEN At("kEof", i, 0)
         ELSE IF table[i] = "badLine" THEN At("kError", i, 0)
         ELSE IF opts.permissive THEN LoadCurrent(i) ELSE At("kHaveScpLine", i, 0)
  BY DEF ScriptNext, LoadCurrent, At
<1> HIDE DEF i
<1>5. i <= Len(table) => i \in DOMAIN table /\ table[i] \in Entry
  BY <1>3
<1> QED
  BY <1>3, <1>4, <1>5 DEF StopsAt, LoadCurrent, At, HasValue, States, Entry

IsBase(b) == b \in [state : States, pos : Nat, holder : Nat]

LEMMA ArchiveStops ==
    ASSUME table \in Seq(Entry), NEW pos \in Nat \ {0}, pos <= Len(table) + 1
    PROVE  LET b == ArchiveNext(pos)
           IN  /\ b \in [state : States \ {"kFreedObject", "kFileStart"}, pos : Nat, holder : Nat]
               /\ b.state \notin {"kEof", "kError"} => b.pos <= Len(table) /\ b.holder \in {0, b.pos}
               /\ HasValue(b) => b.holder = b.pos
               /\ b.pos = pos
               /\ b.state = "kEof" => b.pos = Len(table) + 1
               /\ b.state = "kError" => b.pos \in DOMAIN table /\ table[b.pos] # "good"
               /\ b.state \notin {"kEof", "kError"} => b.pos \in DOMAIN table /\ table[b.pos] = "good"
BY DEF ArchiveNext, At, HasValue, States

\* What Next() of a base reader that is not done leaves.
LEMMA BaseNextStops ==
    ASSUME TypeOK, PlaceInTable, ~BaseDone
    PROVE  /\ IsBase(BaseNext) /\ BaseNext.state # "kFreedObject"
           /\ BaseNext.state \notin {"kEof", "kError"} =>
                 BaseNext.pos <= Len(table) /\ BaseNext.holder \in {0, BaseNext.pos}
           /\ HasValue(BaseNext) => BaseNext.holder = BaseNext.pos
<1>1. /\ base.pos + 1 \in Nat \ {0} /\ base.pos + 1 <= Len(table) + 1
      /\ table \in Seq(Entry)
  BY DEF TypeOK, PlaceInTable
<1>2. CASE opts.kind = "script"
  BY <1>1, <1>2, ScriptStops DEF BaseNext, IsBase
<1>3. CASE opts.kind # "script"
  BY <1>1, <1>3, ArchiveStops DEF BaseNext, IsBase
<1> QED
  BY <1>2, <1>3

\* It goes on to the next entry that is not dropped.
LEMMA BaseNextFrontier ==
    ASSUME TypeOK, PlaceInTable, ~BaseDone
    PROVE  LET b == BaseNext
           IN  /\ b.pos > base.pos
               /\ \A j \in base.pos + 1 .. b.pos - 1 : Class(j) = "dropped"
               /\ b.state = "kEof" => b.pos = Len(table) + 1
               /\ b.state = "kError" => b.pos \in DOMAIN table /\ Class(b.pos) = "broken"
               /\ b.state \notin {"kEof", "kError"} =>
                     b.pos \in DOMAIN table /\ Class(b.pos) = "shown"
<1>1. /\ base.pos + 1 \in Nat \ {0} /\ base.pos + 1 <= Len(table) + 1
      /\ table \in Seq(Entry)
  BY DEF TypeOK, PlaceInTable
<1>2. CASE opts.kind = "script"
  <2>1. BaseNext = ScriptNext(base.pos + 1)
    BY <1>2 DEF BaseNext
  <2>2. BaseNext.pos \in Nat
    BY <1>1, <2>1, ScriptStops
  <2>3. ASSUME NEW j \in base.pos + 1 .. BaseNext.pos - 1 PROVE Class(j) = "dropped"
    <3>1. table[j] = "badValue" /\ opts.permissive
      BY <1>1, <2>1, <2>2, ScriptStops
    <3> QED
      BY <1>2, <3>1 DEF Class
  <2>4. /\ BaseNext.pos > base.pos
        /\ BaseNext.state = "kEof" => BaseNext.pos = Len(table) + 1
        /\ BaseNext.state = "kError" => BaseNext.pos \in DOMAIN table /\ table[BaseNext.pos] = "badLine"
        /\ BaseNext.state \notin {"kEof", "kError"} =>
              /\ BaseNext.pos \in DOMAIN table /\ table[BaseNext.pos] # "badLine"
              /\ opts.permissive => table[BaseNext.pos] = "good"
    BY <1>1, <2>1, <2>2, ScriptStops DEF TypeOK
  <2> QED
    BY <1>2, <2>3, <2>4 DEF Class
<1>3. CASE opts.kind # "script"
  <2>1. BaseNext = ArchiveNext(base.pos + 1) /\ opts.kind = "archive"
    BY <1>3 DEF BaseNext, TypeOK, Options
  <2>2. /\ BaseNext.pos = base.pos + 1
        /\ BaseNext.state = "kEof" => BaseNext.pos = Len(table) + 1
        /\ BaseNext.state = "kError" => BaseNext.pos \in DOMAIN table /\ table[BaseNext.pos] # "good"
        /\ BaseNext.state \notin {"kEof", "kError"} =>
              BaseNext.pos \in DOMAIN table /\ table[BaseNext.pos] = "good"
    BY <1>1, <2>1, ArchiveStops
  <2>3. base.pos + 1 .. BaseNext.pos - 1 = {} /\ BaseNext.pos > base.pos
    BY <2>2 DEF TypeOK
  <2>4. ASSUME NEW j PROVE Class(j) = IF table[j] = "good" THEN "shown" ELSE "broken"
    BY <2>1 DEF Class
  <2> QED
    BY <2>2, <2>3, <2>4
<1> QED
  BY <1>2, <1>3

\* Value() of the base reader stays at its entry and never makes it done.
LEMMA BaseValueStays ==
    ASSUME TypeOK, PlaceInTable
    PROVE  /\ IsBase(BaseValue) /\ BaseValue.pos = base.pos
           /\ BaseValue.state \in {"kEof", "kError"} <=> BaseDone
           /\ base.state # "kFreedObject" => BaseValue.state # "kFreedObject"
           /\ HasValue(BaseValue) => BaseValue.holder = BaseValue.pos
           /\ base.holder \in {0, base.pos} => BaseValue.holder \in {0, base.pos}
BY DEF TypeOK, PlaceInTable, BaseValue, LoadCurrent, At, HasValue, BaseDone, IsBase, States

LEMMA EmptiedStays ==
    ASSUME NEW b, IsBase(b), NEW object \in Nat
    PROVE  /\ IsBase(Emptied(b, object)) /\ Emptied(b, object).pos = b.pos
           /\ Emptied(b, object).holder = object
           /\ Emptied(b, object).state \in {"kLoadFailed", "kFreedObject"}
BY DEF IsBase, Emptied, At, States

-----------------------------------------------------------------------------
(* The invariant is inductive. *)

LEMMA InitInv == Init => IInv
<1> SUFFICES ASSUME Init PROVE IInv
  OBVIOUS
<1>1. table \in Seq(Entry)
  BY TableIsSequence DEF Init
<1>2. TypeOK
  <2>1. <<>> \in Seq(Nat)
    OBVIOUS
  <2> QED
    BY <1>1, <2>1 DEF Init, TypeOK, At, States
<1>3. Threads /\ OneBaton /\ BaseKnown /\ PlaceInTable /\ ShownKey
  BY <1>1 DEF Init, Threads, OneBaton, BaseKnown, PlaceInTable, ShownKey, At, BaseDone, HasValue, Options
<1> QED
  BY <1>2, <1>3 DEF IInv

\* Preservation, one lemma per action.  Each has three steps: the types, what
\* keeps the threads apart, and what belongs together.

ShownIsLast(b) == b.state \notin {"kEof", "kError"} => keys' # <<>> /\ keys'[Len(keys')] = b.pos

LEMMA ShownStays ==
    ASSUME TypeOK, NEW b, IsBase(b), Shown(b)
    PROVE  keys' \in Seq(Nat) /\ ShownIsLast(b)
BY AppendProperties DEF TypeOK, IsBase, Shown, ShownIsLast

LEMMA OpenKeeps == ASSUME IInv, Open PROVE IInv'
<1>1. IsBase(base') /\ base'.state # "kFreedObject"
  BY BaseNextStops DEF IInv, BaseKnown, Open
<1>2. keys' \in Seq(Nat) /\ (~opts.bg => base'.state = "kError" \/ ShownIsLast(base'))
  BY <1>1, ShownStays DEF IInv, TypeOK, Open
<1>3. TypeOK'
  BY <1>1, <1>2, BaseNextStops DEF IInv, Open, TypeOK, Options, given, sems, IsBase
<1>4. Threads'
  BY <1>1, <1>2, BaseNextStops DEF IInv, Open, TypeOK, Options, Threads, given, sems
<1>5. OneBaton'
  BY <1>1, <1>2, BaseNextStops DEF IInv, Open, TypeOK, Threads, OneBaton, Permits,
     UserHolds, sems
<1>6. BaseKnown'
  BY <1>1, <1>2, BaseNextStops DEF IInv, Open, TypeOK, Options, Threads, OneBaton,
     Permits, UserHolds, BaseKnown, BaseDone, sems
<1>7. PlaceInTable' /\ ShownKey'
  BY <1>1, <1>2, BaseNextStops DEF IInv, Open, TypeOK, Threads, BaseKnown, BaseDone,
     PlaceInTable, HasValue, ShownKey, LastKey, given, ShownIsLast, IsBase
<1> QED
  BY <1>3, <1>4, <1>5, <1>6, <1>7 DEF IInv

LEMMA CreateThreadKeeps == ASSUME IInv, CreateThread PROVE IInv'
<1>1. TypeOK'
  BY DEF IInv, CreateThread, TypeOK, Options, given, sems
<1>2. Threads'
  BY DEF IInv, CreateThread, TypeOK, Options, Threads, given, sems
<1>3. OneBaton'
  BY DEF IInv, CreateThread, TypeOK, Threads, OneBaton, Permits, UserHolds, sems
<1>4. BaseKnown'
  BY DEF IInv, CreateThread, TypeOK, Options, Threads, OneBaton, Permits, UserHolds,
     BaseKnown, BaseDone, sems
<1>5. PlaceInTable' /\ ShownKey'
  BY DEF IInv, CreateThread, TypeOK, Threads, BaseKnown, BaseDone, PlaceInTable,
     HasValue, ShownKey, LastKey, given
<1> QED
  BY <1>1, <1>2, <1>3, <1>4, <1>5 DEF IInv

LEMMA OpenNextKeeps == ASSUME IInv, OpenNext PROVE IInv'
<1>1. TypeOK'
  BY DEF IInv, OpenNext, TypeOK, Options, given, sems
<1>2. Threads'
  BY DEF IInv, OpenNext, TypeOK, Options, Threads, given, sems
<1>3. OneBaton'
  BY DEF IInv, OpenNext, TypeOK, Threads, OneBaton, Permits, UserHolds, sems
<1>4. BaseKnown'
  BY DEF IInv, OpenNext, TypeOK, Options, Threads, OneBaton, Permits, UserHolds,
     BaseKnown, BaseDone, sems
<1>5. PlaceInTable' /\ ShownKey'
  BY DEF IInv, OpenNext, TypeOK, Threads, BaseKnown, BaseDone, PlaceInTable, HasValue,
     ShownKey, LastKey, given
<1> QED
  BY <1>1, <1>2, <1>3, <1>4, <1>5 DEF IInv

LEMMA ValueKeeps == ASSUME IInv, Value PROVE IInv'
<1>1. TypeOK'
  BY BaseValueStays DEF IInv, Value, TypeOK, Options, given, sems, IsBase
<1>2. Threads'
  BY BaseValueStays DEF IInv, Value, TypeOK, Options, Threads, given, sems
<1>3. OneBaton'
  BY BaseValueStays DEF IInv, Value, TypeOK, Threads, OneBaton, Permits, UserHolds, sems
<1>4. BaseKnown'
  BY BaseValueStays DEF IInv, Value, TypeOK, Options, Threads, OneBaton, Permits,
     UserHolds, BaseKnown, BaseDone, sems
<1>5. PlaceInTable' /\ ShownKey'
  BY BaseValueStays DEF IInv, Value, TypeOK, Threads, BaseKnown, BaseDone, PlaceInTable,
     HasValue, ShownKey, LastKey, given
<1> QED
  BY <1>1, <1>2, <1>3, <1>4, <1>5 DEF IInv

LEMMA FreeCurrentKeeps == ASSUME IInv, FreeCurrent PROVE IInv'
<1>1. IsBase(base)
  BY DEF IInv, TypeOK, IsBase
<1>2. /\ IsBase(Emptied(base, 0)) /\ Emptied(base, 0).pos = base.pos /\ Emptied(base, 0).holder = 0
      /\ Emptied(base, 0).state \in {"kLoadFailed", "kFreedObject"}
  BY <1>1, EmptiedStays
<1>3. TypeOK'
  BY <1>2 DEF IInv, FreeCurrent, TypeOK, Options, given, sems, IsBase
<1>4. Threads'
  BY <1>2 DEF IInv, FreeCurrent, TypeOK, Options, Threads, given, sems
<1>5. OneBaton'
  BY <1>2 DEF IInv, FreeCurrent, TypeOK, Threads, OneBaton, Permits, UserHolds, sems
<1>6. BaseKnown'
  BY <1>2 DEF IInv, FreeCurrent, TypeOK, Options, Threads, OneBaton, Permits, UserHolds,
     BaseKnown, BaseDone, sems
<1>7. PlaceInTable' /\ ShownKey'
  BY <1>2 DEF IInv, FreeCurrent, TypeOK, Threads, BaseKnown, BaseDone, PlaceInTable,
     HasValue, ShownKey, LastKey, given, Done
<1> QED
  BY <1>3, <1>4, <1>5, <1>6, <1>7 DEF IInv

LEMMA AskNextKeeps == ASSUME IInv, AskNext PROVE IInv'
<1>1. ~opts.bg => IsBase(base') /\ Shown(base')
  BY BaseNextStops DEF IInv, AskNext, Done
<1>2. keys' \in Seq(Nat) /\ (~opts.bg => ShownIsLast(base'))
  BY <1>1, ShownStays DEF IInv, TypeOK, AskNext
<1>3. TypeOK'
  BY <1>1, <1>2, BaseNextStops DEF IInv, AskNext, TypeOK, Options, given, sems, IsBase,
     Done
<1>4. Threads'
  BY <1>1, <1>2, BaseNextStops DEF IInv, AskNext, TypeOK, Options, Threads, given, sems,
     Done
<1>5. OneBaton'
  BY <1>1, <1>2, BaseNextStops DEF IInv, AskNext, TypeOK, Threads, OneBaton, Permits,
     UserHolds, sems
<1>6. BaseKnown'
  BY <1>1, <1>2, BaseNextStops DEF IInv, AskNext, TypeOK, Options, Threads, OneBaton,
     Permits, UserHolds, BaseKnown, BaseDone, sems, Done
<1>7. PlaceInTable' /\ ShownKey'
  BY <1>1, <1>2, BaseNextStops DEF IInv, AskNext, TypeOK, Threads, BaseKnown, BaseDone,
     PlaceInTable, HasValue, ShownKey, LastKey, given, ShownIsLast, IsBase, Done
<1> QED
  BY <1>3, <1>4, <1>5, <1>6, <1>7 DEF IInv

LEMMA TakeKeyKeeps == ASSUME IInv, TakeKey PROVE IInv'
<1>1. TypeOK'
  BY DEF IInv, TakeKey, TypeOK, Options, given, sems
<1>2. Threads'
  BY DEF IInv, TakeKey, TypeOK, Options, Threads, given, sems
<1>3. OneBaton'
  BY DEF IInv, TakeKey, TypeOK, Threads, OneBaton, Permits, UserHolds, sems
<1>4. BaseKnown'
  BY DEF IInv, TakeKey, TypeOK, Options, Threads, OneBaton, Permits, UserHolds,
     BaseKnown, BaseDone, sems
<1>5. PlaceInTable' /\ ShownKey'
  BY DEF IInv, TakeKey, TypeOK, Threads, BaseKnown, BaseDone, PlaceInTable, HasValue,
     ShownKey, LastKey, given
<1> QED
  BY <1>1, <1>2, <1>3, <1>4, <1>5 DEF IInv

LEMMA TakeValueKeeps == ASSUME IInv, TakeValue PROVE IInv'
<1>1. /\ IsBase(BaseValue) /\ BaseValue.pos = base.pos
      /\ Append(keys, key) \in Seq(Nat) /\ Append(keys, key) # <<>>
      /\ Append(keys, key)[Len(Append(keys, key))] = key
  BY BaseValueStays, AppendProperties DEF IInv, TypeOK
<1>2. /\ IsBase(Emptied(BaseValue, holder)) /\ Emptied(BaseValue, holder).pos = base.pos
      /\ Emptied(BaseValue, holder).state \in {"kLoadFailed", "kFreedObject"}
  BY <1>1, EmptiedStays DEF IInv, TypeOK
<1>3. TypeOK'
  BY <1>1, <1>2, BaseValueStays DEF IInv, TakeValue, TypeOK, Options, given, sems,
     IsBase
<1>4. Threads'
  BY <1>1, <1>2, BaseValueStays DEF IInv, TakeValue, TypeOK, Options, Threads, given,
     sems
<1>5. OneBaton'
  BY <1>1, <1>2, BaseValueStays DEF IInv, TakeValue, TypeOK, Threads, OneBaton, Permits,
     UserHolds, sems
<1>6. BaseKnown'
  BY <1>1, <1>2, BaseValueStays DEF IInv, TakeValue, TypeOK, Options, Threads, OneBaton,
     Permits, UserHolds, BaseKnown, BaseDone, sems
<1>7. PlaceInTable' /\ ShownKey'
  BY <1>1, <1>2, BaseValueStays DEF IInv, TakeValue, TypeOK, Threads, BaseKnown,
     BaseDone, PlaceInTable, HasValue, ShownKey, LastKey, given
<1> QED
  BY <1>3, <1>4, <1>5, <1>6, <1>7 DEF IInv

LEMMA LetReadOnKeeps == ASSUME IInv, LetReadOn PROVE IInv'
<1>1. TypeOK'
  BY DEF IInv, LetReadOn, TypeOK, Options, given, sems
<1>2. Threads'
  BY DEF IInv, LetReadOn, TypeOK, Options, Threads, given, sems
<1>3. OneBaton'
  BY DEF IInv, LetReadOn, TypeOK, Threads, OneBaton, Permits, UserHolds, sems
<1>4. BaseKnown'
  BY DEF IInv, LetReadOn, TypeOK, Options, Threads, OneBaton, Permits, UserHolds,
     BaseKnown, BaseDone, sems
<1>5. PlaceInTable' /\ ShownKey'
  BY DEF IInv, LetReadOn, TypeOK, Threads, BaseKnown, BaseDone, PlaceInTable, HasValue,
     ShownKey, LastKey, given
<1> QED
  BY <1>1, <1>2, <1>3, <1>4, <1>5 DEF IInv

LEMMA CloseKeeps == ASSUME IInv, Close PROVE IInv'
<1>1. TypeOK'
  BY DEF IInv, Close, TypeOK, Options, given, sems
<1>2. Threads'
  BY DEF IInv, Close, TypeOK, Options, Threads, given, sems
<1>3. OneBaton'
  BY DEF IInv, Close, TypeOK, Threads, OneBaton, Permits, UserHolds, sems
<1>4. BaseKnown'
  BY DEF IInv, Close, TypeOK, Options, Threads, OneBaton, Permits, UserHolds, BaseKnown,
     BaseDone, sems
<1>5. PlaceInTable' /\ ShownKey'
  BY DEF IInv, Close, TypeOK, Threads, BaseKnown, BaseDone, PlaceInTable, HasValue,
     ShownKey, LastKey, given
<1> QED
  BY <1>1, <1>2, <1>3, <1>4, <1>5 DEF IInv

LEMMA CloseWaitKeeps == ASSUME IInv, CloseWait PROVE IInv'
<1>1. TypeOK'
  BY DEF IInv, CloseWait, TypeOK, Options, given, sems
<1>2. Threads'
  BY DEF IInv, CloseWait, TypeOK, Options, Threads, given, sems
<1>3. OneBaton'
  BY DEF IInv, CloseWait, TypeOK, Threads, OneBaton, Permits, UserHolds, sems
<1>4. BaseKnown'
  BY DEF IInv, CloseWait, TypeOK, Options, Threads, OneBaton, Permits, UserHolds,
     BaseKnown, BaseDone, sems
<1>5. PlaceInTable' /\ ShownKey'
  BY DEF IInv, CloseWait, TypeOK, Threads, BaseKnown, BaseDone, PlaceInTable, HasValue,
     ShownKey, LastKey, given
<1> QED
  BY <1>1, <1>2, <1>3, <1>4, <1>5 DEF IInv

LEMMA CloseBaseKeeps == ASSUME IInv, CloseBase PROVE IInv'
<1>1. TypeOK'
  BY DEF IInv, CloseBase, TypeOK, Options, given, sems
<1>2. Threads'
  BY DEF IInv, CloseBase, TypeOK, Options, Threads, given, sems
<1>3. OneBaton'
  BY DEF IInv, CloseBase, TypeOK, Threads, OneBaton, Permits, UserHolds, sems
<1>4. BaseKnown'
  BY DEF IInv, CloseBase, TypeOK, Options, Threads, OneBaton, Permits, UserHolds,
     BaseKnown, BaseDone, sems
<1>5. PlaceInTable' /\ ShownKey'
  BY DEF IInv, CloseBase, TypeOK, Threads, BaseKnown, BaseDone, PlaceInTable, HasValue,
     ShownKey, LastKey, given
<1> QED
  BY <1>1, <1>2, <1>3, <1>4, <1>5 DEF IInv

LEMMA CloseReleaseKeeps == ASSUME IInv, CloseRelease PROVE IInv'
<1>1. TypeOK'
  BY DEF IInv, CloseRelease, TypeOK, Options, given, sems
<1>2. Threads'
  BY DEF IInv, CloseRelease, TypeOK, Options, Threads, given, sems
<1>3. OneBaton'
  BY DEF IInv, CloseRelease, TypeOK, Threads, OneBaton, Permits, UserHolds, sems
<1>4. BaseKnown'
  BY DEF IInv, CloseRelease, TypeOK, Options, Threads, OneBaton, Permits, UserHolds,
     BaseKnown, BaseDone, sems
<1>5. PlaceInTable' /\ ShownKey'
  BY DEF IInv, CloseRelease, TypeOK, Threads, BaseKnown, BaseDone, PlaceInTable,
     HasValue, ShownKey, LastKey, given
<1> QED
  BY <1>1, <1>2, <1>3, <1>4, <1>5 DEF IInv

LEMMA JoinKeeps == ASSUME IInv, Join PROVE IInv'
<1>1. TypeOK'
  BY DEF IInv, Join, TypeOK, Options, given, sems
<1>2. Threads'
  BY DEF IInv, Join, TypeOK, Options, Threads, given, sems
<1>3. OneBaton'
  BY DEF IInv, Join, TypeOK, Threads, OneBaton, Permits, UserHolds, sems
<1>4. BaseKnown'
  BY DEF IInv, Join, TypeOK, Options, Threads, OneBaton, Permits, UserHolds, BaseKnown,
     BaseDone, sems
<1>5. PlaceInTable' /\ ShownKey'
  BY DEF IInv, Join, TypeOK, Threads, BaseKnown, BaseDone, PlaceInTable, HasValue,
     ShownKey, LastKey, given
<1> QED
  BY <1>1, <1>2, <1>3, <1>4, <1>5 DEF IInv

LEMMA LoopTestKeeps == ASSUME IInv, LoopTest PROVE IInv'
<1>1. TypeOK'
  BY DEF IInv, LoopTest, TypeOK, Options, given, sems
<1>2. Threads'
  BY DEF IInv, LoopTest, TypeOK, Options, Threads, given, sems
<1>3. OneBaton'
  BY DEF IInv, LoopTest, TypeOK, Threads, OneBaton, Permits, UserHolds, sems
<1>4. BaseKnown'
  BY DEF IInv, LoopTest, TypeOK, Options, Threads, OneBaton, Permits, UserHolds,
     BaseKnown, BaseDone, sems
<1>5. PlaceInTable' /\ ShownKey'
  BY DEF IInv, LoopTest, TypeOK, Threads, BaseKnown, BaseDone, PlaceInTable, HasValue,
     ShownKey, LastKey, given
<1> QED
  BY <1>1, <1>2, <1>3, <1>4, <1>5 DEF IInv

LEMMA SignalConsumerKeeps == ASSUME IInv, SignalConsumer PROVE IInv'
<1>1. TypeOK'
  BY DEF IInv, SignalConsumer, TypeOK, Options, given, sems
<1>2. Threads'
  BY DEF IInv, SignalConsumer, TypeOK, Options, Threads, given, sems
<1>3. OneBaton'
  BY DEF IInv, SignalConsumer, TypeOK, Threads, OneBaton, Permits, UserHolds, sems
<1>4. BaseKnown'
  BY DEF IInv, SignalConsumer, TypeOK, Options, Threads, OneBaton, Permits, UserHolds,
     BaseKnown, BaseDone, sems
<1>5. PlaceInTable' /\ ShownKey'
  BY DEF IInv, SignalConsumer, TypeOK, Threads, BaseKnown, BaseDone, PlaceInTable,
     HasValue, ShownKey, LastKey, given
<1> QED
  BY <1>1, <1>2, <1>3, <1>4, <1>5 DEF IInv

LEMMA WaitProducerKeeps == ASSUME IInv, WaitProducer PROVE IInv'
<1>1. TypeOK'
  BY DEF IInv, WaitProducer, TypeOK, Options, given, sems
<1>2. Threads'
  BY DEF IInv, WaitProducer, TypeOK, Options, Threads, given, sems
<1>3. OneBaton'
  BY DEF IInv, WaitProducer, TypeOK, Threads, OneBaton, Permits, UserHolds, sems
<1>4. BaseKnown'
  BY DEF IInv, WaitProducer, TypeOK, Options, Threads, OneBaton, Permits, UserHolds,
     BaseKnown, BaseDone, sems
<1>5. PlaceInTable' /\ ShownKey'
  BY DEF IInv, WaitProducer, TypeOK, Threads, BaseKnown, BaseDone, PlaceInTable,
     HasValue, ShownKey, LastKey, given
<1> QED
  BY <1>1, <1>2, <1>3, <1>4, <1>5 DEF IInv

LEMMA ReadAheadKeeps == ASSUME IInv, ReadAhead PROVE IInv'
<1>1. TypeOK'
  BY BaseNextStops DEF IInv, ReadAhead, TypeOK, Options, given, sems, BaseKnown, IsBase
<1>2. Threads'
  BY BaseNextStops DEF IInv, ReadAhead, TypeOK, Options, Threads, given, sems
<1>3. OneBaton'
  BY BaseNextStops DEF IInv, ReadAhead, TypeOK, Threads, OneBaton, Permits, UserHolds,
     sems
<1>4. BaseKnown'
  BY BaseNextStops DEF IInv, ReadAhead, TypeOK, Options, Threads, OneBaton, Permits,
     UserHolds, BaseKnown, BaseDone, sems
<1>5. PlaceInTable' /\ ShownKey'
  BY BaseNextStops DEF IInv, ReadAhead, TypeOK, Threads, BaseKnown, BaseDone,
     PlaceInTable, HasValue, ShownKey, LastKey, given
<1> QED
  BY <1>1, <1>2, <1>3, <1>4, <1>5 DEF IInv

-----------------------------------------------------------------------------
(* What follows for the threads, and for keys and values. *)

LEMMA NextKeeps == ASSUME IInv, [Next]_vars PROVE IInv'
<1>1. CASE Next
  BY <1>1, OpenKeeps, CreateThreadKeeps, OpenNextKeeps, ValueKeeps, FreeCurrentKeeps, AskNextKeeps,
     TakeKeyKeeps, TakeValueKeeps, LetReadOnKeeps, CloseKeeps, CloseWaitKeeps, CloseBaseKeeps,
     CloseReleaseKeeps, JoinKeeps, LoopTestKeeps, SignalConsumerKeeps, WaitProducerKeeps, ReadAheadKeeps
     DEF Next, UsersCall, RunInBackground
<1>2. CASE UNCHANGED vars
  <2>1. TypeOK'
    BY <1>2 DEF IInv, TypeOK, vars, given, sems
  <2>2. Threads' /\ OneBaton' /\ BaseKnown'
    BY <1>2 DEF IInv, Threads, OneBaton, Permits, UserHolds, BaseKnown, BaseDone, vars, given, sems
  <2>3. PlaceInTable' /\ ShownKey'
    BY <1>2 DEF IInv, PlaceInTable, BaseDone, HasValue, ShownKey, LastKey, vars, given, sems
  <2> QED
    BY <2>1, <2>2, <2>3 DEF IInv
<1> QED
  BY <1>1, <1>2

\* The invariant holds in every execution.
THEOREM InvariantHolds == Spec => []IInv
<1> QED
  BY InitInv, NextKeeps, PTL DEF Spec

\* base_reader_ is used by RunInBackground() and by the user's calls without a
\* mutex, and deleted by Close(): never by both at once, and never in a state
\* in which it would throw in the background thread.
THEOREM ReaderIsExclusive == Spec => []BaseReaderHasOneUser
<1>1. IInv => BaseReaderHasOneUser
  BY DEF IInv, TypeOK, OneBaton, Permits, UserHolds, BaseKnown, BaseReaderHasOneUser
<1> QED
  BY <1>1, InvariantHolds, PTL

\* Key() and Value() of the reader, with or without its background thread,
\* belong to the entry that was shown last.
THEOREM KeyAndValueBelongTogether == Spec => []ValueIsOfKey
<1>1. IInv => ValueIsOfKey
  BY DEF IInv, TypeOK, Threads, ShownKey, LastKey, ValueIsOfKey, Done
<1> QED
  BY <1>1, InvariantHolds, PTL

-----------------------------------------------------------------------------
(* The reader implements module TableReading. *)

LEMMA InitReading == Init => RInv
BY DEF Init, RInv, Frontier, Moves, Reported, AtLast, Ahead, Reading!LastShown, At, BaseDone

\* A step that leaves the place of the base reader and the keys alone.
LEMMA FrontierStays ==
    ASSUME Frontier, UNCHANGED <<table, opts, keys>>, user = "open" => user' = "open",
           base'.pos = base.pos, BaseDone \/ BaseDone' => base'.state = base.state
    PROVE  Frontier' /\ (AtLast <=> AtLast') /\ (Ahead <=> Ahead')
BY DEF Frontier, AtLast, Ahead, Class, BaseDone, Reading!LastShown


LEMMA CreateThreadReads == ASSUME IInv, RInv, CreateThread PROVE RInv'
<1>1. UNCHANGED <<table, opts, base, keys>> /\ (user = "open" => user' = "open")
  BY DEF CreateThread, given
<1>2. Frontier' /\ (AtLast <=> AtLast') /\ (Ahead <=> Ahead')
  BY <1>1, FrontierStays DEF RInv, BaseDone
<1>3. Moves' /\ Reported'
  BY <1>1, <1>2 DEF IInv, RInv, TypeOK, Threads, OneBaton, Permits, UserHolds, BaseKnown, Moves, Reported,
     BaseDone, CreateThread, sems
<1> QED
  BY <1>2, <1>3 DEF RInv

LEMMA OpenNextReads == ASSUME IInv, RInv, OpenNext PROVE RInv'
<1>1. UNCHANGED <<table, opts, base, keys>> /\ (user = "open" => user' = "open")
  BY DEF OpenNext, given
<1>2. Frontier' /\ (AtLast <=> AtLast') /\ (Ahead <=> Ahead')
  BY <1>1, FrontierStays DEF RInv, BaseDone
<1>3. Moves' /\ Reported'
  BY <1>1, <1>2 DEF IInv, RInv, TypeOK, Threads, OneBaton, Permits, UserHolds, BaseKnown, Moves, Reported,
     BaseDone, OpenNext, sems
<1> QED
  BY <1>2, <1>3 DEF RInv

LEMMA TakeKeyReads == ASSUME IInv, RInv, TakeKey PROVE RInv'
<1>1. UNCHANGED <<table, opts, base, keys>> /\ (user = "open" => user' = "open")
  BY DEF TakeKey, given
<1>2. Frontier' /\ (AtLast <=> AtLast') /\ (Ahead <=> Ahead')
  BY <1>1, FrontierStays DEF RInv, BaseDone
<1>3. Moves' /\ Reported'
  BY <1>1, <1>2 DEF IInv, RInv, TypeOK, Threads, OneBaton, Permits, UserHolds, BaseKnown, Moves, Reported,
     BaseDone, TakeKey, sems
<1> QED
  BY <1>2, <1>3 DEF RInv

LEMMA LetReadOnReads == ASSUME IInv, RInv, LetReadOn PROVE RInv'
<1>1. UNCHANGED <<table, opts, base, keys>> /\ (user = "open" => user' = "open")
  BY DEF LetReadOn, given
<1>2. Frontier' /\ (AtLast <=> AtLast') /\ (Ahead <=> Ahead')
  BY <1>1, FrontierStays DEF RInv, BaseDone
<1>3. Moves' /\ Reported'
  BY <1>1, <1>2 DEF IInv, RInv, TypeOK, Threads, OneBaton, Permits, UserHolds, BaseKnown, Moves, Reported,
     BaseDone, LetReadOn, sems
<1> QED
  BY <1>2, <1>3 DEF RInv

LEMMA CloseReads == ASSUME IInv, RInv, Close PROVE RInv'
<1>1. UNCHANGED <<table, opts, base, keys>> /\ (user = "open" => user' = "open")
  BY DEF Close, given
<1>2. Frontier' /\ (AtLast <=> AtLast') /\ (Ahead <=> Ahead')
  BY <1>1, FrontierStays DEF RInv, BaseDone
<1>3. Moves' /\ Reported'
  BY <1>1, <1>2 DEF IInv, RInv, TypeOK, Threads, OneBaton, Permits, UserHolds, BaseKnown, Moves, Reported,
     BaseDone, Close, sems, Reports
<1> QED
  BY <1>2, <1>3 DEF RInv

LEMMA CloseWaitReads == ASSUME IInv, RInv, CloseWait PROVE RInv'
<1>1. UNCHANGED <<table, opts, base, keys>> /\ (user = "open" => user' = "open")
  BY DEF CloseWait, given
<1>2. Frontier' /\ (AtLast <=> AtLast') /\ (Ahead <=> Ahead')
  BY <1>1, FrontierStays DEF RInv, BaseDone
<1>3. Moves' /\ Reported'
  BY <1>1, <1>2 DEF IInv, RInv, TypeOK, Threads, OneBaton, Permits, UserHolds, BaseKnown, Moves, Reported,
     BaseDone, CloseWait, sems
<1> QED
  BY <1>2, <1>3 DEF RInv

LEMMA CloseBaseReads == ASSUME IInv, RInv, CloseBase PROVE RInv'
<1>1. UNCHANGED <<table, opts, base, keys>> /\ (user = "open" => user' = "open")
  BY DEF CloseBase, given
<1>2. Frontier' /\ (AtLast <=> AtLast') /\ (Ahead <=> Ahead')
  BY <1>1, FrontierStays DEF RInv, BaseDone
<1>3. Moves' /\ Reported'
  BY <1>1, <1>2 DEF IInv, RInv, TypeOK, Threads, OneBaton, Permits, UserHolds, BaseKnown, Moves, Reported,
     BaseDone, CloseBase, sems, Reports
<1> QED
  BY <1>2, <1>3 DEF RInv

LEMMA CloseReleaseReads == ASSUME IInv, RInv, CloseRelease PROVE RInv'
<1>1. UNCHANGED <<table, opts, base, keys>> /\ (user = "open" => user' = "open")
  BY DEF CloseRelease, given
<1>2. Frontier' /\ (AtLast <=> AtLast') /\ (Ahead <=> Ahead')
  BY <1>1, FrontierStays DEF RInv, BaseDone
<1>3. Moves' /\ Reported'
  BY <1>1, <1>2 DEF IInv, RInv, TypeOK, Threads, OneBaton, Permits, UserHolds, BaseKnown, Moves, Reported,
     BaseDone, CloseRelease, sems
<1> QED
  BY <1>2, <1>3 DEF RInv

LEMMA JoinReads == ASSUME IInv, RInv, Join PROVE RInv'
<1>1. UNCHANGED <<table, opts, base, keys>> /\ (user = "open" => user' = "open")
  BY DEF Join, given
<1>2. Frontier' /\ (AtLast <=> AtLast') /\ (Ahead <=> Ahead')
  BY <1>1, FrontierStays DEF RInv, BaseDone
<1>3. Moves' /\ Reported'
  BY <1>1, <1>2 DEF IInv, RInv, TypeOK, Threads, OneBaton, Permits, UserHolds, BaseKnown, Moves, Reported,
     BaseDone, Join, sems
<1> QED
  BY <1>2, <1>3 DEF RInv

LEMMA LoopTestReads == ASSUME IInv, RInv, LoopTest PROVE RInv'
<1>1. UNCHANGED <<table, opts, base, keys>> /\ (user = "open" => user' = "open")
  BY DEF LoopTest, given
<1>2. Frontier' /\ (AtLast <=> AtLast') /\ (Ahead <=> Ahead')
  BY <1>1, FrontierStays DEF RInv, BaseDone
<1>3. Moves' /\ Reported'
  BY <1>1, <1>2 DEF IInv, RInv, TypeOK, Threads, OneBaton, Permits, UserHolds, BaseKnown, Moves, Reported,
     BaseDone, LoopTest, sems
<1> QED
  BY <1>2, <1>3 DEF RInv

LEMMA SignalConsumerReads == ASSUME IInv, RInv, SignalConsumer PROVE RInv'
<1>1. UNCHANGED <<table, opts, base, keys>> /\ (user = "open" => user' = "open")
  BY DEF SignalConsumer, given
<1>2. Frontier' /\ (AtLast <=> AtLast') /\ (Ahead <=> Ahead')
  BY <1>1, FrontierStays DEF RInv, BaseDone
<1>3. Moves' /\ Reported'
  BY <1>1, <1>2 DEF IInv, RInv, TypeOK, Threads, OneBaton, Permits, UserHolds, BaseKnown, Moves, Reported,
     BaseDone, SignalConsumer, sems
<1> QED
  BY <1>2, <1>3 DEF RInv

LEMMA WaitProducerReads == ASSUME IInv, RInv, WaitProducer PROVE RInv'
<1>1. UNCHANGED <<table, opts, base, keys>> /\ (user = "open" => user' = "open")
  BY DEF WaitProducer, given
<1>2. Frontier' /\ (AtLast <=> AtLast') /\ (Ahead <=> Ahead')
  BY <1>1, FrontierStays DEF RInv, BaseDone
<1>3. Moves' /\ Reported'
  BY <1>1, <1>2 DEF IInv, RInv, TypeOK, Threads, OneBaton, Permits, UserHolds, BaseKnown, Moves, Reported,
     BaseDone, WaitProducer, sems
<1> QED
  BY <1>2, <1>3 DEF RInv

LEMMA ValueReads == ASSUME IInv, RInv, Value PROVE RInv'
<1>1. /\ UNCHANGED <<table, opts, keys, user>> /\ base'.pos = base.pos
      /\ BaseDone' <=> BaseDone
      /\ ~BaseDone
  BY BaseValueStays DEF IInv, Value, given, BaseDone
<1>2. Frontier' /\ (AtLast <=> AtLast') /\ (Ahead <=> Ahead')
  BY <1>1, FrontierStays DEF RInv
<1>3. Moves' /\ Reported'
  BY <1>1, <1>2 DEF IInv, RInv, TypeOK, Threads, OneBaton, Permits, UserHolds, BaseKnown, ShownKey,
     Moves, Reported, BaseDone, Value, given, sems
<1> QED
  BY <1>2, <1>3 DEF RInv

LEMMA FreeCurrentReads == ASSUME IInv, RInv, FreeCurrent PROVE RInv'
<1>1. /\ UNCHANGED <<table, opts, keys, user>> /\ base'.pos = base.pos
      /\ BaseDone' <=> BaseDone
      /\ BaseDone => base' = base
  <2>1. /\ Emptied(base, 0).pos = base.pos
        /\ Emptied(base, 0).state \in {"kLoadFailed", "kFreedObject"}
    BY EmptiedStays DEF IInv, TypeOK, IsBase
  <2> QED
    BY <2>1 DEF FreeCurrent, given, BaseDone, HasValue
<1>2. Frontier' /\ (AtLast <=> AtLast') /\ (Ahead <=> Ahead')
  BY <1>1, FrontierStays DEF RInv
<1>3. Moves' /\ Reported'
  BY <1>1, <1>2 DEF IInv, RInv, TypeOK, Threads, OneBaton, Permits, UserHolds, BaseKnown, ShownKey,
     Moves, Reported, BaseDone, FreeCurrent, given, sems
<1> QED
  BY <1>2, <1>3 DEF RInv

\* A reader that goes on from the last key shown.
LEMMA ShownReads ==
    ASSUME IInv, RInv, AtLast, ~BaseDone, UNCHANGED <<table, opts>>, base' = BaseNext,
           keys' = keys \/ keys' = Append(keys, base'.pos)
    PROVE  /\ Frontier'
           /\ keys' = keys => Ahead'
           /\ keys' = Append(keys, base'.pos) => AtLast'
<1>1. IsBase(base') /\ base'.pos \in Nat /\ base.pos \in Nat /\ keys \in Seq(Nat)
  BY BaseNextStops DEF IInv, TypeOK, IsBase
<1>2. /\ base'.pos > base.pos
      /\ \A j \in base.pos + 1 .. base'.pos - 1 : Class(j)' = "dropped"
      /\ base'.state = "kEof" => base'.pos = Len(table') + 1
      /\ base'.state = "kError" => base'.pos \in DOMAIN table' /\ Class(base.pos)' = "broken"
      /\ ~BaseDone' => base'.pos \in DOMAIN table' /\ Class(base.pos)' = "shown"
  BY BaseNextFrontier DEF IInv, Class, BaseDone
<1>3. CASE keys' = keys
  <2>1. Reading!LastShown' = base.pos
    BY <1>3 DEF AtLast, Reading!LastShown
  <2>2. keys' # Append(keys, base'.pos)
    BY <1>1, <1>3, AppendProperties
  <2> QED
    BY <1>1, <1>2, <1>3, <2>1, <2>2 DEF Frontier, Ahead
<1>4. CASE keys' = Append(keys, base'.pos)
  <2>1. Reading!LastShown' = base'.pos /\ keys' # keys
    BY <1>1, <1>4, AppendProperties DEF Reading!LastShown
  <2> QED
    BY <1>1, <1>2, <2>1 DEF Frontier, AtLast
<1> QED
  BY <1>3, <1>4

LEMMA OpenReads == ASSUME IInv, RInv, Open PROVE RInv'
<1>1. AtLast /\ ~BaseDone /\ UNCHANGED <<table, opts>> /\ base' = BaseNext
  BY DEF IInv, RInv, BaseKnown, Moves, AtLast, Ahead, Reading!LastShown, Open, given
<1>2. keys' = IF opts.bg \/ BaseDone' THEN keys ELSE Append(keys, base'.pos)
  BY <1>1 DEF Open, Shown, BaseDone
<1>3. Frontier' /\ (AtLast' \/ Ahead') /\ (opts.bg \/ BaseDone' => Ahead')
  BY <1>1, <1>2, ShownReads
<1>4. user = "open" /\ thread = "none" /\ producer_sem = 0 /\ consumer_sem = 0
  BY DEF IInv, Threads, Open
<1>5. /\ user' \in {"create", "idle", "closed"} /\ thread' = "none" /\ producer_sem' = 0 /\ consumer_sem' = 0
      /\ user' = "create" => opts.bg
  BY <1>4 DEF IInv, TypeOK, Options, Open, given, sems
<1>6. Moves'
  BY <1>3, <1>5 DEF Moves
<1>7. Reported'
  BY <1>1, <1>4, <1>5 DEF RInv, Reported, BaseDone, Open
<1> QED
  BY <1>3, <1>6, <1>7 DEF RInv

LEMMA AskNextReads == ASSUME IInv, RInv, AskNext PROVE RInv'
<1>1. CASE ~opts.bg
  <2>1. AtLast /\ ~BaseDone /\ UNCHANGED <<table, opts>> /\ base' = BaseNext
    BY <1>1 DEF IInv, ShownKey, LastKey, AtLast, Reading!LastShown, AskNext, Done, given
  <2>2. keys' = IF BaseDone' THEN keys ELSE Append(keys, base'.pos)
    BY <1>1, <2>1 DEF AskNext, Shown, BaseDone
  <2>3. Frontier' /\ IF BaseDone' THEN Ahead' ELSE AtLast'
    BY <2>1, <2>2, ShownReads
  <2>4. Moves' /\ Reported'
    BY <1>1, <2>1, <2>3 DEF IInv, RInv, TypeOK, Threads, Moves, Reported, BaseDone, AskNext, given, sems
  <2> QED
    BY <2>3, <2>4 DEF RInv
<1>2. CASE opts.bg
  <2>1. UNCHANGED <<table, opts, base, keys>> /\ user # "open"
    BY <1>2 DEF AskNext, given
  <2>2. Frontier' /\ (AtLast <=> AtLast') /\ (Ahead <=> Ahead')
    BY <2>1, FrontierStays DEF RInv, BaseDone
  <2>3. Moves' /\ Reported'
    BY <1>2, <2>1, <2>2 DEF IInv, RInv, TypeOK, Moves, Reported, BaseDone, AskNext, given, sems
  <2> QED
    BY <2>2, <2>3 DEF RInv
<1> QED
  BY <1>1, <1>2 DEF IInv, TypeOK, Options

LEMMA ReadAheadReads == ASSUME IInv, RInv, ReadAhead PROVE RInv'
<1>1. CASE base_reader
  <2>1. AtLast /\ ~BaseDone /\ UNCHANGED <<table, opts, keys>> /\ base' = BaseNext
    BY <1>1 DEF IInv, RInv, BaseKnown, Moves, ReadAhead, given
  <2>2. Frontier' /\ Ahead'
    BY <2>1, ShownReads
  <2>3. /\ thread' = "check" /\ producer_sem' = 0 /\ consumer_sem' = 0
        /\ user' = user /\ user \notin {"open", "go", "take"}
    BY <1>1 DEF IInv, TypeOK, Threads, OneBaton, Permits, UserHolds, BaseKnown, ReadAhead, sems
  <2>4. Moves'
    BY <2>2, <2>3 DEF Moves
  <2>5. Reported'
    BY <2>1, <2>3 DEF RInv, Reported, BaseDone, ReadAhead, given
  <2> QED
    BY <2>2, <2>4, <2>5 DEF RInv
<1>2. CASE ~base_reader
  <2>1. UNCHANGED <<table, opts, base, keys, user>>
    BY <1>2 DEF ReadAhead, given
  <2>2. Frontier' /\ (AtLast <=> AtLast') /\ (Ahead <=> Ahead')
    BY <2>1, FrontierStays DEF RInv, BaseDone
  <2>3. Moves' /\ Reported'
    BY <1>2, <2>1, <2>2 DEF IInv, RInv, TypeOK, Threads, Moves, Reported, BaseDone, ReadAhead, given, sems
  <2> QED
    BY <2>2, <2>3 DEF RInv
<1> QED
  BY <1>1, <1>2

LEMMA TakeValueReads == ASSUME IInv, RInv, TakeValue PROVE RInv'
<1>1. /\ ~BaseDone /\ ~BaseDone' /\ base'.pos = base.pos /\ key = base.pos
      /\ UNCHANGED <<table, opts>> /\ user' # "open" /\ user = "take"
  <2>1. IsBase(BaseValue) /\ BaseValue.pos = base.pos
        /\ (BaseValue.state \in {"kEof", "kError"} <=> BaseDone)
    BY BaseValueStays DEF IInv
  <2>2. /\ Emptied(BaseValue, holder).pos = base.pos
        /\ Emptied(BaseValue, holder).state \in {"kLoadFailed", "kFreedObject"}
    <3>1. IsBase(BaseValue) /\ holder \in Nat
      BY <2>1 DEF IInv, TypeOK
    <3> QED
      BY <2>1, <3>1, EmptiedStays
  <2>3. base' = BaseValue \/ base' = Emptied(BaseValue, holder)
    BY DEF TakeValue
  <2> QED
    BY <2>1, <2>2, <2>3 DEF IInv, BaseKnown, ShownKey, TakeValue, BaseDone, given
<1>2. CASE HasValue(BaseValue)
  <2>1. Reading!LastShown' = base'.pos
    BY <1>1, <1>2, AppendProperties DEF IInv, TypeOK, TakeValue, Reading!LastShown
  <2>2. Frontier' /\ AtLast'
    BY <1>1, <2>1 DEF IInv, TypeOK, RInv, Frontier, AtLast, Class, BaseDone
  <2>3. /\ user' = "go" /\ thread = "wait" /\ thread' = thread /\ base_reader' = base_reader
        /\ consumer_sem' = 0 /\ producer_sem' = 0
    BY <1>1, <1>2 DEF IInv, TypeOK, Threads, OneBaton, Permits, UserHolds, BaseKnown, TakeValue, sems
  <2>4. Moves'
    BY <1>1, <2>2, <2>3 DEF RInv, Moves
  <2>5. Reported'
    <3>1. key # 0 /\ key' = key
      BY <1>1 DEF IInv, TypeOK, RInv, Frontier, TakeValue
    <3> QED
      BY <1>1, <2>3, <3>1 DEF IInv, RInv, Moves, Reported, BaseDone, TakeValue, given
  <2> QED
    BY <2>2, <2>4, <2>5 DEF RInv
<1>3. CASE ~HasValue(BaseValue)
  <2>1. UNCHANGED keys
    BY <1>3 DEF TakeValue
  <2>2. Frontier' /\ (AtLast <=> AtLast') /\ (Ahead <=> Ahead')
    BY <1>1, <2>1, FrontierStays DEF RInv
  <2>3. Moves' /\ Reported'
    BY <1>1, <1>3, <2>2 DEF IInv, RInv, TypeOK, Threads, OneBaton, Permits, UserHolds, BaseKnown,
       Moves, Reported, BaseDone, TakeValue, sems
  <2> QED
    BY <2>2, <2>3 DEF RInv
<1> QED
  BY <1>2, <1>3

LEMMA NextKeepsReading == ASSUME IInv, RInv, [Next]_vars PROVE RInv'
<1>1. CASE Next
  BY <1>1, OpenReads, CreateThreadReads, OpenNextReads, ValueReads, FreeCurrentReads, AskNextReads,
     TakeKeyReads, TakeValueReads, LetReadOnReads, CloseReads, CloseWaitReads, CloseBaseReads,
     CloseReleaseReads, JoinReads, LoopTestReads, SignalConsumerReads, WaitProducerReads, ReadAheadReads
     DEF Next, UsersCall, RunInBackground
<1>2. CASE UNCHANGED vars
  <2>1. Frontier' /\ (AtLast <=> AtLast') /\ (Ahead <=> Ahead')
    BY <1>2, FrontierStays DEF RInv, vars, given
  <2>2. Moves' /\ Reported'
    BY <1>2, <2>1 DEF RInv, Moves, Reported, BaseDone, vars, given, sems
  <2> QED
    BY <2>1, <2>2 DEF RInv
<1> QED
  BY <1>1, <1>2

\* The classes of the entries are given with the table.
LEMMA ClassesStay ==
    ASSUME UNCHANGED given
    PROVE  /\ UNCHANGED <<[i \in DOMAIN table |-> Class(i)], opts.permissive>>
           /\ \A i : Class(i)' = Class(i)
BY DEF given, Class

\* Seen from the last key shown, the entry behind the dropped ones comes next.
LEMMA NextEntry ==
    ASSUME IInv, NEW n \in Nat, n > Reading!LastShown, NEW kind, kind # "dropped",
           \A j \in Reading!LastShown + 1 .. n - 1 : Class(j) = "dropped"
    PROVE  /\ n \in DOMAIN table => Reading!Next(n)
           /\ n \in DOMAIN table /\ Class(n) # "dropped" => (Reading!NextIs(kind) <=> Class(n) = kind)
           /\ n = Len(table) + 1 => ~Reading!NextIs(kind)
<1> DEFINE classes == [i \in DOMAIN table |-> Class(i)]
<1>1. /\ table \in Seq(Entry) /\ DOMAIN table = 1 .. Len(table) /\ DOMAIN classes = DOMAIN table
      /\ \A i \in DOMAIN table : classes[i] = Class(i)
      /\ Reading!LastShown \in Nat
  BY DEF IInv, TypeOK, Reading!LastShown
<1>2. \A i : Reading!Next(i) <=> /\ i \in DOMAIN classes /\ i > Reading!LastShown
                                 /\ \A j \in Reading!LastShown + 1 .. i - 1 : classes[j] = "dropped"
  BY DEF Reading!Next
<1>3. Reading!NextIs(kind) <=> \E i \in DOMAIN classes : Reading!Next(i) /\ classes[i] = kind
  BY DEF Reading!NextIs
<1> HIDE DEF classes
<1>4. n \in DOMAIN table => Reading!Next(n)
  BY <1>1, <1>2
<1>5. ASSUME NEW i \in DOMAIN classes, Reading!Next(i), classes[i] = kind
      PROVE  i >= n /\ (i > n => n \in DOMAIN table /\ Class(n) = "dropped")
  <2>1. i \in Nat /\ i > Reading!LastShown /\ i <= Len(table)
    BY <1>1, <1>2, <1>5
  <2>2. ~(i < n)
    BY <1>1, <1>5, <2>1
  <2>3. i > n => n \in DOMAIN table /\ Class(n) = "dropped"
    BY <1>1, <1>2, <1>5, <2>1
  <2> QED
    BY <2>1, <2>2, <2>3
<1>6. ASSUME n \in DOMAIN table, Class(n) # "dropped" PROVE Reading!NextIs(kind) <=> Class(n) = kind
  BY <1>1, <1>3, <1>4, <1>5, <1>6
<1>7. n = Len(table) + 1 => ~Reading!NextIs(kind)
  BY <1>1, <1>3, <1>5
<1> QED
  BY <1>4, <1>6, <1>7

\* What the state of the base reader says of the table.
LEMMA BaseTells ==
    ASSUME IInv, RInv, user # "open"
    PROVE  /\ BaseDone => ~Reading!NextIs("shown")
           /\ BaseDone => (Reading!NextIs("broken") <=> base.state = "kError")
           /\ ~BaseDone /\ Ahead =>
                 base.pos \in DOMAIN table /\ Reading!Next(base.pos) /\ Class(base.pos) = "shown"
<1>1. CASE ~Ahead
  BY <1>1 DEF RInv, Moves
<1>2. CASE Ahead
  <2>1. /\ base.pos \in Nat /\ base.pos > Reading!LastShown
        /\ \A j \in Reading!LastShown + 1 .. base.pos - 1 : Class(j) = "dropped"
    BY <1>2 DEF IInv, TypeOK, RInv, Frontier, Ahead
  <2>2. CASE base.state = "kEof"
    BY <2>1, <2>2, NextEntry DEF RInv, Frontier, BaseDone
  <2>3. CASE base.state # "kEof"
    BY <2>1, <2>3, NextEntry DEF RInv, Frontier, BaseDone
  <2> QED
    BY <2>2, <2>3
<1> QED
  BY <1>1, <1>2

\* What Next() of the base reader says of the table when it is called.
LEMMA BaseNextTells ==
    ASSUME IInv, RInv, AtLast, ~BaseDone
    PROVE  LET b == BaseNext
           IN  /\ b.state \in {"kEof", "kError"} => ~Reading!NextIs("shown")
               /\ b.state = "kError" => Reading!NextIs("broken")
               /\ b.state \notin {"kEof", "kError"} =>
                     b.pos \in DOMAIN table /\ Reading!Next(b.pos) /\ Class(b.pos) = "shown"
<1>1. /\ BaseNext.pos \in Nat /\ BaseNext.pos > Reading!LastShown
      /\ \A j \in Reading!LastShown + 1 .. BaseNext.pos - 1 : Class(j) = "dropped"
  BY BaseNextStops, BaseNextFrontier DEF IInv, IsBase, AtLast
<1>2. CASE BaseNext.state = "kEof"
  BY <1>1, <1>2, NextEntry, BaseNextFrontier DEF IInv
<1>3. CASE BaseNext.state # "kEof"
  <2>1. /\ BaseNext.pos \in DOMAIN table
        /\ Class(BaseNext.pos) = IF BaseNext.state = "kError" THEN "broken" ELSE "shown"
    BY <1>3, BaseNextFrontier DEF IInv
  <2> QED
    BY <1>1, <1>3, <2>1, NextEntry
<1> QED
  BY <1>2, <1>3

Step == Reading!Refuse \/ Reading!ShowKey \/ Reading!ShowDone \/ Reading!Finish

\* SaidDone is a Boolean.
LEMMA SameAnswer == ASSUME SaidDone' <=> SaidDone PROVE SaidDone' = SaidDone
<1>1. SaidDone \in BOOLEAN /\ SaidDone' \in BOOLEAN
  BY DEF SaidDone
<1> QED
  BY <1>1

\* The steps of module TableReading, as steps of the reader.
LEMMA ShowKeyStep ==
    ASSUME ~SaidDone, status = "open", UNCHANGED <<given, status>>, ~SaidDone',
           NEW i, i \in DOMAIN table, Reading!Next(i), Class(i) = "shown", keys' = Append(keys, i)
    PROVE  Step
<1>1. ~SaidDone /\ SaidDone' = SaidDone
  BY SameAnswer
<1>2. Reading!ShowKey
  BY <1>1, ClassesStay DEF Reading!ShowKey, Reading!given
<1> QED
  BY <1>2 DEF Step

LEMMA ShowDoneStep ==
    ASSUME status = "open", UNCHANGED <<given, keys, status>>, SaidDone', ~Reading!NextIs("shown")
    PROVE  Step
BY ClassesStay DEF Step, Reading!ShowDone, Reading!given

LEMMA FinishStep ==
    ASSUME IInv, RInv, user # "open", status = "open", UNCHANGED <<given, base, keys>>,
           SaidDone => BaseDone, SaidDone' <=> SaidDone,
           Reports(CloseFails, "failed") \/ Reports(CloseFails, "destructor threw")
           \/ (~opts.bg /\ Reports(DestructorThrows, "destructor threw"))
    PROVE  Step
<1>1. /\ status' \in {"ok", "failed", "destructor threw"}
      /\ status' # "ok" => base.state = "kError"
      /\ status' = "failed" => ~opts.permissive
      /\ base.state = "kError" /\ ~opts.permissive => status' # "ok"
  BY DEF Reports, CloseFails, DestructorThrows
<1>2. /\ status' # "ok" => Reading!NextIs("broken")
      /\ SaidDone /\ Reading!NextIs("broken") => base.state = "kError"
  BY <1>1, BaseTells DEF BaseDone
<1>3. SaidDone' = SaidDone
  BY SameAnswer
<1> QED
  BY <1>1, <1>2, <1>3, ClassesStay DEF Step, Reading!Finish, Reading!given

LEMMA StutterStep ==
    ASSUME UNCHANGED <<given, keys, status>>, SaidDone' <=> SaidDone
    PROVE  UNCHANGED Reading!reading
<1>1. SaidDone' = SaidDone
  BY SameAnswer
<1> QED
  BY <1>1, ClassesStay DEF Reading!reading, Reading!given

\* Every step of the reader is a step of module TableReading, or a stutter.
LEMMA ReadingStep == ASSUME IInv, RInv, [Next]_vars PROVE [Step]_(Reading!reading)
<1>1. CASE Open
  <2>1. /\ AtLast /\ ~BaseDone /\ base' = BaseNext /\ UNCHANGED given
        /\ status = "open" /\ ~SaidDone /\ keys = <<>>
    BY <1>1 DEF IInv, RInv, BaseKnown, Moves, Reported, AtLast, Ahead, Reading!LastShown, Open, SaidDone
  <2>2. CASE base'.state = "kError"
    <3>1. status' \in {"refused", "Open threw"} /\ keys' = keys /\ ~SaidDone'
      BY <1>1, <2>2 DEF Open, SaidDone
    <3>2. SaidDone' = SaidDone
      BY <2>1, <3>1, SameAnswer
    <3>3. Reading!NextIs("broken")
      BY <2>1, <2>2, BaseNextTells
    <3>4. Reading!Refuse
      BY <2>1, <3>1, <3>2, <3>3, ClassesStay DEF Reading!Refuse, Reading!given
    <3> QED
      BY <3>4 DEF Step
  <2>3. CASE base'.state # "kError" /\ opts.bg
    <3>1. user' = "create" /\ UNCHANGED <<keys, status>> /\ ~SaidDone'
      BY <1>1, <2>3 DEF Open, SaidDone
    <3> QED
      BY <2>1, <3>1, StutterStep
  <2>4. CASE base'.state = "kEof" /\ ~opts.bg
    <3>1. UNCHANGED <<keys, status>> /\ user' = "idle"
      BY <1>1, <2>4 DEF Open, Shown
    <3>2. CASE SaidDone'
      BY <2>1, <2>4, <3>1, <3>2, BaseNextTells, ShowDoneStep
    <3>3. CASE ~SaidDone'
      BY <2>1, <3>1, <3>3, StutterStep
    <3> QED
      BY <3>2, <3>3
  <2>5. CASE base'.state \notin {"kEof", "kError"} /\ ~opts.bg
    <3>1. keys' = Append(keys, base'.pos) /\ UNCHANGED status /\ ~SaidDone'
      BY <1>1, <2>1, <2>5 DEF Open, Shown, SaidDone, Done, BaseDone, given
    <3> QED
      BY <2>1, <2>5, <3>1, BaseNextTells, ShowKeyStep
  <2> QED
    BY <2>2, <2>3, <2>4, <2>5
<1>2. CASE AskNext
  <2>1. CASE opts.bg
    <3>1. UNCHANGED <<given, keys, status>> /\ ~SaidDone /\ ~SaidDone'
      BY <1>2, <2>1 DEF AskNext, SaidDone
    <3> QED
      BY <3>1, StutterStep
  <2>2. CASE ~opts.bg
    <3>1. /\ AtLast /\ ~BaseDone /\ base' = BaseNext /\ UNCHANGED <<given, status>>
          /\ status = "open" /\ ~SaidDone
      BY <1>2, <2>2 DEF IInv, RInv, ShownKey, LastKey, Reported, AtLast, Reading!LastShown, AskNext,
         Done, SaidDone
    <3>2. CASE base'.state \in {"kEof", "kError"}
      <4>1. UNCHANGED keys
        BY <1>2, <2>2, <3>1, <3>2 DEF AskNext, Shown
      <4>2. CASE SaidDone'
        BY <3>1, <3>2, <4>1, <4>2, BaseNextTells, ShowDoneStep
      <4>3. CASE ~SaidDone'
        BY <3>1, <4>1, <4>3, StutterStep
      <4> QED
        BY <4>2, <4>3
    <3>3. CASE base'.state \notin {"kEof", "kError"}
      <4>1. keys' = Append(keys, base'.pos) /\ ~SaidDone'
        BY <1>2, <2>2, <3>1, <3>3 DEF AskNext, Shown, SaidDone, Done, BaseDone, given
      <4> QED
        BY <3>1, <3>3, <4>1, BaseNextTells, ShowKeyStep
    <3> QED
      BY <3>2, <3>3
  <2> QED
    BY <2>1, <2>2
<1>3. CASE TakeValue
  <2>1. status = "open" /\ UNCHANGED <<given, status>> /\ ~SaidDone
    BY <1>3 DEF RInv, Reported, TakeValue, SaidDone
  <2>2. CASE HasValue(BaseValue)
    <3>1. base.pos \in DOMAIN table /\ Reading!Next(base.pos) /\ Class(base.pos) = "shown"
      BY <1>3, BaseTells DEF IInv, BaseKnown, RInv, Moves, TakeValue
    <3>2. keys' = Append(keys, base.pos) /\ key' = base.pos /\ key' # 0 /\ opts.bg /\ opts'.bg
      BY <1>3, <2>2, <3>1 DEF IInv, TypeOK, Options, Threads, ShownKey, TakeValue, given
    <3> QED
      BY <2>1, <3>1, <3>2, ShowKeyStep DEF SaidDone, Done
  <2>3. CASE ~HasValue(BaseValue)
    <3>1. UNCHANGED keys /\ ~SaidDone'
      BY <1>3, <2>3 DEF TakeValue, SaidDone
    <3> QED
      BY <2>1, <3>1, StutterStep
  <2> QED
    BY <2>2, <2>3
<1>4. CASE OpenNext \/ TakeKey
  <2>1. /\ UNCHANGED <<given, keys, status>> /\ status = "open" /\ ~SaidDone /\ user # "open"
        /\ user' \in {"idle", "go"} => BaseDone
        /\ user' \in {"idle", "go", "next", "take"}
    BY <1>4 DEF RInv, Reported, OpenNext, TakeKey, SaidDone
  <2>2. CASE SaidDone'
    <3>1. BaseDone
      BY <2>1, <2>2 DEF SaidDone
    <3> QED
      BY <2>1, <2>2, <3>1, BaseTells, ShowDoneStep
  <2>3. CASE ~SaidDone'
    BY <2>1, <2>3, StutterStep
  <2> QED
    BY <2>2, <2>3
<1>5. CASE Close \/ CloseBase
  <2>1. /\ UNCHANGED <<given, base, keys, key, threw>> /\ status = "open"
        /\ user \in {"idle", "closing"} /\ user' \in {"close", "release", "closed"}
        /\ status' \in {"open", "ok", "failed", "destructor threw"}
    BY <1>5 DEF RInv, Reported, Close, CloseBase, Reports
  <2>2. (SaidDone' <=> SaidDone) /\ (SaidDone => BaseDone)
    BY <2>1 DEF RInv, Reported, SaidDone, Done, BaseDone, given
  <2>3. CASE status' = status
    BY <2>1, <2>2, <2>3, StutterStep
  <2>4. CASE status' # status
    <3>1. \/ Reports(CloseFails, "failed") \/ Reports(CloseFails, "destructor threw")
          \/ (~opts.bg /\ Reports(DestructorThrows, "destructor threw"))
      BY <1>5, <2>4 DEF Close, CloseBase
    <3> QED
      BY <2>1, <2>2, <3>1, FinishStep
  <2> QED
    BY <2>3, <2>4
<1>6. CASE Value \/ FreeCurrent
  <2>1. UNCHANGED <<given, keys, status, key, threw, user>>
    BY <1>6 DEF Value, FreeCurrent
  <2>2. ~opts.bg => ~BaseDone /\ ~BaseDone'
    BY <1>6, BaseValueStays DEF IInv, Value, FreeCurrent, Done, BaseDone, Emptied, At, HasValue
  <2>3. SaidDone' <=> SaidDone
    BY <2>1, <2>2 DEF SaidDone, Done, given
  <2> QED
    BY <2>1, <2>3, StutterStep
<1>7. CASE CreateThread
  <2>1. UNCHANGED <<given, keys, status>> /\ ~SaidDone /\ ~SaidDone'
    BY <1>7 DEF CreateThread, SaidDone
  <2> QED
    BY <2>1, StutterStep
<1>8. CASE LetReadOn \/ CloseWait \/ CloseRelease \/ Join
  <2>1. /\ UNCHANGED <<given, keys, status, key, base, threw>>
        /\ user \in {"go", "close", "release", "join"} /\ user' \in {"idle", "closing", "join", "closed"}
    BY <1>8 DEF LetReadOn, CloseWait, CloseRelease, Join
  <2>2. SaidDone' <=> SaidDone
    BY <2>1 DEF SaidDone, Done, BaseDone, given
  <2> QED
    BY <2>1, <2>2, StutterStep
<1>9. CASE RunInBackground
  <2>1. opts.bg
    BY <1>9 DEF IInv, Threads, RunInBackground, LoopTest, SignalConsumer, WaitProducer, ReadAhead
  <2>2. UNCHANGED <<given, keys, status, key, threw, user>>
    BY <1>9 DEF RunInBackground, LoopTest, SignalConsumer, WaitProducer, ReadAhead
  <2>3. SaidDone' <=> SaidDone
    BY <2>1, <2>2 DEF SaidDone, Done, given
  <2> QED
    BY <2>2, <2>3, StutterStep
<1>10. CASE UNCHANGED vars
  <2>1. UNCHANGED <<given, keys, status>> /\ (SaidDone' <=> SaidDone)
    BY <1>10 DEF vars, SaidDone, Done, BaseDone, given
  <2> QED
    BY <2>1, StutterStep
<1> QED
  BY <1>1, <1>2, <1>3, <1>4, <1>5, <1>6, <1>7, <1>8, <1>9, <1>10 DEF Next, UsersCall

\* A script or archive reader, with any options and with or without its
\* background thread, reads any table as module TableReading says: the keys in
\* order, none skipped but the dropped ones, and Close() or the destructor
\* tells a table that broke off from one that was read to its end.
THEOREM ImplementsReading == Spec => IsReading
<1>1. Init => Reading!ReadingInit
  BY DEF Init, Reading!ReadingInit, SaidDone
<1>2. IInv /\ RInv /\ [Next]_vars => (IInv /\ RInv)'
  BY NextKeeps, NextKeepsReading
<1>3. IInv /\ RInv /\ [Next]_vars => [Step]_(Reading!reading)
  BY ReadingStep
<1> QED
  BY InitInv, InitReading, <1>1, <1>2, <1>3, PTL DEF Spec, IsReading, Reading!ReadingSpec, Step
=============================================================================
