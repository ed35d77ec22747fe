------------------------ MODULE SequentialTableReader -----------------------
(***************************************************************************)
(* SequentialTableReader: the reader of a script file or of an archive,    *)
(* and with the option "bg" the background thread that reads the next      *)
(* entry while the user works on the current one.  The two semaphores are  *)
(* counts of permits (module Semaphore).                                   *)
(*                                                                         *)
(* An entry of the table is "good", or its value is bad ("badValue"), or   *)
(* its line of the script file or its header in the archive is             *)
(* ("badLine").  user is where the user's thread is:                       *)
(*    "open", "create", "opened"   in Open(): of the base reader, before   *)
(*                       pthread_create(), and behind it                   *)
(*    "idle"             between two calls                                 *)
(*    "next", "take", "go"  in Next() of the background reader: before     *)
(*                       consumer_sem_.Wait(), between Key() and           *)
(*                       SwapHolder(), and before producer_sem_.Signal()   *)
(*    "close", "closing", "release", "join"   in its Close()               *)
(*    "closed"           the reader is gone                                *)
(* and thread is where the background thread is:                           *)
(*    "none", "check", "signal", "wait", "read", "last", "bye", "ended"    *)
(***************************************************************************)
EXTENDS Naturals, Sequences, FiniteSetsExt

CONSTANT MaxEntries     \* the longest table

ASSUME ReaderAssumption == MaxEntries \in Nat

VARIABLES
    table, opts,   \* the table, and what the rspecifier says of it
    base,          \* the script or archive reader: state_, place, holder_
    base_reader,   \* base_reader_ # NULL
    consumer_sem, producer_sem,
    user, thread,
    key, holder,   \* key_ and holder_ of the background reader, 0 when empty
    keys,          \* the keys that Key() showed, in order
    threw,         \* Next() threw, or Open() found no thread
    status         \* "open", or what the end of the reading reported

sems == <<consumer_sem, producer_sem>>
given == <<table, opts>>
vars == <<given, base, base_reader, sems, user, thread, key, holder, keys, threw, status>>

Entry == {"good", "badValue", "badLine"}
Tables == UNION {[1..n -> Entry] : n \in 0..MaxEntries}
Options == [kind : {"script", "archive"}, permissive : BOOLEAN, bg : BOOLEAN]

-----------------------------------------------------------------------------
\* The script and the archive readers.

At(state, pos, object) == [state |-> state, pos |-> pos, holder |-> object]

\* LoadCurrent(): reads the value that the line of the script file names.
LoadCurrent(pos) == IF table[pos] = "good" THEN At("kLoadSucceeded", pos, pos)
                                           ELSE At("kLoadFailed", pos, 0)

\* Next() of the script reader, when pos is the next line: with the option
\* permissive it goes on to the first value that it can read.
StopsAt(i) == i > Len(table) \/ table[i] # "badValue" \/ ~opts.permissive
ScriptNext(pos) ==
    LET i == Min({i \in pos .. Len(table) + 1 : StopsAt(i)})
    IN  IF i > Len(table) THEN At("kEof", i, 0)
        ELSE IF table[i] = "badLine" THEN At("kError", i, 0)
        ELSE IF opts.permissive THEN LoadCurrent(i) ELSE At("kHaveScpLine", i, 0)

ArchiveNext(pos) ==
    IF pos > Len(table) THEN At("kEof", pos, 0)
    ELSE IF table[pos] = "good" THEN At("kHaveObject", pos, pos)
    ELSE At("kError", pos, 0)

BaseNext == IF opts.kind = "script" THEN ScriptNext(base.pos + 1) ELSE ArchiveNext(base.pos + 1)
BaseDone == base.state \in {"kEof", "kError"}

\* Behind Value(): the value is there, or the exception was thrown.
BaseValue == IF base.state = "kHaveScpLine" THEN LoadCurrent(base.pos) ELSE base
HasValue(b) == b.state \in {"kLoadSucceeded", "kHaveObject"}
Emptied(b, object) ==
    At(IF opts.kind = "script" THEN "kLoadFailed" ELSE "kFreedObject", b.pos, object)

\* Slip: Close() sets state_ before it tests it.
CloseFails_Reset == FALSE

\* Close() forgives the permissive reader; the destructor of the script
\* reader does not.
CloseFails == base.state = "kError" /\ ~opts.permissive
DestructorThrows == base.state = "kError" /\ (opts.kind = "script" \/ ~opts.permissive)
Reports(failed, how) == status' = IF failed THEN how ELSE "ok"

-----------------------------------------------------------------------------
\* The user's side.

Done == IF opts.bg THEN key = 0 ELSE BaseDone
Shown(b) == keys' = IF b.state \in {"kEof", "kError"} THEN keys ELSE Append(keys, b.pos)

Init ==
    /\ table \in Tables /\ opts \in Options
    /\ base = At("kFileStart", 0, 0)
    /\ base_reader = FALSE /\ consumer_sem = 0 /\ producer_sem = 0
    /\ user = "open" /\ thread = "none" /\ key = 0 /\ holder = 0
    /\ keys = <<>> /\ threw = FALSE /\ status = "open"

\* Open() of the base reader reads the first entry.  In the state kError it
\* returns FALSE and is deleted; a script reader's destructor then throws.
Open ==
    /\ user = "open"
    /\ base' = BaseNext
    /\ IF base'.state = "kError"
       THEN /\ user' = "closed"
            /\ status' = IF opts.kind = "script" THEN "Open threw" ELSE "refused"
            /\ UNCHANGED <<keys, base_reader>>
       ELSE /\ user' = IF opts.bg THEN "create" ELSE "idle"
            /\ base_reader' = opts.bg
            /\ IF opts.bg THEN UNCHANGED keys ELSE Shown(base')
            /\ UNCHANGED status
    /\ UNCHANGED <<given, sems, thread, key, holder, threw>>

\* Open() of the background reader.  Without a thread it returns FALSE, and
\* the wrapper keeps its impl_.
CreateThread ==
    /\ user = "create"
    /\ \/ thread' = "check" /\ user' = "opened" /\ UNCHANGED threw
       \/ threw' = TRUE /\ user' = "idle" /\ UNCHANGED thread
    /\ UNCHANGED <<given, base, base_reader, sems, key, holder, keys, status>>

OpenNext ==
    /\ user = "opened"
    /\ user' = IF BaseDone THEN "idle" ELSE "next"
    /\ UNCHANGED <<given, base, base_reader, sems, thread, key, holder, keys, threw, status>>

\* Value() of a script reader reads the value when it is first asked for.
Value ==
    /\ user = "idle" /\ ~opts.bg /\ base.state = "kHaveScpLine"
    /\ base' = BaseValue
    /\ UNCHANGED <<given, base_reader, sems, user, thread, key, holder, keys, threw, status>>

FreeCurrent ==
    /\ user = "idle" /\ ~threw /\ ~Done
    /\ \/ /\ opts.bg /\ holder' = 0 /\ UNCHANGED base
       \/ /\ ~opts.bg /\ HasValue(base) /\ base' = Emptied(base, 0) /\ UNCHANGED holder
    /\ UNCHANGED <<given, base_reader, sems, user, thread, key, keys, threw, status>>

\* Next(), which the user calls when Done() returned FALSE.
AskNext ==
    /\ user = "idle" /\ ~threw
    /\ \/ /\ opts.bg /\ ~Done /\ user' = "next" /\ UNCHANGED <<base, keys>>
       \/ /\ ~opts.bg /\ ~Done /\ base' = BaseNext /\ Shown(base') /\ UNCHANGED user
    /\ UNCHANGED <<given, base_reader, sems, thread, key, holder, threw, status>>

\* Next() of the background reader, behind consumer_sem_.Wait().
\* Slip: it does not wait.
TakeKey_NoWait ==
    /\ user = "next"
    /\ consumer_sem' = IF consumer_sem > 0 THEN consumer_sem - 1 ELSE 0
    /\ IF BaseDone THEN key' = 0 /\ user' = "go" ELSE key' = base.pos /\ user' = "take"
    /\ UNCHANGED <<given, base, base_reader, producer_sem, thread, holder, keys, threw, status>>

\* Slip: it lets the background thread read on before SwapHolder().
TakeKey_SignalsEarly ==
    /\ user = "next" /\ consumer_sem > 0
    /\ consumer_sem' = consumer_sem - 1 /\ producer_sem' = producer_sem + 1
    /\ IF BaseDone THEN key' = 0 /\ user' = "go" ELSE key' = base.pos /\ user' = "take"
    /\ UNCHANGED <<given, base, base_reader, thread, holder, keys, threw, status>>

TakeKey ==
    /\ user = "next" /\ consumer_sem > 0
    /\ consumer_sem' = consumer_sem - 1
    /\ IF BaseDone THEN key' = 0 /\ user' = "go" ELSE key' = base.pos /\ user' = "take"
    /\ UNCHANGED <<given, base, base_reader, producer_sem, thread, holder, keys, threw, status>>

\* SwapHolder() calls Value() of the base reader, which may throw.
TakeValue ==
    /\ user = "take"
    /\ IF HasValue(BaseValue)
       THEN /\ holder' = BaseValue.holder /\ base' = Emptied(BaseValue, holder)
            /\ keys' = Append(keys, key)
            /\ user' = "go" /\ UNCHANGED threw
       ELSE /\ base' = BaseValue
            /\ threw' = TRUE /\ user' = "idle" /\ UNCHANGED <<holder, keys>>
    /\ UNCHANGED <<given, base_reader, sems, thread, key, status>>

LetReadOn ==
    /\ user = "go"
    /\ producer_sem' = producer_sem + 1 /\ user' = "idle"
    /\ UNCHANGED <<given, base, base_reader, consumer_sem, thread, key, holder, keys, threw, status>>

\* Close() or the destructor.  Where there is no thread, Close() tests
\* thread_, which was not initialized, with an assertion.
Close ==
    /\ user = "idle"
    /\ \/ /\ ~opts.bg /\ user' = "closed"
          /\ Reports(CloseFails, "failed") \/ Reports(DestructorThrows, "destructor threw")
       \/ opts.bg /\ user' = "close" /\ UNCHANGED status
       \/ /\ opts.bg /\ thread = "none"
          /\ user' = "closed" /\ UNCHANGED status
    /\ UNCHANGED <<given, base, base_reader, sems, thread, key, holder, keys, threw>>

CloseWait ==
    /\ user = "close" /\ consumer_sem > 0
    /\ consumer_sem' = consumer_sem - 1 /\ user' = "closing"
    /\ UNCHANGED <<given, base, base_reader, producer_sem, thread, key, holder, keys, threw, status>>

\* base_reader_ is closed, deleted and set to NULL.
CloseBase ==
    /\ user = "closing"
    /\ base_reader' = FALSE /\ user' = "release"
    /\ \E how \in {"failed", "destructor threw"} : Reports(CloseFails, how)
    /\ UNCHANGED <<given, base, sems, thread, key, holder, keys, threw>>

CloseRelease ==
    /\ user = "release"
    /\ producer_sem' = producer_sem + 1 /\ user' = "join"
    /\ UNCHANGED <<given, base, base_reader, consumer_sem, thread, key, holder, keys, threw, status>>

Join ==
    /\ user = "join" /\ thread = "ended"
    /\ user' = "closed"
    /\ UNCHANGED <<given, base, base_reader, sems, thread, key, holder, keys, threw, status>>

-----------------------------------------------------------------------------
\* RunInBackground()

LoopTest ==
    /\ thread = "check"
    /\ thread' = IF base_reader /\ ~BaseDone THEN "signal" ELSE "last"
    /\ UNCHANGED <<given, base, base_reader, sems, user, key, holder, keys, threw, status>>

\* consumer_sem_.Signal(): in the loop once, behind it twice.
\* Slip: behind it once.
SignalConsumer_Once ==
    /\ thread \in {"signal", "last", "bye"}
    /\ consumer_sem' = consumer_sem + 1
    /\ thread' = IF thread = "signal" THEN "wait" ELSE "ended"
    /\ UNCHANGED <<given, base, base_reader, producer_sem, user, key, holder, keys, threw, status>>

SignalConsumer ==
    /\ thread \in {"signal", "last", "bye"}
    /\ consumer_sem' = consumer_sem + 1
    /\ thread' = CASE thread = "signal" -> "wait" [] thread = "last" -> "bye"
                   [] thread = "bye" -> "ended"
    /\ UNCHANGED <<given, base, base_reader, producer_sem, user, key, holder, keys, threw, status>>

WaitProducer ==
    /\ thread = "wait" /\ producer_sem > 0
    /\ producer_sem' = producer_sem - 1 /\ thread' = "read"
    /\ UNCHANGED <<given, base, base_reader, consumer_sem, user, key, holder, keys, threw, status>>

ReadAhead ==
    /\ thread = "read"
    /\ base' = IF base_reader THEN BaseNext ELSE base
    /\ thread' = "check"
    /\ UNCHANGED <<given, base_reader, sems, user, key, holder, keys, threw, status>>

UsersCall == Open \/ CreateThread \/ OpenNext \/ TakeKey \/ TakeValue \/ LetReadOn
             \/ CloseWait \/ CloseBase \/ CloseRelease \/ Join
RunInBackground == LoopTest \/ SignalConsumer \/ WaitProducer \/ ReadAhead
Next == UsersCall \/ Value \/ FreeCurrent \/ AskNext \/ Close \/ RunInBackground

\* Both threads are scheduled; what the user calls between two calls is not
\* demanded.
Spec == Init /\ [][Next]_vars /\ WF_vars(UsersCall) /\ WF_vars(RunInBackground)

-----------------------------------------------------------------------------
\* The user's thread and the background thread never have the base reader in
\* their hands at the same time, and the background thread does not find it
\* in a state in which Done() or Next() throw ("there is nothing we called
\* above that could potentially throw due to user data", and no code error
\* either).
BaseReaderHasOneUser ==
    /\ ~(user \in {"take", "closing"} /\ base_reader /\ thread \in {"check", "read"})
    /\ thread = "check" /\ base_reader => base.state # "kFreedObject"
    /\ thread = "read" /\ base_reader => ~BaseDone

\* Value() returns the value of the key that Key() returns, and while there
\* is one it is the last key shown, although the background thread has
\* already read the next entry.
ValueIsOfKey ==
    user = "idle" /\ ~threw /\ ~Done =>
       IF opts.bg THEN key = keys[Len(keys)] /\ holder \in {0, key}
       ELSE base.pos = keys[Len(keys)] /\ base.holder \in {0, base.pos}

\* Every call returns, unless Next() has thrown on a value that the reader
\* of a script file could not read, or there was no thread: nothing waits for
\* a signal that does not come, whether the user reads to the end or closes
\* the reader before.
CallsReturn == user \notin {"idle", "closed"} /\ ~threw ~> user \in {"idle", "closed"} \/ threw

\* What kaldi-table.h says of Next() ("it will not throw; any error will
\* result in Done() returning true, and then the destructor will throw unless
\* you call Close()"): Close() and the destructor return whatever the table.
DestructorReturns == user = "close" /\ thread # "none" ~> user = "closed"

\* The classes of the entries for the promise of module TableReading: a
\* script reader that is not permissive shows the key of an unreadable value.
Class(i) ==
    IF table[i] = "good" THEN "shown"
    ELSE IF table[i] = "badLine" \/ opts.kind = "archive" THEN "broken"
    ELSE IF opts.permissive THEN "dropped" ELSE "shown"

\* Done() has returned TRUE, or would.
SaidDone ==
    /\ Done /\ ~threw /\ status \notin {"refused", "Open threw"}
    /\ user \notin {"open", "create", "opened", "next", "take"}

Reading == INSTANCE TableReading
    WITH table <- [i \in DOMAIN table |-> Class(i)], permissive <- opts.permissive, done <- SaidDone

\* The reader, with or without its background thread, is a reading of the
\* table: keys in order, none skipped, and a status that does not hide that
\* the table broke off.
IsReading == Reading!ReadingSpec
=============================================================================
