----------------------- MODULE RandomAccessTableReader ----------------------
(***************************************************************************)
(* RandomAccessTableReader with its four implementations: a script file    *)
(* that is read at once and sorted, and an archive that is read as far as  *)
(* the keys asked for demand: "dsorted" (options s and cs), "sorted" (s)   *)
(* and "unsorted".  An entry of the table has a key and is readable or     *)
(* not; an archive cannot be read beyond an entry that is not.  The user   *)
(* asks for keys in any order and stops when a call throws.                *)
(***************************************************************************)
EXTENDS Naturals, Sequences, FiniteSetsExt

CONSTANTS Keys,         \* keys are ordered, as their numbers are
          MaxEntries

ASSUME KeysAssumption == Keys \subseteq Nat \ {0} /\ MaxEntries \in Nat

VARIABLES
    table, opts,     \* the table and the options of the rspecifier
    state,           \* state_
    pos,             \* how many entries of the archive were read
    script,          \* script_: the entries of the script file, sorted
    tombs,           \* the entries of script_ whose file name was emptied
    cur, holder,     \* current_key_ as the entry that has it; that in holder_, or 0
    lastFound,       \* last_found_, last_found_index_
    lastRequested,   \* last_requested_key_
    memory,          \* the entries whose objects are in seen_pairs_ or map_
    pending,         \* pending_delete_, to_delete_iter_, or 0
    firstDeleted,    \* first_deleted_string_, or 0
    ans,             \* the last call and its answer
    denied,          \* the keys that the user was told are not there
    given            \* the entries whose values the user got

scriptVars == <<script, tombs, cur, holder>>
archiveVars == <<pos, lastRequested, memory, pending, firstDeleted>>
vars == <<table, opts, state, scriptVars, archiveVars, lastFound, ans, denied, given>>

Entries == [key : Keys, good : BOOLEAN]
Options == [kind : {"script", "dsorted", "sorted", "unsorted"}, once : BOOLEAN, permissive : BOOLEAN]
None == [op |-> "none", key |-> 0, result |-> "yes", entry |-> 0]

Key(i) == table[i].key
HasDuplicate == \E i, j \in DOMAIN table : i # j /\ Key(i) = Key(j)
IsSorted == \A i, j \in DOMAIN table : i < j => Key(i) < Key(j)
Sorted == CHOOSE s \in [DOMAIN table -> DOMAIN table] :
             \A i, j \in DOMAIN table : i < j => Key(s[i]) < Key(s[j])

\* Open().  A script file with two entries of one key is refused, an archive
\* is not read yet.
Init ==
    /\ table \in UNION {[1..n -> Entries] : n \in 0..MaxEntries} /\ opts \in Options
    /\ opts.kind = "script" => ~HasDuplicate
    /\ state = IF opts.kind = "script" THEN "kNotHaveObject" ELSE "kNoObject"
    /\ script = IF opts.kind = "script" THEN Sorted ELSE <<>>
    /\ tombs = {} /\ cur = 0 /\ holder = 0 /\ pos = 0
    /\ lastFound = IF opts.kind = "script" THEN 1 ELSE 0
    /\ lastRequested = 0 /\ memory = {} /\ pending = 0 /\ firstDeleted = 0
    /\ ans = None /\ denied = {} /\ given = {}

Open == state # "kUninitialized" /\ ans.result # "threw"

\* The answer to a call, and what the user remembers of it.
Answer(op, k, result, entry) ==
    /\ ans' = [op |-> op, key |-> k, result |-> result, entry |-> entry]
    /\ denied' = IF result = "no" THEN denied \union {k} ELSE denied
    /\ given' = IF entry # 0 THEN given \union {entry} ELSE given

-----------------------------------------------------------------------------
\* The script file.

\* Slip: state_ is not looked at.
Holds_AnyState(k) == cur # 0 /\ Key(cur) = k
Holds(k) == state \in {"kHaveObject", "kGaveObject"} /\ Key(cur) = k
Here(place, k) == place \in DOMAIN script /\ Key(script[place]) = k

\* LookupKey(): the new last_found_, where the key is if it is in script_.
\* Beyond the end last_found_ is not counted further.
LookupKey(found, k) ==
    CASE Here(found, k) -> found
      [] ~Here(found, k) /\ Here(found + 1, k) -> found + 1
      [] OTHER -> IF \E i \in DOMAIN script : Here(i, k)
                  THEN CHOOSE i \in DOMAIN script : Here(i, k)
                  ELSE Min({found, Len(script)}) + 1

\* Slip: permissive or not, the file is not opened before Value().
Preload_Never == FALSE

\* HasKey() reads the object ahead if the option permissive is given.
Preload == opts.permissive

\* HasKeyInternal(): what it returns and leaves.  A file that is not readable
\* cannot be opened, or its object cannot be read, which empties holder_.
Found(k, preload) ==
    LET place == LookupKey(lastFound, k)
        entry == script[place]
        Same(result) == [result |-> result, state |-> state, cur |-> cur, holder |-> holder,
                         lastFound |-> place]
    IN IF Holds(k) THEN {[Same("yes") EXCEPT !.lastFound = lastFound]}
       ELSE IF ~Here(place, k) THEN {Same("no")}
       ELSE IF opts.once /\ entry \in tombs THEN {Same("threw")}
       ELSE IF ~preload THEN {Same("yes")}
       ELSE IF table[entry].good
            THEN {[result |-> "yes", state |-> "kHaveObject", cur |-> entry, holder |-> entry,
                   lastFound |-> place]}
       ELSE {Same("no"), [Same("no") EXCEPT !.state = "kNotHaveObject", !.holder = 0]}

ScriptHasKey(k) ==
    /\ Open /\ opts.kind = "script"
    /\ \E f \in Found(k, Preload) :
          /\ state' = f.state /\ cur' = f.cur /\ holder' = f.holder /\ lastFound' = f.lastFound
          /\ Answer("HasKey", k, f.result, 0)
    /\ UNCHANGED <<table, opts, script, tombs, archiveVars>>

\* With the option once the entry becomes a tombstone, which looks the key
\* up again.
ScriptValue(k) ==
    /\ Open /\ opts.kind = "script"
    /\ \E f \in Found(k, TRUE) :
          /\ cur' = f.cur /\ holder' = f.holder
          /\ IF f.result = "yes" /\ ~(f.state = "kGaveObject" /\ opts.once)
             THEN /\ state' = "kGaveObject"
                  /\ tombs' = IF opts.once THEN tombs \union {f.cur} ELSE tombs
                  /\ lastFound' = IF opts.once THEN LookupKey(f.lastFound, k) ELSE f.lastFound
                  /\ Answer("Value", k, "value", f.holder)
             ELSE /\ state' = f.state /\ lastFound' = f.lastFound
                  /\ Answer("Value", k, "threw", 0)
                  /\ UNCHANGED tombs
    /\ UNCHANGED <<table, opts, script, archiveVars>>

-----------------------------------------------------------------------------
\* The archives.

\* HandlePendingDelete()
Kept == memory \ {pending}
FirstDeleted == IF pending # 0 /\ firstDeleted = 0 THEN Key(pending) ELSE firstDeleted

MustRead(k) ==
    CASE opts.kind = "unsorted" -> state = "kNoObject" /\ \A i \in Kept : Key(i) # k
      [] opts.kind = "sorted" -> state = "kNoObject" /\ (pos = 0 \/ k > Key(pos))
      [] OTHER -> state = "kNoObject" \/ (state = "kHaveObject" /\ k > Key(pos))

\* The entry breaks what the rspecifier says of the archive.
Unexpected(i) ==
    IF opts.kind = "unsorted"
    THEN \E j \in Kept \union pos + 1 .. i - 1 : Key(j) = Key(i)
    ELSE i > 1 /\ Key(i) <= Key(i - 1)

\* The entry that ReadNextObject() is called for last, when the user asks for k.
Stop(k) ==
    Min({i \in pos + 1 .. Len(table) : \/ ~table[i].good \/ Unexpected(i)
                                       \/ IF opts.kind = "unsorted" THEN Key(i) = k ELSE Key(i) >= k}
        \union {Len(table) + 1})

\* FindKeyInternal(): what it leaves, and the entry that it found, or 0.
Find(k) ==
    LET last == IF MustRead(k) THEN Stop(k) ELSE pos
        ended == last > Len(table)
        bad == MustRead(k) /\ ~ended /\ ~table[last].good
        threw == MustRead(k) /\ ~ended /\ ~bad /\ Unexpected(last)
        read == IF ended \/ bad \/ threw THEN last - 1 ELSE last
        stored == IF opts.kind = "dsorted" THEN {} ELSE Kept \union pos + 1 .. read
        seen == CASE opts.kind = "unsorted" -> stored
                  [] opts.kind = "sorted" -> 1..read
                  [] OTHER -> IF state \in {"kEof", "kError"} \/ ended \/ bad THEN {} ELSE {last} \ {0}
    IN [pos |-> read, memory |-> stored, threw |-> threw,
        state |-> IF ended THEN "kEof" ELSE IF bad THEN "kError"
                  ELSE IF MustRead(k) /\ opts.kind = "dsorted" THEN "kHaveObject" ELSE state,
        hit |-> IF opts.kind = "sorted" /\ lastFound # 0 /\ Key(lastFound) = k THEN lastFound
                ELSE Max({i \in seen : Key(i) = k} \union {0})]

\* The user breaks what the rspecifier says of his calls.
CalledWrongly(k, f) ==
    CASE opts.kind = "dsorted" -> lastRequested > k
      [] opts.kind = "sorted" -> f.hit # 0 /\ f.hit \notin f.memory
      [] OTHER -> f.hit = 0 /\ opts.once /\ k = FirstDeleted

\* Slip: it is not marked.
Pending_Never(f) == 0

\* With the option once the object that Value() returned is to be deleted.
Pending(f) == IF opts.once /\ opts.kind # "dsorted" THEN f.hit ELSE 0

ArchiveCall(op, k) ==
    /\ Open /\ opts.kind # "script"
    /\ LET f == Find(k)
           threw == f.threw \/ CalledWrongly(k, f) \/ (op = "Value" /\ f.hit = 0)
       IN /\ pos' = f.pos /\ memory' = f.memory /\ state' = f.state
          /\ lastFound' = IF f.hit = 0 THEN lastFound ELSE f.hit
          /\ firstDeleted' = FirstDeleted /\ lastRequested' = k
          /\ pending' = IF op = "Value" /\ ~threw THEN Pending(f) ELSE 0
          /\ IF threw THEN Answer(op, k, "threw", 0)
             ELSE IF op = "HasKey" THEN Answer(op, k, IF f.hit # 0 THEN "yes" ELSE "no", 0)
             ELSE Answer(op, k, "value", f.hit)
    /\ UNCHANGED <<table, opts, scriptVars>>

\* Slip: whatever state the archive was left in.
CloseFails_Never == FALSE
CloseFails == opts.kind # "script" /\ state = "kError" /\ ~opts.permissive

\* Close() and the destructor, also behind an exception.
Close ==
    /\ state # "kUninitialized"
    /\ state' = "kUninitialized"
    /\ script' = <<>> /\ tombs' = {} /\ cur' = 0 /\ holder' = 0
    /\ memory' = {} /\ pending' = 0 /\ firstDeleted' = 0 /\ lastFound' = 0
    /\ ans' = [None EXCEPT !.op = "Close", !.result = IF CloseFails THEN "no" ELSE "yes"]
    /\ UNCHANGED <<table, opts, pos, lastRequested, denied, given>>

HasKey(k) == ScriptHasKey(k) \/ ArchiveCall("HasKey", k)
Value(k) == ScriptValue(k) \/ ArchiveCall("Value", k)

Next == (\E k \in Keys : HasKey(k) \/ Value(k)) \/ Close
Spec == Init /\ [][Next]_vars

-----------------------------------------------------------------------------
\* What the options assert is true of the table.
AsDeclared == IF opts.kind \in {"script", "unsorted"} THEN ~HasDuplicate ELSE IsSorted
Readable == {i \in DOMAIN table : IF opts.kind = "script" THEN table[i].good \/ ~opts.permissive
                                   ELSE \A j \in 1..i : table[j].good}

\* A table that is what the rspecifier says of it does not lose a key: the
\* user is told that a key is not there only if it is not in the part that
\* can be read, or if he had its value already and had promised to ask once;
\* and when the archive broke off before it, Close() fails.
NoKeyLost ==
    AsDeclared =>
       /\ \A i \in Readable : Key(i) \in denied => opts.once /\ i \in given
       /\ ans.op = "Close" /\ ans.result = "yes" /\ ~opts.permissive =>
             \A i \in DOMAIN table : Key(i) \in denied => opts.once /\ i \in given

\* The value is that of the key, and its object is still there until the
\* next call.
ValueIsOfKey ==
    ans.op = "Value" /\ ans.result = "value" =>
       /\ ans.entry \in Readable /\ Key(ans.entry) = ans.key
       /\ CASE opts.kind = "script" -> holder = ans.entry
            [] opts.kind = "dsorted" -> state = "kHaveObject" /\ pos = ans.entry
            [] OTHER -> ans.entry \in memory

\* Where HasKey() says yes, Value() of that key does not throw, except on an
\* unreadable file that the reader was not told to be permissive about, and
\* on a key asked for again against the promise to ask once.
YesMeansValue ==
    [][ /\ ans.op = "HasKey" /\ ans.result = "yes" /\ ans'.op = "Value" /\ ans'.key = ans.key
        /\ ~\E i \in given : Key(i) = ans.key /\ opts.once
        /\ opts.kind = "script" /\ ~opts.permissive => \A i \in DOMAIN table : table[i].good
        => ans'.result = "value" ]_vars

\* The option once: no entry is given out twice.
OnceMeansOnce ==
    [][ opts.once /\ opts.kind # "dsorted" /\ ans'.op = "Value" /\ ans'.result = "value"
        => ans'.entry \notin given ]_vars
=============================================================================
