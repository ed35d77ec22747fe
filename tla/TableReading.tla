---------------------------- MODULE TableReading ----------------------------
(***************************************************************************)
(* What reading a table from its beginning to its end promises, whatever   *)
(* the table is made of: the keys come in order and none is skipped except *)
(* those that the permissive option drops, and the status that Close()     *)
(* returns tells a table that was read to its end from one that broke off. *)
(* An entry of the table is                                                *)
(*    "shown"   its key can be shown                                       *)
(*    "dropped" its value is unreadable, and the permissive option is on   *)
(*    "broken"  the table cannot be read from here on                      *)
(***************************************************************************)
EXTENDS Naturals, Sequences

VARIABLES table,      \* the sequence of the entries
          permissive,
          keys,       \* the positions whose keys were shown, in order
          done,       \* Done() has returned TRUE
          status      \* "open", or what Close() or the destructor reported

given == <<table, permissive>>
reading == <<given, keys, done, status>>

LastShown == IF keys = <<>> THEN 0 ELSE keys[Len(keys)]

\* The entries up to i, from the last one shown, are dropped.
Next(i) == i \in DOMAIN table /\ i > LastShown
           /\ \A j \in LastShown + 1 .. i - 1 : table[j] = "dropped"
NextIs(kind) == \E i \in DOMAIN table : Next(i) /\ table[i] = kind

ReadingInit == keys = <<>> /\ done = FALSE /\ status = "open"

ShowKey ==
    /\ ~done /\ status = "open"
    /\ \E i \in DOMAIN table : Next(i) /\ table[i] = "shown" /\ keys' = Append(keys, i)
    /\ UNCHANGED <<given, done, status>>

ShowDone ==
    /\ status = "open" /\ ~NextIs("shown")
    /\ done' = TRUE
    /\ UNCHANGED <<given, keys, status>>

\* A reader that was not done may or may not have run into what comes next.
\* The destructor may complain of a broken table where Close() is permissive.
Finish ==
    /\ status = "open"
    /\ status' \in {"ok", "failed", "destructor threw"}
    /\ status' # "ok" => NextIs("broken")
    /\ status' = "failed" => ~permissive
    /\ done /\ NextIs("broken") /\ ~permissive => status' # "ok"
    /\ UNCHANGED <<given, keys, done>>

\* A table whose first entry is broken is not opened.
Refuse ==
    /\ status = "open" /\ keys = <<>> /\ ~done /\ NextIs("broken")
    /\ status' \in {"refused", "Open threw"}
    /\ UNCHANGED <<given, keys, done>>

ReadingSpec == ReadingInit /\ [][Refuse \/ ShowKey \/ ShowDone \/ Finish]_reading
=============================================================================
