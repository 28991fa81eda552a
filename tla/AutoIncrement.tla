--------------------------- MODULE AutoIncrement ---------------------------
(***************************************************************************)
(* AUTO_INCREMENT of a storage mode table (ha_mroonga.cpp).                *)
(*                                                                         *)
(* The counter is not stored: it lives in the table's MRN_LONG_TERM_SHARE, *)
(* which the handlers of all sessions share, and is initialised lazily     *)
(* from the greatest stored value.  CREATE TABLE leaves a long term share  *)
(* behind; the last close() frees it, and the counter with it.  INSERT     *)
(* asks for values under auto_inc_mutex, writes its rows under another     *)
(* mutex, and raises the counter after each row, with one read of          *)
(* auto_inc_inited outside of any lock.                                    *)
(*                                                                         *)
(* The column is the PRIMARY KEY and an unsigned 64 bit integer, and       *)
(* auto_increment_offset and auto_increment_increment are 1.               *)
(***************************************************************************)
EXTENDS Integers, FiniteSets

CONSTANTS
    Handlers,   \* ha_mroonga objects, one per session using the table
    Nil,        \* no holder of the mutex
    MaxValue,   \* the greatest ulonglong
    Limit,      \* bound: an INSERT begins, and asks for values, only while the
                \* counter, the rows and the values used are <= Limit
    MaxRows,    \* bound: rows of one INSERT
    Explicit,   \* the values that an INSERT may give itself
    Created     \* AUTO_INCREMENT options of CREATE TABLE, 0 for none

ASSUME AutoIncrementAssumption ==
    /\ Nil \notin Handlers
    /\ MaxValue \in Nat \ {0} /\ MaxRows \in Nat \ {0} /\ Limit \in 0 .. MaxValue
    /\ Explicit \subseteq 1 .. MaxValue
    /\ Created \subseteq 0 .. MaxValue

VARIABLES
    auto_inc_value,  \* long_term_share->auto_inc_value
    auto_inc_inited, \* long_term_share->auto_inc_inited
    auto_inc_mutex,  \* its holder, or Nil
    rows,            \* the values in the table
    is_open,         \* handlers that have the table open
    pc,              \* where each handler is in its statement
    left,            \* rows its INSERT has yet to write
    desired,         \* the rows it will announce when it asks
    next,            \* the server's next_insert_id, 0 until it has asked
    cur,             \* the value of the current row, or one read from the table
    generated,       \* is cur generated?
    kept,            \* history: values used since somebody has had the table open
    seen,            \* history: kept and rows when the INSERT asked
    reserved         \* history: the end of the values it asked for, or 0

share == <<auto_inc_value, auto_inc_inited>>
stmt  == <<left, desired, next, cur, generated, seen, reserved>>
vars  == <<auto_inc_value, auto_inc_inited, auto_inc_mutex, rows, is_open, pc,
           left, desired, next, cur, generated, kept, seen, reserved>>

ULongLong == 0 .. MaxValue
Wrap(n) == n % (MaxValue + 1)

\* A row that is in the table while its INSERT has not yet raised the counter.
Noting == {"note", "info", "info_set", "bump"}

Labels == {"idle", "row", "ask", "ask_set", "generate", "write", "show", "show_set"} \cup Noting

AutoIncTypeOK ==
    /\ auto_inc_value \in ULongLong /\ auto_inc_inited \in BOOLEAN
    /\ auto_inc_mutex \in Handlers \cup {Nil}
    /\ rows \subseteq ULongLong \ {0} /\ is_open \subseteq Handlers
    /\ pc \in [Handlers -> Labels]
    /\ left \in [Handlers -> 0 .. MaxRows] /\ desired \in [Handlers -> 0 .. MaxRows]
    /\ next \in [Handlers -> ULongLong] /\ cur \in [Handlers -> ULongLong]
    /\ generated \in [Handlers -> BOOLEAN]
    /\ kept \subseteq ULongLong
    /\ seen \in [Handlers -> SUBSET ULongLong]
    /\ reserved \in [Handlers -> ULongLong]

\* storage_create sets the counter when the option is there.
AutoIncInit ==
    /\ auto_inc_value \in Created
    /\ auto_inc_inited = (auto_inc_value # 0)
    /\ auto_inc_mutex = Nil
    /\ rows = {} /\ is_open = {}
    /\ pc = [h \in Handlers |-> "idle"]
    /\ left = [h \in Handlers |-> 0]
    /\ desired = [h \in Handlers |-> 0]
    /\ next = [h \in Handlers |-> 0]
    /\ cur = [h \in Handlers |-> 0]
    /\ generated = [h \in Handlers |-> FALSE]
    /\ kept = {}
    /\ seen = [h \in Handlers |-> {}]
    /\ reserved = [h \in Handlers |-> 0]

Goto(h, l) == pc' = [pc EXCEPT ![h] = l]

\* handler::get_auto_increment: one more than the last key of the index.
NextOfTable == IF rows = {} THEN 1
               ELSE Wrap(1 + CHOOSE v \in rows : \A w \in rows : w <= v)

\* The values of the rows whose INSERT has returned.
Settled(set) == set \ {cur[h] : h \in {g \in Handlers : pc[g] \in Noting}}

\* The statement ends; what it keeps for itself is dead from here on.
End(h) ==
    /\ Goto(h, "idle")
    /\ left' = [left EXCEPT ![h] = 0]
    /\ desired' = [desired EXCEPT ![h] = 0]
    /\ next' = [next EXCEPT ![h] = 0]
    /\ cur' = [cur EXCEPT ![h] = 0]
    /\ generated' = [generated EXCEPT ![h] = FALSE]
    /\ seen' = [seen EXCEPT ![h] = {}]
    /\ reserved' = [reserved EXCEPT ![h] = 0]

\* The next row of the statement, or its end.
NextRow(h) ==
    IF left[h] > 1
    THEN /\ left' = [left EXCEPT ![h] = @ - 1]
         /\ cur' = [cur EXCEPT ![h] = 0]
         /\ generated' = [generated EXCEPT ![h] = FALSE]
         /\ Goto(h, "row")
         /\ UNCHANGED <<desired, next, seen, reserved>>
    ELSE End(h)

\* The bound on INSERT: no value is greater, read from the table or used.
Within ==
    /\ auto_inc_value <= Limit /\ \A v \in kept \cup rows : v <= Limit
    /\ \A g \in Handlers : /\ pc[g] = "ask_set" => cur[g] <= Limit
                          /\ pc[g] \in {"info_set", "show_set"} => next[g] <= Limit

Idle(h) == h \in is_open /\ pc[h] = "idle"

-----------------------------------------------------------------------------
(* Faulty variants of actions below                                         *)

\* The lock does not cover the reservation: the counter is not advanced.
AskNoAdvance(h) ==
    /\ pc[h] = "ask" /\ auto_inc_mutex = Nil /\ auto_inc_inited
    /\ next' = [next EXCEPT ![h] = auto_inc_value]
    /\ seen' = [seen EXCEPT ![h] = Settled(kept \cup rows)]
    /\ reserved' = [reserved EXCEPT ![h] = Wrap(auto_inc_value + desired[h])]
    /\ Goto(h, "generate")
    /\ UNCHANGED <<share, auto_inc_mutex, rows, is_open, left, desired, cur, generated, kept>>

\* A value equal to the counter does not raise it.
BumpLess(h) ==
    /\ pc[h] = "bump" /\ auto_inc_mutex = Nil
    /\ auto_inc_value' = IF auto_inc_value < cur[h] THEN Wrap(cur[h] + 1)
                                                    ELSE auto_inc_value
    /\ NextRow(h)
    /\ UNCHANGED <<auto_inc_inited, auto_inc_mutex, rows, is_open, kept>>

\* The counter restarts at -1.
TruncateUnsigned(h) ==
    /\ Idle(h) /\ \A g \in Handlers : pc[g] = "idle"
    /\ rows' = {} /\ kept' = {}
    /\ auto_inc_value' = -1 /\ auto_inc_inited' = FALSE
    /\ UNCHANGED <<auto_inc_mutex, is_open, pc, stmt>>

-----------------------------------------------------------------------------
(* The table is opened and closed                                           *)

Open(h) ==
    /\ h \notin is_open
    /\ is_open' = is_open \cup {h}
    /\ UNCHANGED <<share, auto_inc_mutex, rows, pc, stmt, kept>>

\* mrn_free_share(share, true): the last close frees the long term share; the
\* next one is filled with zeros.
Close(h) ==
    /\ Idle(h)
    /\ is_open' = is_open \ {h}
    /\ IF is_open = {h}
       THEN auto_inc_value' = 0 /\ auto_inc_inited' = FALSE /\ kept' = {}
       ELSE UNCHANGED <<share, kept>>
    /\ UNCHANGED <<auto_inc_mutex, rows, pc, stmt>>

-----------------------------------------------------------------------------
(* INSERT                                                                   *)

\* An INSERT of n rows.  INSERT ... VALUES announces their number to
\* get_auto_increment, INSERT ... SELECT does not (nb_desired_values is 1).
Insert(h, n, announced) ==
    /\ Idle(h) /\ Within
    /\ left' = [left EXCEPT ![h] = n]
    /\ desired' = [desired EXCEPT ![h] = announced]
    /\ Goto(h, "row")
    /\ UNCHANGED <<share, auto_inc_mutex, rows, is_open, next, cur, generated, seen, reserved, kept>>

\* handler::update_auto_increment for a row that has a value: the server goes on
\* behind it once it generates, wherever the values asked for end.
ExplicitRow(h, v) ==
    /\ pc[h] = "row"
    /\ cur' = [cur EXCEPT ![h] = v]
    /\ next' = [next EXCEPT ![h] = IF @ > 0 /\ v >= @
                                    THEN IF v = MaxValue THEN v ELSE v + 1
                                    ELSE @]
    /\ Goto(h, "write")
    /\ UNCHANGED <<share, auto_inc_mutex, rows, is_open, left, desired, generated, seen, reserved, kept>>

\* ... and for one without: the interval is without end (*nb_reserved_values =
\* UINT_MAX64), so get_auto_increment is called for the first such row only.
GeneratedRow(h) ==
    /\ pc[h] = "row"
    /\ next[h] = 0 => Within
    /\ generated' = [generated EXCEPT ![h] = TRUE]
    /\ Goto(h, IF next[h] = 0 THEN "ask" ELSE "generate")
    /\ UNCHANGED <<share, auto_inc_mutex, rows, is_open, left, desired, next, cur, seen, reserved, kept>>

\* get_auto_increment with an initialised counter.
Ask(h) ==
    /\ pc[h] = "ask" /\ auto_inc_mutex = Nil /\ auto_inc_inited
    /\ next' = [next EXCEPT ![h] = auto_inc_value]
    /\ auto_inc_value' = Wrap(auto_inc_value + desired[h])
    /\ seen' = [seen EXCEPT ![h] = Settled(kept \cup rows)]
    /\ reserved' = [reserved EXCEPT ![h] = Wrap(auto_inc_value + desired[h])]
    /\ desired' = [desired EXCEPT ![h] = 0]
    /\ Goto(h, "generate")
    /\ UNCHANGED <<auto_inc_inited, auto_inc_mutex, rows, is_open, left, cur, generated, kept>>

\* get_auto_increment without: the table is read with the mutex held, while
\* other sessions go on writing rows.
AskRead(h) ==
    /\ pc[h] = "ask" /\ auto_inc_mutex = Nil /\ ~auto_inc_inited
    /\ auto_inc_mutex' = h
    /\ cur' = [cur EXCEPT ![h] = NextOfTable]
    /\ seen' = [seen EXCEPT ![h] = Settled(kept \cup rows)]
    /\ Goto(h, "ask_set")
    /\ UNCHANGED <<share, rows, is_open, left, desired, next, generated, reserved, kept>>

AskSet(h) ==
    /\ pc[h] = "ask_set"
    /\ auto_inc_value' = Wrap(cur[h] + desired[h])
    /\ auto_inc_inited' = TRUE
    /\ auto_inc_mutex' = Nil
    /\ next' = [next EXCEPT ![h] = cur[h]]
    /\ reserved' = [reserved EXCEPT ![h] = Wrap(cur[h] + desired[h])]
    /\ desired' = [desired EXCEPT ![h] = 0]
    /\ cur' = [cur EXCEPT ![h] = 0]
    /\ Goto(h, "generate")
    /\ UNCHANGED <<rows, is_open, left, generated, seen, kept>>

\* The next value of the interval.  Neither 0 nor the greatest value is ever
\* generated: the statement fails.  (For the greatest the server asks once more
\* before it does; that is left out.)
Generate(h) ==
    /\ pc[h] = "generate"
    /\ IF next[h] \in {0, MaxValue}
       THEN End(h)
       ELSE /\ cur' = [cur EXCEPT ![h] = next[h]]
            /\ next' = [next EXCEPT ![h] = Wrap(@ + 1)]
            /\ Goto(h, "write")
            /\ UNCHANGED <<left, desired, generated, seen, reserved>>
    /\ UNCHANGED <<share, auto_inc_mutex, rows, is_open, kept>>

\* The row is written, under record_mutex, unless its key is there already.
WriteRow(h) ==
    /\ pc[h] = "write" /\ cur[h] \notin rows
    /\ rows' = rows \cup {cur[h]}
    /\ kept' = kept \cup {cur[h]}
    /\ Goto(h, "note")
    /\ UNCHANGED <<share, auto_inc_mutex, is_open, stmt>>

\* A duplicate key, or another failure: what was asked for is lost.
WriteFail(h) ==
    /\ pc[h] = "write"
    /\ End(h)
    /\ UNCHANGED <<share, auto_inc_mutex, rows, is_open, kept>>

\* The counter is read without the mutex to decide whether it must be
\* initialised first.
Note(h) ==
    /\ pc[h] = "note"
    /\ Goto(h, IF auto_inc_inited THEN "bump" ELSE "info")
    /\ UNCHANGED <<share, auto_inc_mutex, rows, is_open, stmt, kept>>

\* auto_inc_value = nr + 1 wraps for the greatest nr.
Bump(h) ==
    /\ pc[h] = "bump" /\ auto_inc_mutex = Nil
    /\ auto_inc_value' = IF auto_inc_value <= cur[h] THEN Wrap(cur[h] + 1)
                                                     ELSE auto_inc_value
    /\ NextRow(h)
    /\ UNCHANGED <<auto_inc_inited, auto_inc_mutex, rows, is_open, kept>>

-----------------------------------------------------------------------------
(* storage_info(HA_STATUS_AUTO), called by INSERT and by SHOW TABLE STATUS  *)

ShowStatus(h) ==
    /\ Idle(h)
    /\ Goto(h, "show")
    /\ UNCHANGED <<share, auto_inc_mutex, rows, is_open, stmt, kept>>

AfterInfo(h) == IF pc[h] \in {"show", "show_set"} THEN "idle" ELSE "bump"

InfoInited(h) ==
    /\ pc[h] \in {"info", "show"} /\ auto_inc_mutex = Nil /\ auto_inc_inited
    /\ Goto(h, AfterInfo(h))
    /\ UNCHANGED <<share, auto_inc_mutex, rows, is_open, stmt, kept>>

InfoRead(h) ==
    /\ pc[h] \in {"info", "show"} /\ auto_inc_mutex = Nil /\ ~auto_inc_inited
    /\ auto_inc_mutex' = h
    /\ next' = [next EXCEPT ![h] = NextOfTable]
    /\ Goto(h, IF pc[h] = "show" THEN "show_set" ELSE "info_set")
    /\ UNCHANGED <<share, rows, is_open, left, desired, cur, generated, seen, reserved, kept>>

InfoSet(h) ==
    /\ pc[h] \in {"info_set", "show_set"}
    /\ auto_inc_value' = next[h] /\ auto_inc_inited' = TRUE
    /\ auto_inc_mutex' = Nil
    /\ next' = [next EXCEPT ![h] = 0]
    /\ Goto(h, AfterInfo(h))
    /\ UNCHANGED <<rows, is_open, left, desired, cur, generated, seen, reserved, kept>>

-----------------------------------------------------------------------------
(* DELETE and TRUNCATE                                                      *)

DeleteRow(h, v) ==
    /\ Idle(h)
    /\ rows' = rows \ {v}
    /\ UNCHANGED <<share, auto_inc_mutex, is_open, pc, stmt, kept>>

\* storage_truncate, under the server's exclusive metadata lock.
Truncate(h) ==
    /\ Idle(h) /\ \A g \in Handlers : pc[g] = "idle"
    /\ rows' = {} /\ kept' = {}
    /\ auto_inc_value' = 0 /\ auto_inc_inited' = FALSE
    /\ UNCHANGED <<auto_inc_mutex, is_open, pc, stmt>>

-----------------------------------------------------------------------------

AutoIncStep(h) ==
    \/ Open(h) \/ Close(h)
    \/ \E n \in 1 .. MaxRows : \E announced \in {1, n} : Insert(h, n, announced)
    \/ (\E v \in Explicit : ExplicitRow(h, v)) \/ GeneratedRow(h)
    \/ Ask(h) \/ AskRead(h) \/ AskSet(h) \/ Generate(h)
    \/ WriteRow(h) \/ WriteFail(h) \/ Note(h) \/ Bump(h)
    \/ ShowStatus(h) \/ InfoInited(h) \/ InfoRead(h) \/ InfoSet(h)
    \/ \E v \in rows : DeleteRow(h, v)
    \/ Truncate(h)

AutoIncNext == \E h \in Handlers : AutoIncStep(h)

AutoIncSpec == AutoIncInit /\ [][AutoIncNext]_vars

-----------------------------------------------------------------------------
(* Properties                                                               *)

\* The counter is ahead of every row whose INSERT has returned, whatever
\* session wrote it and whether the value was generated or not: initialising
\* the counter from the table, which does not stop the writers, and raising
\* it after each row do not lose one another's updates.
CounterAhead ==
    auto_inc_inited => \A v \in Settled(rows) : v < auto_inc_value

\* The value h generates is one of those it has asked for.  It is not when its
\* INSERT writes more rows than it announced, or gives a row a value behind them
\* and generates the next: INSERT ... VALUES (NULL), (5), (NULL).
Announced(h) == cur[h] < reserved[h]

\* A generated value is new: it is not the value of a row whose INSERT had
\* returned when this INSERT asked for values, not even of a row that was
\* deleted before, as long as somebody has had the table open since; and two
\* INSERTs never generate the same one out of what they asked for.  Behind that
\* they can, and the PRIMARY KEY refuses the second row.
GeneratedIsNew ==
    \A h \in Handlers :
        generated[h] /\ pc[h] = "write"
        => /\ cur[h] \notin seen[h]
           /\ \A g \in Handlers \ {h} :
                /\ generated[g] /\ pc[g] \in {"write"} \cup Noting
                /\ Announced(h) /\ Announced(g)
                => cur[g] # cur[h]

=============================================================================
