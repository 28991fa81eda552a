------------------------------- MODULE Search -------------------------------
(***************************************************************************)
(* The read side of a storage mode table in ha_mroonga.cpp: table scans,   *)
(* index reads, full-text reads, and the three short cuts Mroonga takes    *)
(* behind the back of the server: condition push down (Groonga evaluates   *)
(* WHERE), count skip (the record buffer is not filled for COUNT) and fast *)
(* ORDER BY LIMIT (Groonga sorts and cuts the result).                     *)
(*                                                                         *)
(* One session runs one SELECT after the other on one handler.  The server *)
(* is modelled from the calls it makes: it picks an access path, loops     *)
(* over the read calls and works on the record buffer only - it evaluates  *)
(* WHERE, the end of a range, the sort key and the answer from `buf', and  *)
(* MATCH from the relevance Mroonga reports for the record it is at.       *)
(***************************************************************************)
EXTENDS FieldTypes, KeyCodec, FiniteSets

CONSTANTS
    Tables,         \* the contents a table may have: sets of rows
    Statements,     \* the SELECTs: [where, cols, order, limit, count]
    KeyColumns,     \* [keys -> <<column, ...>>], "ft" is the full-text key
    PartInfo,       \* [columns -> the key part of the codec]
    Builds,         \* pairs of a server, "mysql" or "mariadb", and a value of
                    \* mroonga_condition_push_down_type
    NoWhere, NoOrder, NoLimit, NIL, None,
    \* WHERE conditions are what ConditionConverter says they are:
    Convertable(_),     \* is_convertable(): Groonga can evaluate the condition
    MatchCount(_),      \* count_match_against()
    GroongaHolds(_, _), \* the converted condition holds for a row
    SqlHolds(_, _),     \* the condition holds for a row
    ReadColumns(_),     \* the columns the condition compares
    SaysTheSame(_)      \* the converted condition is the condition

VARIABLES
    table,    \* [record id -> row]; the rows do not change during a SELECT
    server,   \* which server was built
    pushType, \* mroonga_condition_push_down_type
    \* the session
    query, plan, phase, todo, pending, out, n,
    \* the handler
    pushed_cond, cursor, result_cursor, empty_cursor, ft, record_id,
    count_skip, ignoring_no_key_columns, active_index, buf

serverVars == <<server, pushType, query, plan, todo, pending, out, n>>
cursors == <<cursor, result_cursor, empty_cursor>>
handlerVars == <<pushed_cond, cursor, result_cursor, empty_cursor, ft, record_id,
                 count_skip, ignoring_no_key_columns,
                 active_index, buf>>
vars == <<table, phase, serverVars, handlerVars>>

FullText == FullTextKey[1]
Ids == DOMAIN table
RangeKeys == DOMAIN KeyColumns \ {"ft"}
Primary == "PRIMARY"
IsMulti(key) == Len(KeyColumns[key]) > 1
Parts(key) == [i \in DOMAIN KeyColumns[key] |-> PartInfo[KeyColumns[key][i]]]

\* A set as a sequence, in the order of a relation: an element comes after
\* those that are less.
Ranked(S, R) ==
    [i \in 1 .. Cardinality(S) |->
        CHOOSE x \in S : Cardinality({y \in S : <<y, x>> \in R}) = i - 1]

InNumberOrder(S) == Ranked(S, {p \in S \X S : p[1] < p[2]})

\* The rows of a table in the order of the record ids.
InIdOrder(S) == InNumberOrder(S)

-----------------------------------------------------------------------------
(***************************************************************************)
(* Groonga's index tables and cursors.                                     *)
(***************************************************************************)

\* A value as the key of an index: an empty string is an empty key, and
\* Groonga keeps no empty key.
GrnKey(col, v) == IF IsString(col) /\ v = 0 THEN <<>> ELSE <<v>>
CodecValue(col, v) == IF IsString(col) THEN GrnKey(col, v) ELSE v

CodecValues(key, vals) == [i \in DOMAIN vals |-> CodecValue(KeyColumns[key][i], vals[i])]
EncodeKey(key, vals) ==
    IF IsMulti(key) THEN encode(Parts(key), CodecValues(key, vals))
                    ELSE GrnKey(KeyColumns[key][1], vals[1])

\* A row as it is in the index: its strings normalised.
ValuesOf(key, row) ==
    [i \in DOMAIN KeyColumns[key] |-> Weight(KeyColumns[key][i], row[KeyColumns[key][i]])]

IndexKey(key, row) == EncodeKey(key, ValuesOf(key, row))

Entries(key) == {e \in {[id |-> id, key |-> IndexKey(key, table[id])] : id \in Ids} :
                    e.key # <<>>}

\* Of two entries of a cursor the one with the lesser key is first; if the keys
\* are the same, the one with the lesser record id.
EntryBefore(b, c, entries) == ByteLess(b, c) \/ (b = c /\ entries[1].id < entries[2].id)

\* grn_table_cursor_open(): a bound of size 0 is no bound.
grn_cursor_open(key, min, max, flags) ==
    LET In(e) == /\ IF "PREFIX" \in flags THEN IsPrefix(min, e.key)
                    ELSE min = <<>> \/ IF "GT" \in flags THEN ByteLess(min, e.key)
                                                        ELSE ByteLeq(min, e.key)
                 /\ max = <<>> \/ IF "LT" \in flags THEN ByteLess(e.key, max)
                                                   ELSE ByteLeq(e.key, max)
        S == {e \in Entries(key) : In(e)}
    IN  Ranked(S, IF "DESCENDING" \in flags THEN {p \in S \X S : EntryBefore(p[2].key, p[1].key, p)}
                                            ELSE {p \in S \X S : EntryBefore(p[1].key, p[2].key, p)})

\* A cursor over the table itself: the key of an entry is the primary key.
TableCursor(ids) == [i \in DOMAIN ids |->
                        [id |-> ids[i], key |-> IndexKey(Primary, table[ids[i]])]]

-----------------------------------------------------------------------------
(***************************************************************************)
(* The record buffer.                                                      *)
(***************************************************************************)

\* storage_store_fields(): an index only read fills the columns of the key.
storage_store_fields(id, b) ==
    [c \in Columns |->
        IF ignoring_no_key_columns
           /\ ~(\E i \in DOMAIN KeyColumns[active_index] : KeyColumns[active_index][i] = c)
        THEN b[c] ELSE table[id][c]]

\* storage_store_fields_by_index(): a text in the index may be normalised, so
\* the row is read instead; otherwise the key is decoded.
storage_store_fields_by_index(e, b) ==
    LET cols == KeyColumns[active_index]
        text == \E i \in DOMAIN cols : IsString(cols[i])
        vals == IF IsMulti(active_index) THEN decode(Parts(active_index), e.key) ELSE e.key
    IN  IF text THEN storage_store_fields(e.id, b)
        ELSE [c \in Columns |-> IF \E i \in DOMAIN cols : cols[i] = c
                                THEN vals[CHOOSE i \in DOMAIN cols : cols[i] = c]
                                ELSE b[c]]

-----------------------------------------------------------------------------
(***************************************************************************)
(* The short cuts.                                                         *)
(***************************************************************************)

\* Faulty variant: any column of the active key, looked up or not.
SkippableAnyPart(col, nparts) ==
    /\ active_index # None
    /\ \E i \in DOMAIN KeyColumns[active_index] : KeyColumns[active_index][i] = col

\* CountSkipChecker: fields the index lookup fixes, `nparts' of the active key.
SkippableField(col, nparts) ==
    /\ active_index # None
    /\ \E i \in DOMAIN KeyColumns[active_index] :
          KeyColumns[active_index][i] = col /\ i <= nparts

is_skippable_func(f, nparts) ==
    f.functype \in {"EQ", "NE", "LT", "LE", "GE", "GT", "BETWEEN"}
    /\ SkippableField(f.col, nparts)

is_skippable(where, nparts) ==
    IF where.type = "COND"
    THEN \A i \in DOMAIN where.args : /\ where.args[i].type = "FUNC"
                                      /\ is_skippable_func(where.args[i], nparts)
    ELSE where.functype = "MATCH" \/ is_skippable_func(where, nparts)

check_count_skip(nparts) ==
    query.count /\ (query.where = NoWhere \/ is_skippable(query.where, nparts))

\* Faulty variant: it is not asked who evaluates WHERE.
FastOrderLimitAnyWhere ==
    /\ ~query.count
    /\ query.order # NoOrder
    /\ query.limit # NoLimit
    /\ query.order.col = FullText \/ query.order.col \notin Normalized

\* check_fast_order_limit(): the whole WHERE must be Groonga's.
check_fast_order_limit ==
    /\ ~query.count
    /\ query.order # NoOrder
    /\ query.limit # NoLimit
    /\ query.where # NoWhere =>
          pushed_cond # NoWhere /\ Convertable(query.where)
    /\ query.order.col = FullText \/ query.order.col \notin Normalized

SortBefore(order, id1, id2) ==
    LET x == table[id1][order.col] y == table[id2][order.col]
    IN  IF order.desc THEN x > y ELSE x < y

Sorted(ids, order) ==
    Ranked(ids, {p \in ids \X ids : \/ SortBefore(order, p[1], p[2])
                                   \/ /\ ~SortBefore(order, p[2], p[1])
                                      /\ p[1] < p[2]})

Cut(seq, limit) == SubSeq(seq, 1, IF limit < Len(seq) THEN limit ELSE Len(seq))

\* grn_table_select() with the converted condition, sorted and cut if asked.
Selected(where) == {id \in Ids : GroongaHolds(where, table[id])}

-----------------------------------------------------------------------------
(***************************************************************************)
(* Where an index read starts and ends.                                    *)
(***************************************************************************)

\* The flags of the Groonga cursor; GE, LE and ASCENDING are 0.
CursorFlags(find_flag) ==
    CASE find_flag = "BEFORE_KEY" -> {"LT", "DESCENDING"}
      [] find_flag = "PREFIX_LAST" -> {"PREFIX", "DESCENDING"}
      [] find_flag = "PREFIX_LAST_OR_PREV" -> {"DESCENDING"}
      [] find_flag = "AFTER_KEY" -> {"GT"}
      [] OTHER -> {}                              \* KEY_OR_NEXT, KEY_EXACT

\* All the columns of an index over several columns are given.
WholeKeyBounds(key, vals, find_flag) ==
    LET k == EncodeKey(key, vals)
    IN  CASE find_flag \in {"BEFORE_KEY", "PREFIX_LAST_OR_PREV"} -> [min |-> <<>>, max |-> k]
          [] find_flag = "KEY_EXACT" -> [min |-> k, max |-> k]
          [] OTHER -> [min |-> k, max |-> <<>>]

\* Only the first columns are: the cursor stays within the columns before the
\* last one given.
PartKeyBounds(key, vals, find_flag) ==
    LET v == CodecValues(key, vals)
        prev == SubSeq(v, 1, Len(v) - 1)
        low  == IF prev = <<>> THEN <<>> ELSE LeastKey(Parts(key), prev)
        high == IF prev = <<>> THEN <<>> ELSE GreatestKey(Parts(key), prev)
    IN  CASE find_flag = "BEFORE_KEY" -> [min |-> low, max |-> LeastKey(Parts(key), v)]
          [] find_flag = "PREFIX_LAST_OR_PREV" ->
                [min |-> low, max |-> GreatestKey(Parts(key), v)]
          [] find_flag = "PREFIX_LAST" -> [min |-> EncodeKey(key, vals), max |-> <<>>]
          [] find_flag = "AFTER_KEY" -> [min |-> GreatestKey(Parts(key), v), max |-> high]
          [] find_flag = "KEY_OR_NEXT" -> [min |-> LeastKey(Parts(key), v), max |-> high]
          [] OTHER -> [min |-> LeastKey(Parts(key), v), max |-> GreatestKey(Parts(key), v)]

SingleKeyBounds(key, vals, find_flag) ==
    LET k == EncodeKey(key, vals)
    IN  CASE find_flag = "KEY_EXACT" -> [min |-> k, max |-> k]
          [] find_flag \in {"BEFORE_KEY", "PREFIX_LAST_OR_PREV"} -> [min |-> <<>>, max |-> k]
          [] OTHER -> [min |-> k, max |-> <<>>]

Bounds(key, vals, find_flag) ==
    IF ~IsMulti(key) THEN SingleKeyBounds(key, vals, find_flag)
    ELSE IF Len(vals) = Len(KeyColumns[key]) THEN WholeKeyBounds(key, vals, find_flag)
    ELSE PartKeyBounds(key, vals, find_flag)

\* An empty key without flags: the index does not have the records.
EmptyValueSearch(key, vals, find_flag) ==
    LET b == Bounds(key, vals, find_flag)
    IN  /\ ~IsMulti(key)
        /\ CursorFlags(find_flag) = {}
        /\ b.min = <<>> /\ b.max = <<>>

\* No record has the empty primary key; another column is searched by a scan.
EmptyValueRecords(key) ==
    IF key = Primary THEN {}
    ELSE {id \in Ids : table[id][KeyColumns[key][1]] = 0}

-----------------------------------------------------------------------------
(***************************************************************************)
(* The server: the access paths it may choose for a statement.  A range is *)
(* [min, minflag, max, maxflag]; <<>> is no bound.                         *)
(***************************************************************************)

Conjuncts(where) ==
    IF where = NoWhere THEN {}
    ELSE IF where.type = "FUNC" THEN {where}
    ELSE IF where.functype = "AND" THEN {where.args[i] : i \in DOMAIN where.args}
    ELSE {}

\* A conjunct the range optimizer can turn into ranges of a column.
Sargable(f, col) ==
    /\ f.type = "FUNC" /\ f.functype # "MATCH"
    /\ f.col = col /\ ~f.negated
    /\ \A i \in DOMAIN f.vals :
          f.vals[i].kind # "expression" /\ f.vals[i].v # InvalidTime /\ f.vals[i].v % 2 = 0

\* A constant as the key it is looked up with.
Lookup(f, i) == Weight(f.col, f.vals[i].v \div 2)

EqValues(where, col) ==
    {Lookup(f, 1) : f \in {g \in Conjuncts(where) : Sargable(g, col) /\ g.functype = "EQ"}}

\* The columns of the key that WHERE fixes, from the first one on.
FixedParts(where, key) ==
    {m \in 0 .. Len(KeyColumns[key]) :
        \A i \in 1 .. m : EqValues(where, KeyColumns[key][i]) # {}}
Fixed(where, key, m) ==
    [i \in 1 .. m |-> CHOOSE v \in EqValues(where, KeyColumns[key][i]) : TRUE]

KeyRange(min, minflag, max, maxflag) ==
    [min |-> min, minflag |-> minflag, max |-> max, maxflag |-> maxflag]
Exact(vals) == KeyRange(vals, "KEY_EXACT", vals, "AFTER_KEY")
IsExact(r) == r.minflag = "KEY_EXACT"

RangesOf(f, E) ==
    LET v(i) == Append(E, Lookup(f, i))
    IN  CASE f.functype = "GE" -> <<KeyRange(v(1), "KEY_OR_NEXT", E, "AFTER_KEY")>>
          [] f.functype = "GT" -> <<KeyRange(v(1), "AFTER_KEY", E, "AFTER_KEY")>>
          [] f.functype = "LE" -> <<KeyRange(E, "KEY_OR_NEXT", v(1), "AFTER_KEY")>>
          [] f.functype = "LT" -> <<KeyRange(E, "KEY_OR_NEXT", v(1), "BEFORE_KEY")>>
          [] f.functype = "BETWEEN" -> <<KeyRange(v(1), "KEY_OR_NEXT", v(2), "AFTER_KEY")>>
          [] f.functype = "IN" ->
                LET vs == InNumberOrder({Lookup(f, i) : i \in DOMAIN f.vals})
                IN  [i \in DOMAIN vs |-> Exact(Append(E, vs[i]))]
          [] OTHER -> <<>>

Plan(access, key, ranges, parts, desc) ==
    [access |-> access, key |-> key, ranges |-> ranges, parts |-> parts, desc |-> desc]

\* A table scan needs no key; a session without a statement.
NoPlan == Plan("scan", None, <<>>, 0, FALSE)
NoQuery == [where |-> NoWhere, cols |-> {}, order |-> NoOrder, limit |-> NoLimit, count |-> FALSE]

IndexPaths(q) ==
    {Plan("index", key, <<KeyRange(<<>>, "KEY_OR_NEXT", <<>>, "AFTER_KEY")>>, 0, desc) :
        key \in RangeKeys, desc \in BOOLEAN}
RefPaths(q) ==
    UNION {{Plan("ref", key, <<Exact(Fixed(q.where, key, m))>>, m, desc) :
               m \in FixedParts(q.where, key) \ {0}, desc \in BOOLEAN} : key \in RangeKeys}
RangePaths(q) ==
    UNION {UNION {{Plan("range", key, RangesOf(f, Fixed(q.where, key, m)), m, desc) :
                      f \in {g \in Conjuncts(q.where) :
                                 /\ Sargable(g, KeyColumns[key][m + 1])
                                 /\ g.functype # "EQ"}, desc \in BOOLEAN}
                  : m \in FixedParts(q.where, key) \ {Len(KeyColumns[key])}}
           : key \in RangeKeys}
FullTextPaths(q) ==
    IF \E f \in Conjuncts(q.where) : f.type = "FUNC" /\ f.functype = "MATCH"
    THEN {Plan("ft", "ft", <<>>, 0, desc) : desc \in BOOLEAN} ELSE {}

\* index_flags(): what an index read promises about the order, and which keys
\* can be read without the rows.
HasReadOrder(key) == IsMulti(key) \/ KeyColumns[key][1] \notin Normalized
HasKeyRead(key, cols) ==
    \A c \in cols : c \notin Normalized /\ \E i \in DOMAIN KeyColumns[key] : KeyColumns[key][i] = c

\* The access path delivers the rows in the order of ORDER BY.
InOrder(q, p) ==
    /\ q.order # NoOrder
    /\ \/ /\ p.access = "ft" /\ server = "mysql"
          /\ q.order.col = FullText /\ q.order.desc /\ p.desc
       \/ /\ p.access \in {"ref", "range", "index"}
          /\ p.parts < Len(KeyColumns[p.key])
          /\ HasReadOrder(p.key)
          /\ KeyColumns[p.key][p.parts + 1] = q.order.col
          /\ p.desc = q.order.desc

\* A descending read and a whole index scan are only chosen for the order.
Paths(q) ==
    {NoPlan}
    \cup {p \in IndexPaths(q) \cup RefPaths(q) \cup RangePaths(q) \cup FullTextPaths(q) :
              (p.desc \/ p.access = "index") => InOrder(q, p)}

UsedColumns(q) ==
    q.cols \cup (IF q.where = NoWhere THEN {} ELSE ReadColumns(q.where))
           \cup (IF q.order = NoOrder THEN {} ELSE {q.order.col})
Filesort == query.order # NoOrder /\ ~query.count /\ ~InOrder(query, plan)

\* storage_cond_push(): the condition is taken over as a whole or not at all.
storage_cond_push(where) ==
    IF /\ pushType # "NONE"
       /\ pushType # "ALL" => MatchCount(where) = 1
       /\ Convertable(where)
    THEN NoWhere ELSE where

\* Paths on which rows are known to get lost, left out of the runs:
\* a condition whose expression says something else is taken over;
AcceptedWrongly(q) ==
    /\ q.where # NoWhere
    /\ storage_cond_push(q.where) = NoWhere
    /\ ~SaysTheSame(q.where)
\* the rows with an empty string are not in the index of the string column;
LosesEmpty(p) ==
    /\ p.access \in {"index", "ref", "range"}
    /\ ~IsMulti(p.key) /\ IsString(KeyColumns[p.key][1])
    /\ \E i \in DOMAIN p.ranges :
          /\ p.ranges[i].min \in {<<>>, <<0>>} /\ p.ranges[i].minflag # "AFTER_KEY"
          /\ p.desc \/ ~IsExact(p.ranges[i])
\* MariaDB reads the matches by ft_read() although the rest of WHERE was taken
\* over too, and Mroonga cuts the matches before the rest is evaluated.
LimitedMatch(q, p) ==
    /\ server = "mariadb" /\ p.access = "ft"
    /\ q.limit # NoLimit /\ q.order # NoOrder
    /\ q.where.type = "COND"

-----------------------------------------------------------------------------
(***************************************************************************)
(* What the constants must be.                                             *)
(***************************************************************************)

\* The columns of the keys over several columns.
CodedColumns ==
    UNION {{KeyColumns[key][i] : i \in DOMAIN KeyColumns[key]} :
               key \in {k \in DOMAIN KeyColumns : IsMulti(k)}}

\* The values a field of the column may have: a string is one byte, or empty.
Storable(c, v) ==
    /\ v \in Int
    /\ IsString(c) => v \in 0 .. MaxByte
    /\ c \in CodedColumns /\ ~IsString(c) => v \in PartRange(PartInfo[c])

ASSUME KeyAssumption ==
    /\ FullText \in Columns
    /\ {Primary, "ft"} \subseteq DOMAIN KeyColumns
    /\ \A key \in DOMAIN KeyColumns :
          KeyColumns[key] \in Seq(Columns) /\ KeyColumns[key] # <<>>
    /\ \A c \in CodedColumns :
          /\ IsPart(PartInfo[c]) /\ PartInfo[c].type \notin {"FLOAT", "DOUBLE"}
          /\ PartInfo[c].type = "BYTE_BLOB" <=> IsString(c)

\* NULL is no value, and a cursor that is not open is no sequence of records.
ASSUME NullAssumption ==
    /\ Null \notin Int /\ Null \notin Seq(Int)
    /\ None \notin Seq(Int) /\ None \notin Seq([id : Int, key : Seq(Int)])

\* A collation orders the strings by the ones that stand for them; the empty
\* string stands for itself only.  Of the full-text column there is the score.
ASSUME CollationAssumption ==
    \A c \in Normalized :
        /\ c \in Columns /\ IsString(c)
        /\ \A v \in 0 .. MaxByte : /\ Weight(c, v) \in 0 .. MaxByte
                                   /\ Weight(c, v) = 0 <=> v = 0
                                   /\ c = FullText => Weight(c, v) = v

ASSUME TableAssumption ==
    \A t \in Tables :
        /\ IsFiniteSet(DOMAIN t) /\ DOMAIN t \subseteq Int /\ NIL \notin DOMAIN t
        /\ \A id \in DOMAIN t :
              t[id] \in [Columns -> Int] /\ \A c \in Columns : Storable(c, t[id][c])

\* COUNT yields one row, which needs no order; the server converts a constant to
\* the type of the column before it looks it up.
ASSUME StatementAssumption ==
    \A q \in Statements :
        /\ q.cols \subseteq Columns /\ q.limit \in Nat
        /\ q.order # NoOrder => ~q.count /\ q.order.col \in Columns
        /\ \A f \in Conjuncts(q.where), c \in Columns :
              Sargable(f, c) => /\ f.functype \in {"EQ", "GE", "GT", "LE", "LT", "BETWEEN", "IN"}
                                /\ f.vals \in Seq({f.vals[i] : i \in DOMAIN f.vals})
                                /\ f.vals # <<>> /\ (f.functype = "BETWEEN" => Len(f.vals) = 2)
                                /\ \A i \in DOMAIN f.vals : Storable(c, f.vals[i].v \div 2)

\* The rows of the tables, and what a record buffer holds that was filled from
\* several of them.
ColumnValues(c) == {0} \cup UNION {{t[id][c] : id \in DOMAIN t} : t \in Tables}
Rows == {r \in [Columns -> UNION {ColumnValues(c) : c \in Columns}] :
            \A c \in Columns : r[c] \in ColumnValues(c)}

\* A condition reads the columns it compares, their strings by the collation,
\* and MATCH the relevance.
ASSUME ConditionAssumption ==
    /\ \A r \in Rows : \A where \in {q.where : q \in Statements} \ {NoWhere} :
          SqlHolds(where, r) =
          SqlHolds(where, [c \in Columns |->
                              IF c \in ReadColumns(where) \cup {FullText}
                              THEN Weight(c, r[c]) ELSE 0])
    /\ \A where \in {q.where : q \in Statements} \ {NoWhere} :
        /\ ReadColumns(where) \subseteq Columns
        /\ IF where.type = "COND"
           THEN ReadColumns(where) = UNION {ReadColumns(where.args[i]) : i \in DOMAIN where.args}
           ELSE where.functype # "MATCH" => ReadColumns(where) = {where.col}
        /\ where.type = "COND" =>
              \A i \in DOMAIN where.args :
                  LET f == where.args[i]
                  IN  f.type = "FUNC" /\ f.functype # "MATCH" => ReadColumns(f) = {f.col}

-----------------------------------------------------------------------------
(***************************************************************************)
(* The loop of the server over the rows it is given.                       *)
(***************************************************************************)

\* find_relevance(), get_relevance(): the score of the record Mroonga is at.
Relevance(id) == IF id = NIL THEN 0 ELSE table[id][FullText]

\* MySQL does not look at a condition again that a table scan was given.
Accepts(b, id) ==
    query.where # NoWhere /\ ~(server = "mysql" /\ plan.access = "scan" /\ pushed_cond # NoWhere)
    => SqlHolds(query.where, [b EXCEPT ![FullText] = Relevance(id)])

Prefix(vals, bound) == SubSeq(vals, 1, Len(bound))

\* The row lies behind the end of the range.
PastEnd(b) ==
    /\ plan.access \in {"ref", "range", "index"}
    /\ LET r == Head(todo)
           vals == ValuesOf(plan.key, b)
       IN  IF plan.desc
           THEN \/ ByteLess(Prefix(vals, r.min), r.min)
                \/ /\ r.min # <<>> /\ Prefix(vals, r.min) = r.min
                   /\ r.minflag = "AFTER_KEY"
           ELSE /\ ~IsExact(r)
                /\ \/ ByteLess(r.max, Prefix(vals, r.max))
                   \/ /\ r.max # <<>> /\ Prefix(vals, r.max) = r.max
                      /\ r.maxflag = "BEFORE_KEY"

\* What a filesort goes by: the relevance, or a column in its collation.
SortKey(id, b) == IF query.order.col = FullText THEN Relevance(id)
                  ELSE Weight(query.order.col, b[query.order.col])

\* What the server does with what a read call returned in buf' and record_id'.
Received(eof) ==
    /\ UNCHANGED <<table, server, pushType, query, plan>>
    /\ IF eof \/ PastEnd(buf')
       THEN /\ IF Len(todo) > 1 THEN todo' = Tail(todo) /\ phase' = "first"
                                ELSE todo' = todo /\ phase' = "end"
            /\ UNCHANGED <<pending, out, n>>
       ELSE /\ todo' = todo
            /\ \/ /\ ~Accepts(buf', record_id')
                  /\ phase' = "next"
                  /\ UNCHANGED <<pending, out, n>>
               \/ /\ Accepts(buf', record_id') /\ query.count
                  /\ phase' = "next"
                  /\ n' = n + 1
                  /\ UNCHANGED <<pending, out>>
               \/ /\ Accepts(buf', record_id') /\ ~query.count /\ Filesort
                  /\ phase' = "next"
                  /\ pending' = Append(pending,
                        [ref |-> record_id',               \* storage_position()
                         key |-> SortKey(record_id', buf')])
                  /\ UNCHANGED <<out, n>>
               \/ /\ Accepts(buf', record_id') /\ ~query.count /\ ~Filesort
                  /\ out' = Append(out, [c \in query.cols |-> buf'[c]])
                  /\ phase' = IF Len(out') = query.limit THEN "end" ELSE "next"
                  /\ UNCHANGED <<pending, n>>

-----------------------------------------------------------------------------
(***************************************************************************)
(* The handler calls.                                                      *)
(***************************************************************************)

\* The server picks a statement of the client and an access path.
Start(q, p) ==
    /\ phase = "idle"
    /\ query' = q
    /\ plan' = p
    /\ todo' = IF p.desc THEN Reverse(p.ranges) ELSE p.ranges
    /\ pending' = <<>> /\ out' = <<>> /\ n' = 0
    /\ phase' = "push"
    /\ UNCHANGED <<table, server, pushType, handlerVars>>

CondPush ==
    /\ phase = "push"
    /\ pushed_cond' = IF query.where # NoWhere /\ storage_cond_push(query.where) = NoWhere
                      THEN query.where ELSE NoWhere
    /\ phase' = "init"
    /\ UNCHANGED <<table, serverVars, cursor, result_cursor, empty_cursor, ft, record_id,
                   count_skip, ignoring_no_key_columns, active_index, buf>>

\* storage_rnd_init(): Groonga runs the pushed condition, else a plain cursor.
storage_rnd_init ==
    IF pushed_cond # NoWhere
    THEN LET ids == Selected(pushed_cond)
         IN  /\ count_skip' = check_count_skip(0)
             /\ result_cursor' = IF check_fast_order_limit
                                 THEN Cut(Sorted(ids, query.order), query.limit)
                                 ELSE InIdOrder(ids)
             /\ UNCHANGED cursor
    ELSE /\ cursor' = TableCursor(InIdOrder(Ids))
         /\ UNCHANGED <<result_cursor, count_skip>>

RndInit ==
    /\ phase = "init" /\ plan.access = "scan"
    /\ storage_rnd_init
    /\ phase' = "next"
    /\ UNCHANGED <<table, serverVars, pushed_cond, empty_cursor, ft, record_id,
                   ignoring_no_key_columns, active_index, buf>>

\* index_init() and, for an index only read, HA_EXTRA_KEYREAD.
IndexInit(keyread) ==
    /\ phase = "init" /\ plan.access # "scan"
    /\ keyread => /\ plan.access # "ft"
                  /\ HasKeyRead(plan.key, UsedColumns(query)) /\ ~Filesort
                  /\ query.where # NoWhere => MatchCount(query.where) = 0
    /\ active_index' = plan.key
    /\ ignoring_no_key_columns' = keyread
    /\ phase' = "first"
    /\ UNCHANGED <<table, serverVars, pushed_cond, cursors, ft, record_id, count_skip, buf>>

\* storage_get_next_record(): the first of the open cursors is asked.
storage_get_next_record(fill, rc, c, e) ==
    /\ \/ /\ rc # None
          /\ record_id' = IF rc = <<>> THEN NIL ELSE Head(rc)
          /\ result_cursor' = IF rc = <<>> THEN rc ELSE Tail(rc)
          /\ cursor' = c /\ empty_cursor' = e
       \/ /\ rc = None /\ c # None
          /\ record_id' = IF c = <<>> THEN NIL ELSE Head(c).id
          /\ cursor' = IF c = <<>> THEN c ELSE Tail(c)
          /\ result_cursor' = rc /\ empty_cursor' = e
       \/ /\ rc = None /\ c = None
          /\ record_id' = IF e \in {None, <<>>} THEN NIL ELSE Head(e)
          /\ empty_cursor' = IF e \in {None, <<>>} THEN e ELSE Tail(e)
          /\ result_cursor' = rc /\ cursor' = c
    /\ buf' = IF record_id' = NIL \/ ~fill THEN buf
              ELSE IF ignoring_no_key_columns /\ c # None
                   THEN storage_store_fields_by_index(Head(c), buf)
              ELSE storage_store_fields(record_id', buf)
    /\ Received(record_id' = NIL)

ReadUnchanged == UNCHANGED <<pushed_cond, ft, ignoring_no_key_columns,
                             active_index>>

RndNext ==
    /\ phase = "next" /\ plan.access = "scan"
    /\ storage_get_next_record(TRUE, result_cursor, cursor, empty_cursor)
    /\ UNCHANGED count_skip /\ ReadUnchanged

\* storage_index_read_map(): opens the cursor and reads the first record.
storage_index_read_map(vals, find_flag) ==
    LET key == active_index
        b == Bounds(key, vals, find_flag)
    IN  /\ count_skip' = check_count_skip(Len(vals))
        /\ IF EmptyValueSearch(key, vals, find_flag)
           THEN storage_get_next_record(TRUE, None, None, InIdOrder(EmptyValueRecords(key)))
           ELSE storage_get_next_record(TRUE, None,
                    grn_cursor_open(key, b.min, b.max, CursorFlags(find_flag)), None)

\* storage_index_read_last_map(): the last record with the key, going back.
storage_index_read_last_map(vals) ==
    LET key == active_index
        k == EncodeKey(key, vals)
        c == IF IsMulti(key) THEN grn_cursor_open(key, k, <<>>, {"DESCENDING", "PREFIX"})
                             ELSE grn_cursor_open(key, k, k, {"DESCENDING"})
    IN  storage_get_next_record(TRUE, None, c, empty_cursor) /\ UNCHANGED count_skip

\* storage_index_first(), storage_index_last()
storage_index_first ==
    /\ storage_get_next_record(TRUE, None, grn_cursor_open(active_index, <<>>, <<>>, {}), empty_cursor)
    /\ UNCHANGED count_skip
storage_index_last ==
    /\ storage_get_next_record(TRUE, None,
           grn_cursor_open(active_index, <<>>, <<>>, {"DESCENDING"}), empty_cursor)
    /\ UNCHANGED count_skip

\* The first read of a range, forwards or backwards.
IndexReadFirst ==
    /\ phase = "first" /\ plan.access \in {"ref", "range", "index"}
    /\ LET r == Head(todo)
       IN  \/ ~plan.desc /\ r.min = <<>> /\ storage_index_first
           \/ ~plan.desc /\ r.min # <<>> /\ storage_index_read_map(r.min, r.minflag)
           \/ plan.desc /\ r.max = <<>> /\ storage_index_last
           \/ /\ plan.desc /\ r.max # <<>> /\ plan.access = "ref"
              /\ storage_index_read_last_map(r.max)
           \/ /\ plan.desc /\ r.max # <<>> /\ plan.access # "ref"
              /\ storage_index_read_map(r.max, IF r.maxflag = "BEFORE_KEY" THEN "BEFORE_KEY"
                                                                          ELSE "PREFIX_LAST_OR_PREV")
    /\ ReadUnchanged

\* storage_index_next(), storage_index_prev(); storage_index_next_same() leaves
\* the record buffer alone when only the number of records counts.
IndexReadNext ==
    /\ phase = "next" /\ plan.access \in {"ref", "range", "index"}
    /\ LET same == IsExact(Head(todo)) /\ ~plan.desc
       IN  storage_get_next_record(~(same /\ count_skip), result_cursor, cursor, empty_cursor)
    /\ UNCHANGED count_skip /\ ReadUnchanged

\* clear_cursor()
clear_cursor == cursor' = None /\ result_cursor' = None

\* storage_ft_init(): runs the search; the result may be sorted and cut.
FtInit ==
    /\ phase = "first" /\ plan.access = "ft"
    /\ LET ids == {id \in Ids : table[id][FullText] > 0}
           sorted == InOrder(query, plan)                        \* FT_SORTED
           check == server = "mariadb" \/ pushed_cond = NoWhere
           fast == ~sorted /\ check /\ check_fast_order_limit
       IN  /\ count_skip' = check_count_skip(0)
           /\ ft' = CASE sorted -> Sorted(ids, query.order)
                     [] fast -> Cut(Sorted(ids, query.order), query.limit)
                     [] OTHER -> InIdOrder(ids)
    /\ record_id' = NIL
    /\ phase' = "next"
    /\ UNCHANGED <<table, serverVars, pushed_cond, cursors, ignoring_no_key_columns,
                   active_index, buf>>

\* Faulty variant: with count skip the cursor is not asked for the next record.
FtReadStays ==
    /\ phase = "next" /\ plan.access = "ft"
    /\ IF ft = <<>> \/ (count_skip /\ record_id # NIL)
       THEN UNCHANGED <<record_id, buf, ft>>
       ELSE /\ ft' = Tail(ft)
            /\ record_id' = Head(ft)
            /\ buf' = storage_store_fields(record_id', buf)
    /\ Received(ft = <<>>)
    /\ UNCHANGED <<pushed_cond, cursors, count_skip, ignoring_no_key_columns, active_index>>

\* storage_ft_read(): with count skip only the first record is looked at.
FtRead ==
    /\ phase = "next" /\ plan.access = "ft"
    /\ IF ft = <<>>
       THEN UNCHANGED <<record_id, buf, ft>>
       ELSE /\ ft' = Tail(ft)
            /\ IF count_skip /\ record_id # NIL
               THEN UNCHANGED <<record_id, buf>>
               ELSE /\ record_id' = Head(ft)
                    /\ buf' = storage_store_fields(record_id', buf)
    /\ Received(ft = <<>>)
    /\ UNCHANGED <<pushed_cond, cursors, count_skip,
                   ignoring_no_key_columns, active_index>>

\* The rows of a filesort, in order; rows with the same key stay as they are.
KeyBefore(x, y) == IF query.order.desc THEN x.key > y.key ELSE x.key < y.key
Filesorted ==
    LET D == DOMAIN pending
        order == Ranked(D, {p \in D \X D : \/ KeyBefore(pending[p[1]], pending[p[2]])
                                           \/ /\ ~KeyBefore(pending[p[2]], pending[p[1]])
                                              /\ p[1] < p[2]})
    IN  [i \in D |-> pending[order[i]]]

\* storage_rnd_end(), storage_index_end(); the rows of a filesort are sorted.
End ==
    /\ phase = "end"
    /\ clear_cursor
    /\ active_index' = None
    /\ phase' = IF Filesort THEN "sort" ELSE "reset"
    /\ pending' = Cut(Filesorted, query.limit)
    /\ UNCHANGED <<table, server, pushType, query, plan, todo, out, n, pushed_cond, empty_cursor,
                   ft, record_id, count_skip, ignoring_no_key_columns, buf>>

\* rnd_init(false), rnd_pos() for each row of the filesort, rnd_end().
SortInit ==
    /\ phase = "sort"
    /\ storage_rnd_init
    /\ phase' = "fetch"
    /\ UNCHANGED <<table, serverVars, pushed_cond, empty_cursor, ft, record_id,
                   ignoring_no_key_columns, active_index, buf>>

RndPos ==
    /\ phase = "fetch" /\ pending # <<>>
    /\ record_id' = Head(pending).ref
    /\ buf' = storage_store_fields(record_id', buf)
    /\ pending' = Tail(pending)
    /\ out' = Append(out, [c \in query.cols |-> buf'[c]])
    /\ UNCHANGED <<table, phase, server, pushType, query, plan, todo, n, pushed_cond, cursors, ft,
                   count_skip, ignoring_no_key_columns, active_index>>

RndEnd ==
    /\ phase = "fetch" /\ pending = <<>>
    /\ clear_cursor
    /\ phase' = "reset"
    /\ UNCHANGED <<table, serverVars, pushed_cond, empty_cursor, ft, record_id, count_skip, ignoring_no_key_columns, active_index, buf>>

\* Faulty variants: the pushed condition, or the search for the empty string,
\* stays for the next statement.
ResetKeepsCondition ==
    /\ phase = "reset"
    /\ clear_cursor
    /\ empty_cursor' = None /\ ft' = None
    /\ ignoring_no_key_columns' = FALSE
    /\ phase' = "answered"
    /\ UNCHANGED <<table, serverVars, record_id, count_skip, active_index, buf, pushed_cond>>
ResetKeepsEmptySearch ==
    /\ phase = "reset"
    /\ clear_cursor
    /\ ft' = None
    /\ ignoring_no_key_columns' = FALSE
    /\ pushed_cond' = NoWhere
    /\ phase' = "answered"
    /\ UNCHANGED <<table, serverVars, record_id, count_skip, active_index, buf, empty_cursor>>

\* reset(): clear_empty_value_records(), clear_search_result(), the ft infos;
\* the server takes its pushed condition back.
Reset ==
    /\ phase = "reset"
    /\ clear_cursor
    /\ empty_cursor' = None
    /\ ft' = None
    /\ ignoring_no_key_columns' = FALSE
    /\ pushed_cond' = NoWhere
    /\ phase' = "answered"
    /\ UNCHANGED <<table, serverVars, record_id, count_skip, active_index, buf>>

\* The client has the answer and the server forgets the statement.
Answered ==
    /\ phase = "answered"
    /\ phase' = "idle"
    /\ query' = NoQuery /\ plan' = NoPlan
    /\ todo' = <<>> /\ out' = <<>> /\ n' = 0
    /\ UNCHANGED <<table, server, pushType, pending, handlerVars>>

Init ==
    /\ table \in Tables
    /\ \E b \in Builds : server = b[1] /\ pushType = b[2]
    /\ query = NoQuery /\ plan = NoPlan
    /\ phase = "idle" /\ todo = <<>> /\ pending = <<>> /\ out = <<>> /\ n = 0
    /\ pushed_cond = NoWhere /\ cursor = None /\ result_cursor = None /\ empty_cursor = None
    /\ ft = None /\ record_id = NIL /\ count_skip = FALSE
    /\ ignoring_no_key_columns = FALSE /\ active_index = None
    /\ buf = [c \in Columns |-> 0]

\* The statements and access paths of the runs.
Chosen(q, p) == ~AcceptedWrongly(q) /\ ~LosesEmpty(p) /\ ~LimitedMatch(q, p)

Next ==
    \/ phase = "idle" /\ \E q \in Statements : \E p \in Paths(q) : Chosen(q, p) /\ Start(q, p)
    \/ CondPush \/ RndInit \/ (\E k \in BOOLEAN : IndexInit(k))
    \/ RndNext \/ IndexReadFirst \/ IndexReadNext \/ FtInit \/ FtRead
    \/ End \/ SortInit \/ RndPos \/ RndEnd \/ Reset \/ Answered

Spec == Init /\ [][Next]_vars
-----------------------------------------------------------------------------
(***************************************************************************)
(* Correctness.                                                            *)
(***************************************************************************)

Where(q, row) == q.where = NoWhere \/ SqlHolds(q.where, row)
Before(q, row1, row2) ==
    /\ q.order # NoOrder
    /\ LET x == Weight(q.order.col, row1[q.order.col])
           y == Weight(q.order.col, row2[q.order.col])
       IN  IF q.order.desc THEN x > y ELSE x < y

Promise == INSTANCE SelectSpec
    WITH Selects <- Statements,
         count   <- IF phase = "answered" THEN n ELSE 0,
         status  <- IF phase \in {"idle", "answered"} THEN phase ELSE "running"

\* Whatever access path the server takes and whichever short cut Mroonga takes
\* behind it (condition push down, count skip, fast ORDER BY LIMIT, index only
\* reads), every SELECT delivers exactly the rows its condition selects, each
\* once, in the order and up to the LIMIT asked for, and COUNT is their number.
SelectAnswers == Promise!SelectPromise

\* Types, and a position in a cursor that is a record of the table.
SearchTypeOK ==
    /\ phase \in {"idle", "push", "init", "first", "next", "end", "sort", "fetch", "reset", "answered"}
    /\ pushed_cond \in {NoWhere, query.where}
    /\ record_id \in Ids \cup {NIL}
    /\ active_index \in DOMAIN KeyColumns \cup {None}
    /\ cursor # None => \A i \in DOMAIN cursor : cursor[i].id \in Ids
    /\ result_cursor # None => \A i \in DOMAIN result_cursor : result_cursor[i] \in Ids
    /\ n \in 0 .. Cardinality(Ids)

\* The columns the statement uses are, in the record buffer the server works on,
\* those of the record Mroonga is at (storage_store_fields_by_index() decodes
\* them from the index key); only count skip may leave an older record there.
BufferIsRecord ==
    [][(phase \in {"first", "next"} /\ record_id' # NIL /\ ~count_skip') =>
          \A c \in UsedColumns(query) : buf'[c] = table[record_id'][c]]_vars

\* What count skip does not read cannot change the answer: the record left in
\* the buffer satisfies WHERE exactly if the record Mroonga is at does.
SkippedIsAlike ==
    (phase = "next" /\ record_id # NIL /\ query.count /\ query.where # NoWhere
       /\ pushed_cond = NoWhere /\ plan.access # "scan") =>
        (Accepts(buf, record_id) <=> SqlHolds(query.where, table[record_id]))

\* A statement leaves nothing behind for the next one on the same handler.
HandlerIsClean ==
    phase \in {"idle", "push"} =>
        /\ cursor = None /\ result_cursor = None /\ empty_cursor = None /\ ft = None
        /\ pushed_cond = NoWhere /\ ~ignoring_no_key_columns

\* What is left to do for a statement: the phases to come, the ranges to read
\* and the records in the open cursor.
Rank == [push |-> 8, init |-> 7, first |-> 6, next |-> 6, end |-> 5, sort |-> 4, fetch |-> 3,
         reset |-> 2, answered |-> 1, idle |-> 0]
OpenCursor ==
    IF plan.access = "ft" THEN ft
    ELSE IF result_cursor # None THEN result_cursor
    ELSE IF cursor # None THEN cursor
    ELSE IF empty_cursor # None THEN empty_cursor
    ELSE <<>>
Left ==
    CASE phase = "first" -> (Cardinality(Ids) + 2) * Len(todo) + Cardinality(Ids) + 1
      [] phase = "next" -> (Cardinality(Ids) + 2) * Len(todo) + Len(OpenCursor)
      [] phase = "fetch" -> Len(pending)
      [] OTHER -> 0

\* Every SELECT comes to its end: no read call returns a record without having
\* moved on, whichever cursor is open, so that each step of a statement leaves
\* less to do (and the check for deadlocks shows that there is a step).
StatementEnds ==
    [][phase # "idle" => \/ Rank[phase'] < Rank[phase]
                         \/ Rank[phase'] = Rank[phase] /\ Left' < Left]_vars
=============================================================================
