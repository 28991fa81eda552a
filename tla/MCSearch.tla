------------------------------ MODULE MCSearch ------------------------------
(***************************************************************************)
(* A table (k INT PRIMARY KEY, a INT, s VARCHAR, t DATETIME, f FLOAT,      *)
(* u VARCHAR in another charset, with a ..._bin collation, d TEXT) with    *)
(* KEY s(s), KEY ask(a, s, k), KEY ak(a, k) and FULLTEXT ft(d); d is the   *)
(* score for the query.  The strings are '', 'A', 'B' and 'a'.             *)
(***************************************************************************)
EXTENDS Search, ConditionConverter

MCFieldType == [k |-> "LONG", a |-> "LONG", s |-> "VARCHAR", t |-> "DATETIME2",
                f |-> "FLOAT", u |-> "VARCHAR", d |-> "BLOB"]
MCCharset == [c \in DOMAIN MCFieldType |-> IF c = "u" THEN "sjis" ELSE "utf8"]
MCFullTextKey == <<"d">>
MCKeyColumns == [PRIMARY |-> <<"k">>, s |-> <<"s">>, ask |-> <<"a", "s", "k">>,
                 ak |-> <<"a", "k">>, ft |-> <<"d">>]
Number == [type |-> "NUMBER", size |-> 1, signed |-> TRUE, nullable |-> FALSE]
\* 'a' (3) is 'A' (1) in the collation of s.
MCCollation == [c \in {"s", "d"} |->
                   [v \in 0 .. MaxByte |-> IF c = "s" /\ v = 3 THEN 1 ELSE v]]
Text == [type |-> "BYTE_BLOB", size |-> 1, signed |-> FALSE, nullable |-> FALSE]
MCPartInfo == [c \in DOMAIN MCFieldType |-> IF c \in {"s", "u", "d"} THEN Text ELSE Number]

\* The record ids do not follow the primary key.
Row(k, a, s, d) == [k |-> k, a |-> a, s |-> s, t |-> d, f |-> 0, u |-> s, d |-> d]
MCTables ==
    {<<Row(0, 1, 2, 0), Row(2, -1, 3, 2), Row(1, 1, 0, 1), Row(-1, 1, 1, 1)>>}
MCBuilds == {<<"mysql", "NONE">>, <<"mysql", "ALL">>, <<"mariadb", "ALL">>,
             <<"mariadb", "ONE_FULL_TEXT_SEARCH">>}

Const(v) == [kind |-> "int", v |-> 2 * v]
Func(op, col, vals, negated) ==
    [type |-> "FUNC", functype |-> op, col |-> col, vals |-> vals, negated |-> negated]
Is(op, col, v) == Func(op, col, <<Const(v)>>, FALSE)
Between(col, v, w, not) == Func("BETWEEN", col, <<Const(v), Const(w)>>, not)
Among(col, v, w, not) == Func("IN", col, <<Const(v), Const(w)>>, not)
Match == Func("MATCH", "d", <<>>, FALSE)
Cond(op, args) == [type |-> "COND", functype |-> op, args |-> args]
And(x, y) == Cond("AND", <<x, y>>)
Or(x, y) == Cond("OR", <<x, y>>)

\* Conditions that are taken over and conditions that are not: by the type and
\* the index of the column, the constant, the operator around it, the encoding.
Simple ==
    {Is("LT", "k", 1), Is("EQ", "a", 1),
     Is("EQ", "s", 3), Is("EQ", "s", 0), Is("LE", "s", 3),
     Is("GT", "u", 0), Is("EQ", "f", 0),
     Between("a", 0, 1, FALSE), Between("s", 3, 2, FALSE), Between("a", 0, 1, TRUE),
     Among("k", -1, 1, FALSE), Among("k", 0, 1, TRUE), Among("s", 1, 3, FALSE),
     Func("EQ", "t", <<[kind |-> "string", v |-> InvalidTime]>>, FALSE),
     Func("EQ", "a", <<[kind |-> "expression", v |-> 2]>>, FALSE),
     Func("GT", "a", <<[kind |-> "decimal", v |-> 1]>>, FALSE), Match}
Joined ==
    {And(Is("EQ", "a", 1), Is("EQ", "s", 1)),
     And(Is("EQ", "a", 1), Is("GE", "k", 0)),
     And(Is("EQ", "a", 1), Is("GE", "t", 1)),
     And(And(Is("EQ", "a", 1), Is("EQ", "s", 1)), Is("EQ", "k", 0)),
     And(Is("EQ", "a", 1), Among("k", 0, 1, TRUE)),
     Or(Is("EQ", "a", -1), Among("k", 0, 1, TRUE)),
     Or(And(Among("k", 0, 2, TRUE), Is("EQ", "a", 1)), Is("EQ", "k", 1)),
     And(Match, Is("EQ", "a", 1)),
     And(Is("LT", "k", 2), Match),
     Or(Match, Is("EQ", "k", 0)),
     And(Is("EQ", "s", 1), Is("EQ", "u", 1)),
     And(Match, Is("EQ", "u", 1))}
Conditions == {NoWhere} \cup Simple \cup Joined

Order(col, desc) == [col |-> col, desc |-> desc]
Select(where, cols, order, limit) ==
    [where |-> where, cols |-> cols, order |-> order, limit |-> limit, count |-> FALSE]
Count(where) ==
    [where |-> where, cols |-> {"k"}, order |-> NoOrder, limit |-> NoLimit, count |-> TRUE]
\* Conditions that are also asked for in some order.
Ordered == {NoWhere, Match, Is("EQ", "a", 1), Is("LE", "s", 3),
            And(Is("EQ", "a", 1), Is("GE", "k", 0)), And(Match, Is("EQ", "a", 1)),
            And(Match, Is("EQ", "u", 1))}
MCConvertable(where) == is_convertable(where, TRUE)
MCMatchCount(where) == count_match_against(where, TRUE)
MCGroongaHolds(where, row) == grn_expr_exec(convert(where).code, row)
MCSaysTheSame(where) == \E enc \in {"utf8", "sjis"} : Plain(where, enc)

MCStatements ==
    {Count(w) : w \in Conditions}
    \cup {Select(w, {"k", "a", "s"}, NoOrder, NoLimit) : w \in Conditions}
    \cup {Select(w, {"k"}, o, 2) : w \in Ordered,
              o \in {Order("k", FALSE), Order("a", TRUE), Order("s", FALSE)}}
    \cup {Select(Is("GT", "u", 0), {"k"}, Order("u", FALSE), 2)}
    \cup {Select(w, {"k", "a"}, Order("k", TRUE), NoLimit) :
              w \in {NoWhere, Is("EQ", "a", 1), Is("LT", "k", 1),
                     And(Is("EQ", "a", 1), Is("LT", "k", 1))}}
    \cup {Select(w, {"k", "a"}, Order("d", TRUE), 1) :
              w \in {v \in Ordered : v # NoWhere /\ MatchCount(v) > 0}}
=============================================================================
