------------------------- MODULE ConditionConverter -------------------------
(***************************************************************************)
(* lib/mrn_condition_converter.cpp: which WHERE conditions Mroonga takes   *)
(* over from the server, and the Groonga expression it evaluates instead.  *)
(*                                                                         *)
(* An item is a record.  A COND item is an AND or an OR of items, a FUNC   *)
(* item compares a column with constants or is MATCH ... AGAINST:          *)
(*   [type |-> "COND", functype |-> "AND" | "OR", args |-> <<item, ...>>]  *)
(*   [type |-> "FUNC", functype |-> ..., col |-> column,                   *)
(*    vals |-> <<constant, ...>>, negated |-> BOOLEAN]                     *)
(* A constant is [kind, v]; v is TWICE the number, the string (its         *)
(* position among the bytes) or the time, so that 1.5 is a constant too;   *)
(* the kind "expression" is an argument that is not a basic constant.      *)
(***************************************************************************)
EXTENDS FieldTypes, Integers, Sequences, SequencesExt

CONSTANTS
    Charset,      \* [columns -> the Groonga encoding of the column]
    Indexed       \* the columns grn_column_index() finds an index for

Empty == "no encoding yet"   \* the vector `encodings' is empty

\* Field::type(): an ENUM or a SET says that it is a string.
TypeOf(t) == IF t \in {"ENUM", "SET"} THEN "STRING" ELSE t

\* The comparison and the index must agree on one encoding: encodings[0].
Mixed(enc, col) == enc # Empty /\ enc # Charset[col]

have_index(col) == col \in Indexed

\* get_time_value(): a YEAR takes any integer, the others must parse.
is_valid_time_value(col, c) == FieldType[col] = "YEAR" \/ c.v # InvalidTime

EnumConstant(c) == c.kind \in {"string", "int"}

\* Each is_convertable_...() yields the answer and the encodings so far.
Answer(ok, enc) == [ok |-> ok, enc |-> enc]

is_convertable_binary_operation(f, enc) ==
    LET t == FieldType[f.col]
        n == normalize_field_type(t)
    IN  CASE n = "STRING_TYPE" /\ f.functype = "EQ" ->
                IF Mixed(enc, f.col)
                THEN Answer(FALSE, enc)
                ELSE Answer(have_index(f.col), Charset[f.col])
          [] n = "STRING_TYPE" /\ f.functype # "EQ" -> Answer(TRUE, enc)
          [] n = "INT_TYPE" ->
                Answer(t = "ENUM" => EnumConstant(f.vals[1]), enc)
          [] n = "TIME_TYPE" ->
                Answer(is_valid_time_value(f.col, f.vals[1]), enc)
          [] OTHER -> Answer(FALSE, enc)

is_convertable_between(f) ==
    LET t == TypeOf(FieldType[f.col])
        n == normalize_field_type(t)
    IN  CASE n = "STRING_TYPE" -> have_index(f.col)
          [] n = "INT_TYPE"  -> t = "ENUM" => \A i \in 1 .. 2 : EnumConstant(f.vals[i])
          [] n = "TIME_TYPE" -> \A i \in 1 .. 2 : is_valid_time_value(f.col, f.vals[i])
          [] OTHER -> FALSE

\* A string column without an index is only logged as [false], not refused.
is_convertable_in(f) ==
    LET t == TypeOf(FieldType[f.col])
        n == normalize_field_type(t)
    IN  /\ n # "UNSUPPORTED_TYPE"
        /\ \A i \in DOMAIN f.vals :
              CASE n = "INT_TYPE"  -> t = "ENUM" => EnumConstant(f.vals[i])
                [] n = "TIME_TYPE" -> is_valid_time_value(f.col, f.vals[i])
                [] OTHER -> TRUE

BasicConstants(f) == \A i \in DOMAIN f.vals : f.vals[i].kind # "expression"

\* MATCH: every part of the full-text key must have the one encoding.
MatchEncodings(enc) ==
    LET Part(acc, col) == IF ~acc.ok \/ Mixed(acc.enc, col)
                          THEN Answer(FALSE, acc.enc)
                          ELSE Answer(TRUE, IF acc.enc = Empty THEN Charset[col]
                                                               ELSE acc.enc)
    IN  FoldLeft(Part, Answer(TRUE, enc), FullTextKey)

\* is_convertable(Item_func): outside storage mode only MATCH is taken.
is_convertable_func(f, op, enc, storage) ==
    CASE f.functype = "MATCH" -> MatchEncodings(enc)
      [] ~storage -> Answer(FALSE, enc)
      [] f.functype \in {"EQ", "LT", "LE", "GE", "GT"} ->
            IF BasicConstants(f) THEN is_convertable_binary_operation(f, enc)
                                 ELSE Answer(FALSE, enc)
      [] f.functype = "BETWEEN" ->
            Answer(BasicConstants(f) /\ is_convertable_between(f), enc)
      [] f.functype = "IN" ->
            Answer(/\ ~(f.negated /\ op = "OR")
                   /\ BasicConstants(f)
                   /\ is_convertable_in(f), enc)
      [] OTHER -> Answer(FALSE, enc)

RECURSIVE is_convertable_item(_, _, _, _)
is_convertable_cond(c, enc, storage) ==
    LET Sub(acc, item) == IF ~acc.ok THEN acc
                          ELSE is_convertable_item(item, c.functype, acc.enc, storage)
    IN  IF storage /\ c.functype \in {"AND", "OR"}
        THEN FoldLeft(Sub, Answer(TRUE, enc), c.args)
        ELSE Answer(FALSE, enc)
is_convertable_item(item, op, enc, storage) ==
    CASE item.type = "COND" -> is_convertable_cond(item, enc, storage)
      [] item.type = "FUNC" -> is_convertable_func(item, op, enc, storage)
      [] OTHER -> Answer(FALSE, enc)

\* The condition the server offers; the default logical operator is AND.
is_convertable(item, storage) == is_convertable_item(item, "AND", Empty, storage).ok

RECURSIVE count_match_against(_, _)
count_match_against(item, storage) ==
    CASE item.type = "COND" /\ storage /\ item.functype \in {"AND", "OR"} ->
            FoldLeft(LAMBDA n, sub : n + count_match_against(sub, storage), 0, item.args)
      [] item.type = "FUNC" /\ item.functype = "MATCH" -> 1
      [] OTHER -> 0

-----------------------------------------------------------------------------
(***************************************************************************)
(* convert(): the Groonga expression, a program for a stack machine.       *)
(***************************************************************************)

\* Item::val_int() rounds half away from zero.
val_int(c) == IF c.v >= 0 THEN (c.v + 1) \div 2 ELSE -((1 - c.v) \div 2)

\* append_const_item(): the constant as the type of the column.  Of a string
\* it is the bytes, whatever the collation of the column; find_type() yields
\* the position of the member of an ENUM.
append_const_item(col, c) ==
    CASE normalize_field_type(FieldType[col]) = "UNSUPPORTED_TYPE" -> [tok |-> "VOID"]
      [] normalize_field_type(FieldType[col]) = "INT_TYPE" ->
            [tok |-> "PUSH", value |-> val_int(c)]
      [] OTHER -> [tok |-> "PUSH", value |-> c.v \div 2]

append_field_value(col) == [tok |-> "GET_VALUE", col |-> col]
append_op(op, n) == [tok |-> "OP", op |-> op, n |-> n]

Code(ok, code, enc) == [ok |-> ok, code |-> code, enc |-> enc]

AddEncoding(enc, col) == IF IsString(col) /\ enc = Empty THEN Charset[col] ELSE enc

convert_binary_operation(f, enc) ==
    IF IsString(f.col) /\ Mixed(enc, f.col)
    THEN Code(FALSE, <<>>, enc)
    ELSE Code(TRUE, <<append_field_value(f.col), append_const_item(f.col, f.vals[1]),
                      append_op(f.functype, 2)>>, AddEncoding(enc, f.col))

\* The function and the column are pushed before the encoding is checked, and
\* `negated' is not looked at.
convert_between(f, enc) ==
    LET head == <<[tok |-> "FUNCTION"], append_field_value(f.col)>>
    IN  IF IsString(f.col) /\ Mixed(enc, f.col)
        THEN Code(FALSE, head, enc)
        ELSE Code(TRUE, head \o <<append_const_item(f.col, f.vals[1]),
                                  append_const_item(f.col, f.vals[2]),
                                  append_op("CALL between", 4)>>,
                  AddEncoding(enc, f.col))

\* NOT IN is AND NOT; when it comes first it needs something to be ANDed to.
convert_in(f, enc, have_condition) ==
    LET alone == ~have_condition /\ f.negated
        values == [i \in DOMAIN f.vals |-> append_const_item(f.col, f.vals[i])]
    IN  Code(TRUE,
             (IF alone THEN <<[tok |-> "PUSH", value |-> TRUE]>> ELSE <<>>)
             \o <<[tok |-> "FUNCTION"], append_field_value(f.col)>> \o values
             \o <<append_op("CALL in_values", Len(f.vals) + 2)>>
             \o (IF alone THEN <<append_op("AND_NOT", 2)>> ELSE <<>>),
             enc)

convert_full_text_search(f, enc) ==
    Code(TRUE, <<[tok |-> "MATCH"]>>,
         IF enc = Empty THEN Charset[FullTextKey[1]] ELSE enc)

convert_func(f, enc, have_condition) ==
    CASE f.functype \in {"EQ", "LT", "LE", "GE", "GT"} -> convert_binary_operation(f, enc)
      [] f.functype = "BETWEEN" -> convert_between(f, enc)
      [] f.functype = "IN"      -> convert_in(f, enc, have_condition)
      [] f.functype = "MATCH"   -> convert_full_text_search(f, enc)
      [] OTHER -> Code(FALSE, <<>>, enc)

\* The operator that joins the nth sub condition to the ones before it.
Joining(op, item) ==
    IF op = "AND" /\ item.type = "FUNC" /\ item.functype = "IN" /\ item.negated
    THEN "AND_NOT" ELSE op

RECURSIVE convert_cond(_, _)
convert_cond(c, enc) ==
    LET Sub(acc, item) ==
            LET r == IF item.type = "COND" THEN convert_cond(item, acc.enc)
                     ELSE convert_func(item, acc.enc, acc.n > 0)
            IN  [n    |-> IF r.ok THEN acc.n + 1 ELSE acc.n,
                 enc  |-> r.enc,
                 code |-> acc.code \o r.code
                          \o (IF r.ok /\ acc.n > 0
                              THEN <<append_op(Joining(c.functype, item), 2)>>
                              ELSE <<>>)]
        all == FoldLeft(Sub, [n |-> 0, enc |-> enc, code |-> <<>>], c.args)
    IN  Code(all.n > 0, all.code, all.enc)

convert(where) ==
    IF where.type = "COND" THEN convert_cond(where, Empty)
                           ELSE convert_func(where, Empty, FALSE)

-----------------------------------------------------------------------------
(***************************************************************************)
(* Groonga: the evaluation of an expression for a record.                  *)
(***************************************************************************)

Compare(op, x, y) ==
    CASE op = "EQ" -> x = y
      [] op = "LT" -> x < y
      [] op = "LE" -> x <= y
      [] op = "GE" -> x >= y
      [] op = "GT" -> x > y

\* What Groonga compares: the keys of the index, which its normalizer has made,
\* where a search in the index is the answer, and the bytes otherwise.
Seen(op, col, v) ==
    IF op \in {"EQ", "CALL between", "CALL in_values"} /\ col \in Indexed
    THEN Weight(col, v) ELSE v

Apply(op, a) ==    \* a: the operands, in the order in which they were pushed
    LET V(field, v) == Seen(op, field.col, v)
    IN  CASE op = "AND" -> a[1] /\ a[2]
          [] op = "OR"  -> a[1] \/ a[2]
          [] op = "AND_NOT" -> a[1] /\ ~a[2]
          [] op = "CALL between" -> /\ V(a[2], a[3]) <= V(a[2], a[2].value)
                                    /\ V(a[2], a[2].value) <= V(a[2], a[4])
          [] op = "CALL in_values" ->
                \E i \in 3 .. Len(a) : V(a[2], a[2].value) = V(a[2], a[i])
          [] OTHER -> Compare(op, V(a[1], a[1].value), V(a[1], a[2]))

\* The record matches the query of the statement when it has a score.
grn_expr_exec(code, row) ==
    LET Exec(stack, t) ==
            CASE t.tok = "PUSH" -> Append(stack, t.value)
              [] t.tok = "VOID" -> Append(stack, 0)
              [] t.tok = "FUNCTION"  -> Append(stack, 0)
              [] t.tok = "GET_VALUE" -> Append(stack, [col |-> t.col, value |-> row[t.col]])
              [] t.tok = "MATCH" -> Append(stack, row[FullTextKey[1]] > 0)
              [] t.tok = "OP" ->
                    Append(SubSeq(stack, 1, Len(stack) - t.n),
                           Apply(t.op, SubSeq(stack, Len(stack) - t.n + 1, Len(stack))))
    IN  Last(FoldLeft(Exec, <<>>, code))

-----------------------------------------------------------------------------
(***************************************************************************)
(* What SQL says about the condition: strings by their collation.          *)
(***************************************************************************)
Field(item, row) == 2 * Weight(item.col, row[item.col])
Constant(item, i) == IF IsString(item.col)
                     THEN 2 * Weight(item.col, item.vals[i].v \div 2)
                     ELSE item.vals[i].v

RECURSIVE Holds(_, _)
Holds(item, row) ==
    CASE item.type = "COND" /\ item.functype = "AND" ->
            \A i \in DOMAIN item.args : Holds(item.args[i], row)
      [] item.type = "COND" /\ item.functype = "OR" ->
            \E i \in DOMAIN item.args : Holds(item.args[i], row)
      [] item.functype = "MATCH" -> row[FullTextKey[1]] > 0
      [] item.functype = "BETWEEN" ->
            item.negated # (/\ Constant(item, 1) <= Field(item, row)
                            /\ Field(item, row) <= Constant(item, 2))
      [] item.functype = "IN" ->
            item.negated # (\E i \in DOMAIN item.vals : Field(item, row) = Constant(item, i))
      [] OTHER -> Compare(item.functype, Field(item, row), Constant(item, 1))

\* The columns a condition reads.
RECURSIVE ColumnsOf(_)
ColumnsOf(item) ==
    IF item.type = "COND" THEN UNION {ColumnsOf(item.args[i]) : i \in DOMAIN item.args}
    ELSE IF item.functype = "MATCH" THEN {} ELSE {item.col}

\* Where the expression is known not to say what the condition says: a negated
\* BETWEEN, a fraction compared with an integer column, a comparison of a string
\* in an encoding enc other than the first one's (convert() drops it), and one that
\* compares the bytes of strings whose collation has another order: <, <=, >= and
\* > always, IN without an index.
RECURSIVE Plain(_, _)
Plain(item, enc) ==
    IF item.type = "COND"
    THEN \A i \in DOMAIN item.args : Plain(item.args[i], enc)
    ELSE IF item.functype = "MATCH" THEN Charset[FullTextKey[1]] = enc
    ELSE /\ ~(item.functype = "BETWEEN" /\ item.negated)
         /\ \A i \in DOMAIN item.vals : item.vals[i].v % 2 = 0
         /\ IsString(item.col) => Charset[item.col] = enc
         /\ item.col \in Normalized =>
               item.functype \in {"EQ", "BETWEEN", "IN"} /\ have_index(item.col)
=============================================================================
