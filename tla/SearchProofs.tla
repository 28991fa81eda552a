---------------------------- MODULE SearchProofs ----------------------------
(***************************************************************************)
(* Proofs about Search, for any table, any keys of one or several columns, *)
(* any statements and any meaning of WHERE conditions.                     *)
(*                                                                         *)
(*   SearchTypeCorrect  the variables keep their types, and the cursors    *)
(*                      stay on records of the table;                      *)
(*   HandlerStaysClean  a statement leaves nothing behind on the handler;  *)
(*   BufferHoldsRecord  a read call fills the columns the statement uses   *)
(*                      from the record Mroonga is at;                     *)
(*   SkippedAlike       the record count skip leaves in the buffer cannot  *)
(*                      be told by WHERE from the one Mroonga is at;       *)
(*   StatementsEnd      each step leaves less to do.                       *)
(*                                                                         *)
(* None of them but HandlerIsClean is inductive, and they need each other. *)
(* SearchInv says of a statement on its way: which cursors are open and    *)
(* that they hold entries of the plan's key, each record once (CursorInv,  *)
(* CleanInv); that an exact lookup has opened a cursor on rows with these  *)
(* values only, now and after each read (ReachInv); that the buffer then   *)
(* is the row Mroonga is at in the columns in use, or has the values       *)
(* looked up (BufInv); and that COUNT has counted records that are not     *)
(* ahead of it any more (CountInv), for which the ranges of a statement    *)
(* must not overlap (RangesOK).                                            *)
(*                                                                         *)
(* An index only read decodes the index key instead of reading the row:    *)
(* that this is the same is DecodeEncode of CodecProofs, and that a bound  *)
(* made of the first columns of a key admits just the rows with these      *)
(* values (ExactBounds) is a fact about the bytes of encoded keys.         *)
(***************************************************************************)
EXTENDS Search, CodecProofs, FiniteSetTheorems, FunctionTheorems

-----------------------------------------------------------------------------
(* A set in the order of a relation. *)

\* A relation that puts the elements of a set one after the other.
TotalOrder(R, S) ==
    /\ \A x \in S : <<x, x>> \notin R
    /\ \A x, y, z \in S : <<x, y>> \in R /\ <<y, z>> \in R => <<x, z>> \in R
    /\ \A x, y \in S : x # y => <<x, y>> \in R \/ <<y, x>> \in R

\* A sequence without repetitions.
Distinct(s) == \A i, j \in DOMAIN s : s[i] = s[j] => i = j

\* The elements that are before a given one.
Below(S, R, x) == {y \in S : <<y, x>> \in R}

\* More elements are before a greater one.
LEMMA BelowLess ==
    ASSUME NEW S, IsFiniteSet(S), NEW R, TotalOrder(R, S),
           NEW x \in S, NEW y \in S, <<x, y>> \in R
    PROVE  Cardinality(Below(S, R, x)) < Cardinality(Below(S, R, y))
<1>1. Below(S, R, x) \subseteq Below(S, R, y) /\ x \in Below(S, R, y) /\ x \notin Below(S, R, x)
  BY DEF Below, TotalOrder
<1>2. Below(S, R, y) \in SUBSET S  BY DEF Below
<1> HIDE DEF Below
<1>3. IsFiniteSet(Below(S, R, y))  BY <1>2, FS_Subset
<1>4. /\ IsFiniteSet(Below(S, R, x))
      /\ Cardinality(Below(S, R, x)) <= Cardinality(Below(S, R, y))
      /\ Cardinality(Below(S, R, y)) = Cardinality(Below(S, R, x)) => Below(S, R, y) = Below(S, R, x)
  BY <1>1, <1>3, FS_Subset
<1>5. Cardinality(Below(S, R, x)) \in Nat /\ Cardinality(Below(S, R, y)) \in Nat
  BY <1>3, <1>4, FS_CardinalityType
<1> QED  BY <1>1, <1>4, <1>5

\* Each position is taken.
LEMMA RankExists ==
    ASSUME NEW S, IsFiniteSet(S), NEW R, TotalOrder(R, S), NEW k \in 1 .. Cardinality(S)
    PROVE  \E x \in S : Cardinality(Below(S, R, x)) = k - 1
<1> DEFINE m == Cardinality(S)  f == [x \in S |-> Cardinality(Below(S, R, x))]
<1>1. m \in Nat  BY FS_CardinalityType
<1>2. ASSUME NEW x \in S PROVE Cardinality(Below(S, R, x)) \in 0 .. m - 1
  <2>1. Below(S, R, x) \in SUBSET S /\ x \notin Below(S, R, x)  BY DEF Below, TotalOrder
  <2> HIDE DEF Below
  <2>2. /\ IsFiniteSet(Below(S, R, x)) /\ Cardinality(Below(S, R, x)) <= m
        /\ m = Cardinality(Below(S, R, x)) => S = Below(S, R, x)
    BY <2>1, FS_Subset
  <2>3. Cardinality(Below(S, R, x)) \in Nat  BY <2>2, FS_CardinalityType
  <2> QED  BY <1>1, <2>1, <2>2, <2>3
<1>3. f \in [S -> 0 .. m - 1]  BY <1>2
<1>4. ASSUME NEW x \in S, NEW y \in S, f[x] = f[y] PROVE x = y
  <2>1. SUFFICES ASSUME x # y PROVE FALSE  OBVIOUS
  <2>2. <<x, y>> \in R \/ <<y, x>> \in R  BY <2>1 DEF TotalOrder
  <2>3. f[x] < f[y] \/ f[y] < f[x]  BY <2>2, BelowLess
  <2>4. f[x] \in Int /\ f[y] \in Int  BY <1>1, <1>3
  <2> HIDE DEF f
  <2> QED  BY <1>4, <2>3, <2>4
<1> HIDE DEF f
<1>5. f \in Injection(S, 0 .. m - 1)  BY <1>3, <1>4 DEF Injection, IsInjective
<1>6. IsFiniteSet(0 .. m - 1) /\ Cardinality(0 .. m - 1) = m
  <2>1. 0 \in Int /\ m - 1 \in Int  BY <1>1
  <2>2. /\ IsFiniteSet(0 .. m - 1)
        /\ Cardinality(0 .. m - 1) = IF 0 > m - 1 THEN 0 ELSE (m - 1) - 0 + 1
    BY <2>1, FS_Interval
  <2> QED  BY <1>1, <2>2
<1>7. f \in Surjection(S, 0 .. m - 1)  BY <1>5, <1>6, FS_Injection
<1>8. k - 1 \in 0 .. m - 1  BY <1>1
<1>9. \E x \in S : f[x] = k - 1  BY <1>7, <1>8 DEF Surjection
<1> QED  BY <1>9 DEF f

\* Ranked() yields a sequence of elements of the set, without repetitions.
LEMMA RankedIs ==
    ASSUME NEW S, IsFiniteSet(S), NEW R, TotalOrder(R, S)
    PROVE  /\ Cardinality(S) \in Nat
           /\ Ranked(S, R) \in [1 .. Cardinality(S) -> S]
           /\ Ranked(S, R) \in Seq(S) /\ Len(Ranked(S, R)) = Cardinality(S)
           /\ Distinct(Ranked(S, R))
<1> DEFINE m == Cardinality(S)  s == Ranked(S, R)
<1>1. m \in Nat  BY FS_CardinalityType
<1>2. s = [i \in 1 .. m |-> CHOOSE x \in S : Cardinality(Below(S, R, x)) = i - 1]
  BY DEF Ranked, Below
<1>3. ASSUME NEW i \in 1 .. m PROVE s[i] \in S /\ Cardinality(Below(S, R, s[i])) = i - 1
  <2>1. s[i] = CHOOSE x \in S : Cardinality(Below(S, R, x)) = i - 1  BY <1>2
  <2>2. \E x \in S : Cardinality(Below(S, R, x)) = i - 1  BY RankExists
  <2> QED  BY <2>1, <2>2
<1>4. s \in [1 .. m -> S]  BY <1>2, <1>3
<1> HIDE DEF s
<1>5. s \in Seq(S) /\ Len(s) = m  BY <1>1, <1>4
<1>6. Distinct(s)
  <2>1. SUFFICES ASSUME NEW i \in 1 .. m, NEW j \in 1 .. m, s[i] = s[j] PROVE i = j
    BY <1>4 DEF Distinct
  <2>2. i - 1 = j - 1  BY <1>3, <2>1
  <2> QED  BY <2>2
<1> QED  BY <1>1, <1>4, <1>5, <1>6 DEF s

\* A sequence without repetitions is no longer than the set is large.
LEMMA DistinctLen ==
    ASSUME NEW S, IsFiniteSet(S), NEW s \in Seq(S), Distinct(s)
    PROVE  Len(s) \in Nat /\ Cardinality(S) \in Nat /\ Len(s) <= Cardinality(S)
<1>1. Len(s) \in Nat /\ s \in [1 .. Len(s) -> S] /\ Cardinality(S) \in Nat  BY FS_CardinalityType
<1>2. s \in Injection(1 .. Len(s), S)  BY <1>1 DEF Distinct, Injection, IsInjective
<1>3. Cardinality(1 .. Len(s)) <= Cardinality(S)  BY <1>2, FS_Injection
<1>4. Cardinality(1 .. Len(s)) = IF 1 > Len(s) THEN 0 ELSE Len(s) - 1 + 1
  <2>1. 1 \in Int /\ Len(s) \in Int  BY <1>1
  <2> QED  BY <2>1, FS_Interval
<1> QED  BY <1>1, <1>3, <1>4

-----------------------------------------------------------------------------
(* Rows, and the values of a row as the key of an index. *)

\* A table is finite, and its rows hold what the columns can store.
LEMMA TableFacts ==
    ASSUME NEW t \in Tables
    PROVE  /\ IsFiniteSet(DOMAIN t) /\ Cardinality(DOMAIN t) \in Nat
           /\ DOMAIN t \subseteq Int /\ NIL \notin DOMAIN t
           /\ \A id \in DOMAIN t :
                 /\ t[id] \in [Columns -> Int]
                 /\ \A c \in Columns : t[id][c] \in Int /\ Storable(c, t[id][c])
BY TableAssumption, FS_CardinalityType

\* The weight of a value is a value of the column, and that of the empty string
\* only is the empty string; other columns have no collation.
LEMMA WeightIs ==
    ASSUME NEW c \in Columns, NEW v \in Int, Storable(c, v)
    PROVE  /\ Weight(c, v) \in Int /\ Storable(c, Weight(c, v))
           /\ v = 0 => Weight(c, v) = 0
           /\ ~IsString(c) \/ c = FullText => Weight(c, v) = v
<1>1. CASE c \in Normalized
  <2>1. IsString(c) /\ v \in 0 .. MaxByte  BY <1>1, CollationAssumption DEF Storable
  <2>2. /\ Weight(c, v) \in 0 .. MaxByte /\ (v = 0 => Weight(c, v) = 0)
        /\ c = FullText => Weight(c, v) = v
    BY <1>1, <2>1, CollationAssumption
  <2>3. Weight(c, v) \in Int
    <3>1. \A x \in 0 .. MaxByte : x \in Int  OBVIOUS
    <3> QED  BY <2>2, <3>1
  <2>4. Storable(c, Weight(c, v))  BY <2>1, <2>2, <2>3 DEF Storable
  <2> QED  BY <2>1, <2>2, <2>3, <2>4
<1>2. CASE c \notin Normalized  BY <1>2 DEF Weight
<1> QED  BY <1>1, <1>2

\* A key has columns.
LEMMA KeyFacts ==
    ASSUME NEW key \in DOMAIN KeyColumns
    PROVE  /\ Len(KeyColumns[key]) \in Nat \ {0}
           /\ DOMAIN KeyColumns[key] = 1 .. Len(KeyColumns[key])
           /\ 1 \in DOMAIN KeyColumns[key]
           /\ \A i \in DOMAIN KeyColumns[key] : KeyColumns[key][i] \in Columns
<1>1. KeyColumns[key] \in Seq(Columns) /\ KeyColumns[key] # <<>>  BY KeyAssumption
<1> QED  BY <1>1

\* A value of a column of a key over several columns is one that its part holds.
LEMMA CodecValueIs ==
    ASSUME NEW c \in CodedColumns, NEW v, Storable(c, v)
    PROVE  IsPart(PartInfo[c]) /\ IsPartValue(PartInfo[c], CodecValue(c, v))
<1> DEFINE p == PartInfo[c]
<1>1. IsPart(p) /\ p.type \notin {"FLOAT", "DOUBLE"} /\ (p.type = "BYTE_BLOB" <=> IsString(c))
  BY KeyAssumption
<1>2. v \in Int /\ (IsString(c) => v \in 0 .. MaxByte) /\ (~IsString(c) => v \in PartRange(p))
  BY DEF Storable
<1>3. CASE IsString(c)
  <2>1. CodecValue(c, v) = <<>> \/ CodecValue(c, v) = <<v>>  BY <1>3 DEF CodecValue, GrnKey
  <2>2. p.size \in Nat \ {0} /\ p.type = "BYTE_BLOB"  BY <1>1, <1>3 DEF IsPart
  <2>3. Base ^ BlobLength \in Nat /\ Base ^ BlobLength > 1
    <3>1. BlobLength - 1 \in 0 .. 7 /\ BlobLength - 1 \in 0 .. 8 /\ (BlobLength - 1) + 1 = BlobLength
      BY BlobAssumption
    <3>2. Base ^ BlobLength = Base * Base ^ (BlobLength - 1)  BY <3>1, PowerStep
    <3>3. PICK q \in Nat \ {0} : q = Base ^ (BlobLength - 1)  BY <3>1, PowerNat
    <3>4. Base \in Nat /\ Base >= 2  BY BaseFacts
    <3>5. Base * q \in Nat /\ Base * q > 1  BY <3>4
    <3> QED  BY <3>2, <3>3, <3>5
  <2>4. v \in Byte /\ <<v>> \in Seq(Byte) /\ Len(<<v>>) = 1 /\ <<>> \in Seq(Byte) /\ Len(<<>>) = 0
    BY <1>2, <1>3 DEF Byte
  <2>5. <<>> # Null /\ <<v>> # Null
    <3>1. <<>> \in Seq(Int) /\ <<v>> \in Seq(Int)  BY <1>2
    <3> QED  BY <3>1, NullAssumption
  <2>6. /\ <<>> # Null /\ <<>> \in Seq(Byte) /\ Len(<<>>) <= p.size /\ Len(<<>>) < Base ^ BlobLength
        /\ <<v>> # Null /\ <<v>> \in Seq(Byte) /\ Len(<<v>>) <= p.size /\ Len(<<v>>) < Base ^ BlobLength
    <3> DEFINE m == Base ^ BlobLength  k == p.size
    <3>1. m \in Nat /\ m > 1 /\ k \in Nat \ {0}  BY <2>2, <2>3
    <3> HIDE DEF m, k, p
    <3>2. 0 <= k /\ 0 < m /\ 1 <= k /\ 1 < m  BY <3>1
    <3> QED  BY <2>4, <2>5, <3>2 DEF m, k
  <2> HIDE DEF p
  <2>7. IsPartValue(p, CodecValue(c, v))  BY <2>1, <2>2, <2>6 DEF IsPartValue
  <2> QED  BY <1>1, <2>7 DEF p
<1>4. CASE ~IsString(c)
  <2>1. CodecValue(c, v) = v  BY <1>4 DEF CodecValue
  <2>2. v # Null  BY <1>2, NullAssumption
  <2> QED  BY <1>1, <1>2, <1>4, <2>1, <2>2 DEF IsPartValue
<1> QED  BY <1>3, <1>4

\* Different values are different in the key.
LEMMA CodecValueSame ==
    ASSUME NEW c, NEW v \in Int, NEW w \in Int, CodecValue(c, v) = CodecValue(c, w)
    PROVE  v = w
<1>1. CASE IsString(c)
  <2>1. /\ CodecValue(c, v) = IF v = 0 THEN <<>> ELSE <<v>>
        /\ CodecValue(c, w) = IF w = 0 THEN <<>> ELSE <<w>>
    BY <1>1 DEF CodecValue, GrnKey
  <2>2. \A x, y : <<>> # <<x>> /\ (<<x>> = <<y>> => x = y)  OBVIOUS
  <2> QED  BY <2>1, <2>2
<1>2. CASE ~IsString(c)  BY <1>2 DEF CodecValue
<1> QED  BY <1>1, <1>2

\* The values of the first m columns of a key.
KeyValues(key, vals, m) ==
    /\ DOMAIN vals = 1 .. m /\ m \in 1 .. Len(KeyColumns[key])
    /\ \A i \in 1 .. m : vals[i] \in Int /\ Storable(KeyColumns[key][i], vals[i])

\* They can be encoded.
LEMMA CodecValuesAre ==
    ASSUME NEW key \in DOMAIN KeyColumns, IsMulti(key), NEW vals, NEW m, KeyValues(key, vals, m)
    PROVE  /\ IsKey(Parts(key), Len(KeyColumns[key]), CodecValues(key, vals), m)
           /\ \A i \in 1 .. m : CodecValues(key, vals)[i] = CodecValue(KeyColumns[key][i], vals[i])
<1> DEFINE len == Len(KeyColumns[key])  k == CodecValues(key, vals)
<1>1. len \in Nat \ {0} /\ DOMAIN KeyColumns[key] = 1 .. len  BY KeyFacts
<1>2. m \in 1 .. len /\ DOMAIN vals = 1 .. m
      /\ \A i \in 1 .. m : i \in 1 .. len /\ Storable(KeyColumns[key][i], vals[i])
  BY <1>1 DEF KeyValues
<1>3. \A i \in 1 .. len : KeyColumns[key][i] \in CodedColumns  BY <1>1 DEF CodedColumns
<1>4. k = [i \in 1 .. m |-> CodecValue(KeyColumns[key][i], vals[i])]  BY <1>2 DEF CodecValues
<1>5. Parts(key) = [i \in 1 .. len |-> PartInfo[KeyColumns[key][i]]]  BY <1>1 DEF Parts
<1> HIDE DEF k, len
<1>6. ASSUME NEW i \in 1 .. len PROVE IsPart(Parts(key)[i])
  <2>1. KeyColumns[key][i] \in CodedColumns /\ Parts(key)[i] = PartInfo[KeyColumns[key][i]]
    BY <1>3, <1>5
  <2> QED  BY <2>1, KeyAssumption
<1>7. ASSUME NEW i \in 1 .. m PROVE IsPartValue(Parts(key)[i], k[i])
  <2>1. i \in 1 .. len /\ Storable(KeyColumns[key][i], vals[i])  BY <1>2
  <2>2. KeyColumns[key][i] \in CodedColumns /\ Parts(key)[i] = PartInfo[KeyColumns[key][i]]
        /\ k[i] = CodecValue(KeyColumns[key][i], vals[i])
    BY <1>3, <1>4, <1>5, <2>1
  <2> QED  BY <2>1, <2>2, CodecValueIs
<1>8. DOMAIN Parts(key) = 1 .. len /\ DOMAIN k = 1 .. m  BY <1>4, <1>5
<1>9. IsKey(Parts(key), len, k, m)  BY <1>1, <1>2, <1>6, <1>7, <1>8 DEF IsKey
<1> QED  BY <1>4, <1>9 DEF k, len

\* The values of a row are such values.
LEMMA RowValues ==
    ASSUME NEW key \in DOMAIN KeyColumns, NEW t \in Tables, NEW id \in DOMAIN t
    PROVE  /\ KeyValues(key, ValuesOf(key, t[id]), Len(KeyColumns[key]))
           /\ \A i \in 1 .. Len(KeyColumns[key]) :
                 ValuesOf(key, t[id])[i] = Weight(KeyColumns[key][i], t[id][KeyColumns[key][i]])
<1> DEFINE len == Len(KeyColumns[key])
<1>1. len \in Nat \ {0} /\ DOMAIN KeyColumns[key] = 1 .. len /\ \A i \in 1 .. len : KeyColumns[key][i] \in Columns
  BY KeyFacts
<1> DEFINE W(i) == Weight(KeyColumns[key][i], t[id][KeyColumns[key][i]])
<1>2. ValuesOf(key, t[id]) = [i \in 1 .. len |-> W(i)]  BY <1>1 DEF ValuesOf
<1>3. len \in 1 .. len  BY <1>1
<1>4. \A i \in 1 .. len : W(i) \in Int /\ Storable(KeyColumns[key][i], W(i))
  BY <1>1, TableFacts, WeightIs
<1> HIDE DEF W
<1>5. \A i \in 1 .. len : ValuesOf(key, t[id])[i] = W(i)  BY <1>2
<1> HIDE DEF len
<1> QED  BY <1>2, <1>3, <1>4, <1>5 DEF KeyValues, len, W

\* The key of a record is a sequence of bytes.
LEMMA IndexKeyIs ==
    ASSUME NEW key \in DOMAIN KeyColumns, NEW t \in Tables, NEW id \in DOMAIN t
    PROVE  IndexKey(key, t[id]) \in Seq(Int)
<1> DEFINE vals == ValuesOf(key, t[id])  len == Len(KeyColumns[key])
<1>1. KeyValues(key, vals, len)  BY RowValues
<1>2. len \in Nat \ {0}  BY KeyFacts
<1>3. CASE IsMulti(key)
  <2>1. IsKey(Parts(key), len, CodecValues(key, vals), len)  BY <1>1, <1>3, CodecValuesAre
  <2>2. encode(Parts(key), CodecValues(key, vals)) \in Seq(Byte)  BY <2>1, EncodeIs
  <2>3. encode(Parts(key), CodecValues(key, vals)) \in Seq(Int)  BY <2>2, BytesAre
  <2> QED  BY <1>3, <2>3 DEF IndexKey, EncodeKey
<1>4. CASE ~IsMulti(key)
  <2>1. vals[1] \in Int
    <3>1. 1 \in 1 .. len  BY <1>2
    <3> QED  BY <1>1, <3>1 DEF KeyValues
  <2>2. IndexKey(key, t[id]) = GrnKey(KeyColumns[key][1], vals[1])  BY <1>4 DEF IndexKey, EncodeKey
  <2>3. <<>> \in Seq(Int) /\ \A v \in Int : <<v>> \in Seq(Int)  OBVIOUS
  <2> QED  BY <2>1, <2>2, <2>3 DEF GrnKey
<1> QED  BY <1>3, <1>4

\* The rows a lookup is for: those whose first columns have the values, or are the
\* same in the collation.
Like(key, vals, row) ==
    \A i \in DOMAIN vals : Weight(KeyColumns[key][i], row[KeyColumns[key][i]]) = vals[i]

\* Where storage_index_read_map() looks for an exact value, it finds such rows.
LEMMA ExactBounds ==
    ASSUME NEW key \in DOMAIN KeyColumns, NEW t \in Tables, NEW id \in DOMAIN t,
           NEW vals, NEW m, KeyValues(key, vals, m),
           NEW b, b = Bounds(key, vals, "KEY_EXACT"), b.min # <<>>, b.max # <<>>,
           ByteLeq(b.min, IndexKey(key, t[id])), ByteLeq(IndexKey(key, t[id]), b.max)
    PROVE  Like(key, vals, t[id])
<1> DEFINE len == Len(KeyColumns[key])  w == ValuesOf(key, t[id])  k == IndexKey(key, t[id])
<1>1. len \in Nat \ {0} /\ m \in 1 .. len /\ DOMAIN vals = 1 .. m /\ \A i \in 1 .. m : vals[i] \in Int
  BY KeyFacts DEF KeyValues
<1>2. /\ KeyValues(key, w, len)
      /\ \A i \in 1 .. len : w[i] = Weight(KeyColumns[key][i], t[id][KeyColumns[key][i]]) /\ w[i] \in Int
  BY RowValues DEF KeyValues
<1>3. k \in Seq(Int)  BY IndexKeyIs
<1>4. SUFFICES \A i \in 1 .. m : w[i] = vals[i]
  <2>1. \A i \in 1 .. m : i \in 1 .. len  BY <1>1
  <2> QED  BY <1>1, <1>2, <2>1 DEF Like
<1> HIDE DEF w, len
<1>5. CASE IsMulti(key)
  <2> DEFINE p == Parts(key)  cv == CodecValues(key, vals)  cw == CodecValues(key, w)
  <2>1. IsKey(p, len, cv, m) /\ \A i \in 1 .. m : cv[i] = CodecValue(KeyColumns[key][i], vals[i])
    BY <1>5, CodecValuesAre DEF len
  <2>2. IsKey(p, len, cw, len) /\ \A i \in 1 .. len : cw[i] = CodecValue(KeyColumns[key][i], w[i])
    BY <1>2, <1>5, CodecValuesAre DEF len
  <2>3. k = encode(p, cw)  BY <1>5 DEF IndexKey, EncodeKey, w
  <2>4. \A i \in 1 .. m : cw[i] = cv[i]
    <3>1. CASE m = len
      <4>1. Len(vals) = len  BY <1>1, <3>1
      <4>2. b = [min |-> encode(p, cv), max |-> encode(p, cv)]
        BY <1>5, <4>1 DEF Bounds, WholeKeyBounds, EncodeKey, len
      <4>3. encode(p, cv) = k
        <5>1. encode(p, cv) \in Seq(Int)
          <6>1. encode(p, cv) \in Seq(Byte)  BY <2>1, EncodeIs
          <6> QED  BY <6>1, BytesAre
        <5>2. ByteLeq(encode(p, cv), k) /\ ByteLeq(k, encode(p, cv))  BY <4>2
        <5> HIDE DEF p, cv, k
        <5> QED  BY <1>3, <5>1, <5>2, ByteAsymmetric DEF ByteLeq
      <4>4. \A j \in 1 .. Len(encode(p, cv)) : encode(p, cw)[j] = encode(p, cv)[j]
        BY <2>3, <4>3
      <4> HIDE DEF p, cv, cw
      <4> QED  BY <2>1, <2>2, <4>4, SameBytes
    <3>2. CASE m # len
      <4>1. Len(vals) = m /\ Len(vals) # len  BY <1>1, <3>2
      <4>2. b = [min |-> LeastKey(p, cv), max |-> GreatestKey(p, cv)]
        BY <1>5, <4>1 DEF Bounds, PartKeyBounds, len
      <4>3. ByteLeq(LeastKey(p, cv), encode(p, cw)) /\ ByteLeq(encode(p, cw), GreatestKey(p, cv))
        BY <2>3, <4>2
      <4> HIDE DEF p, cv, cw
      <4> QED  BY <2>1, <2>2, <4>3, BetweenKeys
    <3> QED  BY <3>1, <3>2
  <2>5. TAKE i \in 1 .. m
  <2>6. i \in 1 .. len  BY <1>1
  <2>7. CodecValue(KeyColumns[key][i], w[i]) = CodecValue(KeyColumns[key][i], vals[i])
    BY <2>1, <2>2, <2>4, <2>6
  <2> QED  BY <1>1, <1>2, <2>6, <2>7, CodecValueSame
<1>6. CASE ~IsMulti(key)
  <2>1. len = 1 /\ m = 1
    <3>1. ~(len > 1)  BY <1>6 DEF IsMulti, len
    <3> QED  BY <1>1, <3>1
  <2> DEFINE c == KeyColumns[key][1]  x == vals[1]  y == w[1]
  <2>2. b = [min |-> GrnKey(c, x), max |-> GrnKey(c, x)]
    BY <1>6 DEF Bounds, SingleKeyBounds, EncodeKey
  <2>3. k = GrnKey(c, y)  BY <1>6 DEF IndexKey, EncodeKey, w
  <2>4. x \in Int /\ y \in Int  BY <1>1, <1>2, <2>1
  <2>5. GrnKey(c, x) \in Seq(Int)
    <3>1. <<>> \in Seq(Int) /\ <<x>> \in Seq(Int)  BY <2>4
    <3> QED  BY <3>1 DEF GrnKey
  <2>6. ByteLeq(GrnKey(c, x), k) /\ ByteLeq(k, GrnKey(c, x))  BY <2>2
  <2>7. GrnKey(c, x) = k
    <3> HIDE DEF k, c, x
    <3> QED  BY <1>3, <2>5, <2>6, ByteAsymmetric DEF ByteLeq
  <2>8. x = y
    <3>1. GrnKey(c, x) = GrnKey(c, y)  BY <2>3, <2>7
    <3>2. /\ GrnKey(c, x) = IF IsString(c) /\ x = 0 THEN <<>> ELSE <<x>>
          /\ GrnKey(c, y) = IF IsString(c) /\ y = 0 THEN <<>> ELSE <<y>>
      BY DEF GrnKey
    <3>3. \A u, v : <<>> # <<u>> /\ (<<u>> = <<v>> => u = v)  OBVIOUS
    <3> HIDE DEF x, y, c
    <3> QED  BY <3>1, <3>2, <3>3
  <2> QED  BY <2>1, <2>8
<1> QED  BY <1>5, <1>6

-----------------------------------------------------------------------------
(* The inductive invariant. *)

\* Some entries of an index of table t, each of its own record.
CursorOf(t, key, c) ==
    /\ c \in Seq([id : DOMAIN t, key : Seq(Int)])
    /\ \A i \in DOMAIN c : c[i].key = IndexKey(key, t[c[i].id])
    /\ \A i, j \in DOMAIN c : c[i].id = c[j].id => i = j

\* Some records of table t, each once.
ListOf(t, s) == s \in Seq(DOMAIN t) /\ Distinct(s)

\* The records the open cursor still has.
OpenIds(rc, c, e) ==
    IF rc # None THEN {rc[i] : i \in DOMAIN rc}
    ELSE IF c # None THEN {c[i].id : i \in DOMAIN c}
    ELSE IF e # None THEN {e[i] : i \in DOMAIN e} ELSE {}

\* The ranges of an index read, and the records that a read of one may deliver.
RangeFlags == {"KEY_EXACT", "KEY_OR_NEXT", "AFTER_KEY", "BEFORE_KEY"}
KeyRanges == [min : Seq(Int), minflag : RangeFlags, max : Seq(Int), maxflag : RangeFlags]

Apart(r, s) ==
    /\ IsExact(r) /\ IsExact(s) /\ Len(r.min) = Len(s.min)
    /\ \E k \in 1 .. Len(r.min) : r.min[k] # s.min[k]

RangesOK(key, rs) ==
    /\ rs \in Seq(KeyRanges)
    /\ \A i \in 1 .. Len(rs) : IsExact(rs[i]) => KeyValues(key, rs[i].min, Len(rs[i].min))
    /\ \A i, j \in 1 .. Len(rs) : i # j => Apart(rs[i], rs[j])

Reach(t, key, r) == IF IsExact(r) THEN {id \in DOMAIN t : Like(key, r.min, t[id])} ELSE DOMAIN t

\* The access paths the server may take.
ByIndex(p) == p.access \in {"ref", "range", "index"}
PlanOK(q, p) ==
    /\ p.access \in {"scan", "ft", "ref", "range", "index"}
    /\ p.access \in {"scan", "ft"} => p.ranges = <<>>
    /\ p.access = "ft" => p.key = "ft"
    /\ ByIndex(p) => p.key \in RangeKeys /\ RangesOK(p.key, p.ranges) /\ p.ranges # <<>>
    /\ q.count => ~p.desc /\ p.access # "index"
    /\ p.access \in {"ref", "range"} =>
          q.where # NoWhere /\ q.where.functype # "MATCH"

Phases == {"idle", "push", "init", "first", "next", "end", "sort", "fetch", "reset", "answered"}

TypeInv ==
    /\ table \in Tables
    /\ phase \in Phases
    /\ phase # "idle" => query \in Statements /\ PlanOK(query, plan)
    /\ phase = "idle" => query = NoQuery
    /\ pushed_cond \in {NoWhere, query.where}
    /\ record_id \in Ids \cup {NIL}
    /\ active_index \in DOMAIN KeyColumns \cup {None}
    /\ buf \in Rows
    /\ pending \in Seq([ref : Ids, key : Int])

TodoInv ==
    /\ todo \in Seq(KeyRanges)
    /\ phase \notin {"idle", "answered"} /\ ByIndex(plan) => RangesOK(plan.key, todo) /\ todo # <<>>
    /\ phase \notin {"idle", "answered"} /\ ~ByIndex(plan) => todo = <<>>

CursorInv ==
    /\ cursor # None => \E key \in DOMAIN KeyColumns : CursorOf(table, key, cursor)
    /\ result_cursor # None => ListOf(table, result_cursor)
    /\ empty_cursor # None => ListOf(table, empty_cursor)
    /\ phase = "next" /\ plan.access = "ft" => ListOf(table, ft)
    /\ phase = "next" /\ ByIndex(plan) /\ cursor # None => CursorOf(table, plan.key, cursor)

CleanInv ==
    /\ phase \in {"idle", "push", "init", "answered"} =>
          /\ cursor = None /\ result_cursor = None /\ empty_cursor = None /\ ft = None
          /\ ~ignoring_no_key_columns
    /\ phase \in {"idle", "push", "answered"} => pushed_cond = NoWhere
    /\ phase = "first" => plan.access # "scan"
    /\ phase \in {"first", "next"} /\ plan.access # "scan" =>
          result_cursor = None /\ active_index = plan.key
    /\ ignoring_no_key_columns =>
          /\ phase \in {"first", "next", "end", "reset"} /\ ByIndex(plan)
          /\ HasKeyRead(plan.key, UsedColumns(query)) /\ ~Filesort

\* The columns of a key.
KeyHas(key, c) == \E i \in DOMAIN KeyColumns[key] : KeyColumns[key][i] = c

\* The columns that the statement or its key use are those of the record; or they
\* are not read any more, and the buffer has the values that the lookup fixes.
SameUsed ==
    \A c \in Columns : c \in UsedColumns(query) \/ KeyHas(plan.key, c) =>
                          buf[c] = table[record_id][c]
SkipsBuffer ==
    count_skip /\ ~plan.desc /\ IsExact(Head(todo)) /\ Like(plan.key, Head(todo).min, buf)
BufInv ==
    /\ phase = "next" /\ ByIndex(plan) => record_id # NIL /\ (SameUsed \/ SkipsBuffer)
    /\ phase = "next" /\ ByIndex(plan) /\ ~plan.desc /\ IsExact(Head(todo)) /\ count_skip =>
          check_count_skip(Len(Head(todo).min))
    /\ phase = "next" /\ plan.access = "ft" /\ record_id # NIL =>
          \A c \in Columns : buf[c] = table[record_id][c]

\* A lookup of exact values has opened a cursor on rows with these values.
ReachInv ==
    phase = "next" /\ ByIndex(plan) /\ ~plan.desc =>
        /\ OpenIds(result_cursor, cursor, empty_cursor) \subseteq Reach(table, plan.key, Head(todo))
        /\ record_id \in Reach(table, plan.key, Head(todo))

\* The records a COUNT has still before it.
RangesAhead(k) == UNION {Reach(table, plan.key, todo[i]) : i \in k .. Len(todo)}
Ahead ==
    IF phase \in {"push", "init"} \/ (phase = "first" /\ plan.access = "ft") THEN Ids
    ELSE IF phase = "first" THEN RangesAhead(1)
    ELSE IF phase = "next" /\ plan.access = "ft" THEN {ft[i] : i \in DOMAIN ft}
    ELSE IF phase = "next" /\ plan.access = "scan" THEN OpenIds(result_cursor, cursor, empty_cursor)
    ELSE IF phase = "next" THEN OpenIds(result_cursor, cursor, empty_cursor) \cup RangesAhead(2)
    ELSE {}
CountInv ==
    IF query.count THEN \E C \in SUBSET Ids : n = Cardinality(C) /\ C \cap Ahead = {} ELSE n = 0

SearchInv ==
    /\ TypeInv /\ TodoInv /\ CursorInv /\ CleanInv
    /\ BufInv /\ ReachInv /\ CountInv

-----------------------------------------------------------------------------
(* Lists of records, and cursors. *)

\* No cursor is open: it is not an empty one either.
LEMMA NoneIs ==
    ASSUME NEW t \in Tables
    PROVE  /\ \A s : ListOf(t, s) => s # None /\ s \in Seq(Int)
           /\ \A key, c : CursorOf(t, key, c) => c # None
<1>1. DOMAIN t \subseteq Int  BY TableFacts
<1>2. Seq(DOMAIN t) \subseteq Seq(Int)  BY <1>1
<1>3. Seq([id : DOMAIN t, key : Seq(Int)]) \subseteq Seq([id : Int, key : Seq(Int)])
  <2> DEFINE K == Seq(Int)
  <2> HIDE DEF K
  <2> DEFINE S == [id : DOMAIN t, key : K]  T == [id : Int, key : K]
  <2>1. S \subseteq T  BY <1>1
  <2> HIDE DEF S, T
  <2>2. Seq(S) \subseteq Seq(T)  BY <2>1
  <2> QED  BY <2>2 DEF K, S, T
<1> QED  BY <1>2, <1>3, NullAssumption DEF ListOf, CursorOf

\* A part of a list of numbers in their order.
LEMMA NumbersInOrder ==
    ASSUME NEW S \in SUBSET Int, IsFiniteSet(S)
    PROVE  /\ InNumberOrder(S) \in Seq(S) /\ Distinct(InNumberOrder(S))
           /\ Len(InNumberOrder(S)) = Cardinality(S)
<1> DEFINE R == {p \in S \X S : p[1] < p[2]}
<1>1. TotalOrder(R, S)
  <2>1. \A x, y : <<x, y>> \in R <=> x \in S /\ y \in S /\ x < y  OBVIOUS
  <2>2. \A x \in S : x \in Int  OBVIOUS
  <2> HIDE DEF R
  <2> QED  BY <2>1, <2>2 DEF TotalOrder
<1> QED  BY <1>1, RankedIs DEF InNumberOrder

\* The records of a set in the order of their ids are a list of records.
LEMMA IdsInOrder ==
    ASSUME NEW t \in Tables, NEW S \in SUBSET DOMAIN t
    PROVE  ListOf(t, InIdOrder(S)) /\ InIdOrder(S) \in Seq(S)
<1>1. IsFiniteSet(S) /\ S \in SUBSET Int  BY TableFacts, FS_Subset
<1>2. InIdOrder(S) \in Seq(S) /\ Distinct(InIdOrder(S))  BY <1>1, NumbersInOrder DEF InIdOrder
<1>3. Seq(S) \subseteq Seq(DOMAIN t)  OBVIOUS
<1> QED  BY <1>2, <1>3 DEF ListOf

\* The result of a search, sorted.
LEMMA IdsSorted ==
    ASSUME table \in Tables, NEW S \in SUBSET Ids, NEW order, order.col \in Columns
    PROVE  ListOf(table, Sorted(S, order))
<1> DEFINE x(i) == table[i][order.col]
           R == {p \in S \X S : \/ SortBefore(order, p[1], p[2])
                                \/ ~SortBefore(order, p[2], p[1]) /\ p[1] < p[2]}
<1>1. IsFiniteSet(S) /\ \A i \in S : i \in Int /\ x(i) \in Int  BY TableFacts, FS_Subset DEF Ids
<1>2. \A i, j : SortBefore(order, i, j) <=> IF order.desc THEN x(i) > x(j) ELSE x(i) < x(j)
  BY DEF SortBefore
<1>3. TotalOrder(R, S)
  <2>1. \A i, j : <<i, j>> \in R <=> /\ i \in S /\ j \in S
                                     /\ \/ SortBefore(order, i, j)
                                        \/ ~SortBefore(order, j, i) /\ i < j
    OBVIOUS
  <2> HIDE DEF R
  <2>2. CASE order.desc
    <3>1. \A i, j : <<i, j>> \in R <=> i \in S /\ j \in S /\ (x(i) > x(j) \/ (~(x(j) > x(i)) /\ i < j))
      BY <1>2, <2>1, <2>2
    <3> HIDE DEF x
    <3> QED  BY <1>1, <3>1 DEF TotalOrder
  <2>3. CASE ~order.desc
    <3>1. \A i, j : <<i, j>> \in R <=> i \in S /\ j \in S /\ (x(i) < x(j) \/ (~(x(j) < x(i)) /\ i < j))
      BY <1>2, <2>1, <2>3
    <3> HIDE DEF x
    <3> QED  BY <1>1, <3>1 DEF TotalOrder
  <2> QED  BY <2>2, <2>3
<1>4. Sorted(S, order) = Ranked(S, R)  BY DEF Sorted
<1>5. Sorted(S, order) \in Seq(S) /\ Distinct(Sorted(S, order))  BY <1>1, <1>3, <1>4, RankedIs
<1>6. Seq(S) \subseteq Seq(DOMAIN table)  BY DEF Ids
<1> QED  BY <1>5, <1>6 DEF ListOf

\* ... and cut.
LEMMA ListCut ==
    ASSUME NEW t, NEW s, ListOf(t, s), NEW limit \in Nat
    PROVE  ListOf(t, Cut(s, limit))
<1> DEFINE k == IF limit < Len(s) THEN limit ELSE Len(s)  u == Cut(s, limit)
<1>1. s \in Seq(DOMAIN t) /\ Len(s) \in Nat /\ Distinct(s)  BY DEF ListOf
<1>2. k \in Nat /\ k <= Len(s)  BY <1>1
<1>3. u = SubSeq(s, 1, k)  BY DEF Cut
<1> HIDE DEF k, u
<1>4. u \in Seq(DOMAIN t) /\ DOMAIN u = 1 .. k /\ \A i \in 1 .. k : u[i] = s[i]
  BY <1>1, <1>2, <1>3
<1>5. \A i \in 1 .. k : i \in DOMAIN s  BY <1>1, <1>2
<1>6. Distinct(u)  BY <1>1, <1>4, <1>5 DEF Distinct
<1> QED  BY <1>4, <1>6 DEF ListOf, u

\* The list after its first record.
LEMMA ListTail ==
    ASSUME NEW t, NEW s, ListOf(t, s), s # <<>>
    PROVE  /\ ListOf(t, Tail(s)) /\ Head(s) \in DOMAIN t /\ Len(s) \in Nat \ {0}
           /\ Len(Tail(s)) = Len(s) - 1
           /\ Head(s) \in {s[i] : i \in DOMAIN s}
           /\ {Tail(s)[i] : i \in DOMAIN Tail(s)} = {s[i] : i \in DOMAIN s} \ {Head(s)}
<1>1. s \in Seq(DOMAIN t) /\ Len(s) \in Nat \ {0} /\ DOMAIN s = 1 .. Len(s)  BY DEF ListOf
<1>2. \A i, j \in 1 .. Len(s) : s[i] = s[j] => i = j  BY <1>1 DEF ListOf, Distinct
<1>3. /\ Tail(s) \in Seq(DOMAIN t) /\ Len(Tail(s)) = Len(s) - 1 /\ Head(s) = s[1]
      /\ DOMAIN Tail(s) = 1 .. Len(s) - 1
      /\ \A i \in 1 .. Len(s) - 1 : Tail(s)[i] = s[i + 1]
  BY <1>1
<1>4. \A i \in 1 .. Len(s) - 1 : i + 1 \in 1 .. Len(s) /\ i + 1 # 1  BY <1>1
<1>5. \A i \in 1 .. Len(s) : i # 1 => i - 1 \in 1 .. Len(s) - 1 /\ (i - 1) + 1 = i  BY <1>1
<1>6. Distinct(Tail(s))
  <2>1. SUFFICES ASSUME NEW i \in 1 .. Len(s) - 1, NEW j \in 1 .. Len(s) - 1, Tail(s)[i] = Tail(s)[j]
                 PROVE  i = j
    BY <1>3 DEF Distinct
  <2>2. i + 1 = j + 1  BY <1>2, <1>3, <1>4, <2>1
  <2> QED  BY <2>2
<1>7. 1 \in 1 .. Len(s)  BY <1>1
<1>8. ASSUME NEW x PROVE x \in {Tail(s)[i] : i \in DOMAIN Tail(s)} <=> x \in {s[i] : i \in DOMAIN s} \ {Head(s)}
  <2>1. ASSUME NEW i \in 1 .. Len(s) - 1, x = Tail(s)[i] PROVE x \in {s[j] : j \in DOMAIN s} \ {Head(s)}
    <3>1. x = s[i + 1] /\ x # s[1]  BY <1>2, <1>3, <1>4, <1>7, <2>1
    <3> QED  BY <1>1, <1>3, <1>4, <3>1
  <2>2. ASSUME NEW i \in 1 .. Len(s), x = s[i], x # s[1] PROVE x \in {Tail(s)[j] : j \in DOMAIN Tail(s)}
    <3>1. i - 1 \in 1 .. Len(s) - 1 /\ x = Tail(s)[i - 1]  BY <1>3, <1>5, <2>2
    <3> QED  BY <1>3, <3>1
  <2> QED  BY <1>1, <1>3, <2>1, <2>2
<1>9. {Tail(s)[i] : i \in DOMAIN Tail(s)} = {s[i] : i \in DOMAIN s} \ {Head(s)}  BY <1>8
<1>10. Head(s) \in DOMAIN t /\ Head(s) \in {s[i] : i \in DOMAIN s}  BY <1>1, <1>3, <1>7
<1> QED  BY <1>1, <1>3, <1>6, <1>9, <1>10 DEF ListOf

\* A list is no longer than the table.
LEMMA ListLen ==
    ASSUME NEW t \in Tables, NEW s, ListOf(t, s)
    PROVE  Len(s) \in Nat /\ Cardinality(DOMAIN t) \in Nat /\ Len(s) <= Cardinality(DOMAIN t)
BY TableFacts, DistinctLen DEF ListOf

\* The same for a cursor.
LEMMA CursorTail ==
    ASSUME NEW t, NEW key, NEW c, CursorOf(t, key, c), c # <<>>
    PROVE  /\ CursorOf(t, key, Tail(c)) /\ Len(c) \in Nat \ {0} /\ Len(Tail(c)) = Len(c) - 1
           /\ Head(c).id \in DOMAIN t /\ Head(c).key = IndexKey(key, t[Head(c).id])
           /\ Head(c).id \in {c[i].id : i \in DOMAIN c}
           /\ {Tail(c)[i].id : i \in DOMAIN Tail(c)} = {c[i].id : i \in DOMAIN c} \ {Head(c).id}
<1> DEFINE E == [id : DOMAIN t, key : Seq(Int)]
<1>0. /\ c \in Seq(E) /\ \A i \in DOMAIN c : c[i].key = IndexKey(key, t[c[i].id])
      /\ \A i, j \in DOMAIN c : c[i].id = c[j].id => i = j
  BY Zenon DEF CursorOf
<1>3. \A e \in E : e.id \in DOMAIN t  OBVIOUS
<1> HIDE DEF E
<1>1. c \in Seq(E) /\ Len(c) \in Nat \ {0} /\ DOMAIN c = 1 .. Len(c)  BY <1>0
<1>2. /\ \A i \in 1 .. Len(c) : c[i].key = IndexKey(key, t[c[i].id]) /\ c[i] \in E
      /\ \A i, j \in 1 .. Len(c) : c[i].id = c[j].id => i = j
  BY <1>0, <1>1
<1>4. /\ Tail(c) \in Seq(E) /\ Len(Tail(c)) = Len(c) - 1 /\ Head(c) = c[1]
      /\ DOMAIN Tail(c) = 1 .. Len(c) - 1
      /\ \A i \in 1 .. Len(c) - 1 : Tail(c)[i] = c[i + 1]
  BY <1>1
<1>5. \A i \in 1 .. Len(c) - 1 : i + 1 \in 1 .. Len(c) /\ i + 1 # 1  BY <1>1
<1>6. \A i \in 1 .. Len(c) : i # 1 => i - 1 \in 1 .. Len(c) - 1 /\ (i - 1) + 1 = i  BY <1>1
<1>7. 1 \in 1 .. Len(c)  BY <1>1
<1>8. CursorOf(t, key, Tail(c))
  <2>1. ASSUME NEW i \in 1 .. Len(c) - 1, NEW j \in 1 .. Len(c) - 1, Tail(c)[i].id = Tail(c)[j].id
        PROVE  i = j
    <3>1. i + 1 = j + 1  BY <1>2, <1>4, <1>5, <2>1
    <3> QED  BY <3>1
  <2>2. \A i \in 1 .. Len(c) - 1 : Tail(c)[i].key = IndexKey(key, t[Tail(c)[i].id])
    BY <1>2, <1>4, <1>5
  <2>3. Tail(c) \in Seq([id : DOMAIN t, key : Seq(Int)])  BY <1>4 DEF E
  <2>4. DOMAIN Tail(c) = 1 .. Len(c) - 1  BY <1>4
  <2> QED  BY <2>1, <2>2, <2>3, <2>4 DEF CursorOf
<1>9. ASSUME NEW x
      PROVE  x \in {Tail(c)[i].id : i \in DOMAIN Tail(c)} <=> x \in {c[i].id : i \in DOMAIN c} \ {Head(c).id}
  <2>1. ASSUME NEW i \in 1 .. Len(c) - 1, x = Tail(c)[i].id PROVE x \in {c[j].id : j \in DOMAIN c} \ {Head(c).id}
    <3>1. x = c[i + 1].id /\ x # c[1].id  BY <1>2, <1>4, <1>5, <1>7, <2>1
    <3> QED  BY <1>1, <1>4, <1>5, <3>1
  <2>2. ASSUME NEW i \in 1 .. Len(c), x = c[i].id, x # c[1].id PROVE x \in {Tail(c)[j].id : j \in DOMAIN Tail(c)}
    <3>1. i - 1 \in 1 .. Len(c) - 1 /\ x = Tail(c)[i - 1].id  BY <1>4, <1>6, <2>2
    <3> QED  BY <1>4, <3>1
  <2> QED  BY <1>1, <1>4, <2>1, <2>2
<1>10. {Tail(c)[i].id : i \in DOMAIN Tail(c)} = {c[i].id : i \in DOMAIN c} \ {Head(c).id}  BY <1>9
<1>11. c[1] \in E /\ c[1].key = IndexKey(key, t[c[1].id])  BY <1>2, <1>7
<1>12. Head(c).id \in {c[i].id : i \in DOMAIN c}  BY <1>1, <1>4, <1>7
<1> QED  BY <1>1, <1>3, <1>4, <1>8, <1>10, <1>11, <1>12

\* A cursor is no longer than the table.
LEMMA CursorLen ==
    ASSUME NEW t \in Tables, NEW key, NEW c, CursorOf(t, key, c)
    PROVE  Len(c) \in Nat /\ Cardinality(DOMAIN t) \in Nat /\ Len(c) <= Cardinality(DOMAIN t)
<1> DEFINE s == [i \in 1 .. Len(c) |-> c[i].id]
<1> DEFINE E == [id : DOMAIN t, key : Seq(Int)]
<1>0. c \in Seq(E) /\ \A e \in E : e.id \in DOMAIN t  BY DEF CursorOf
<1> HIDE DEF E
<1>1. Len(c) \in Nat /\ DOMAIN c = 1 .. Len(c) /\ \A i \in 1 .. Len(c) : c[i].id \in DOMAIN t
  BY <1>0
<1>2. s \in Seq(DOMAIN t) /\ Len(s) = Len(c) /\ DOMAIN s = 1 .. Len(c)  BY <1>1
<1>3. Distinct(s)  BY <1>1 DEF CursorOf, Distinct
<1> HIDE DEF s
<1> QED  BY <1>2, <1>3, ListLen DEF ListOf

\* The entries of an index.
LEMMA EntriesAre ==
    ASSUME table \in Tables, NEW key \in DOMAIN KeyColumns
    PROVE  /\ IsFiniteSet(Entries(key))
           /\ \A e \in Entries(key) : /\ e.id \in Ids /\ e.key = IndexKey(key, table[e.id])
                                      /\ e.key \in Seq(Int) /\ e.id \in Int
                                      /\ e \in [id : Ids, key : Seq(Int)]
           /\ \A e, f \in Entries(key) : e.id = f.id => e = f
<1> DEFINE k(id) == IndexKey(key, table[id])
           A == {[id |-> id, key |-> k(id)] : id \in Ids}
<1>1. IsFiniteSet(Ids) /\ Ids \subseteq Int /\ \A id \in Ids : k(id) \in Seq(Int)
  BY TableFacts, IndexKeyIs DEF Ids
<1>2. Entries(key) = {e \in A : e.key # <<>>}  BY DEF Entries
<1> HIDE DEF k
<1>3. IsFiniteSet(A)
  <2> DEFINE f == [id \in Ids |-> [id |-> id, key |-> k(id)]]
  <2>1. f \in Surjection(Ids, A)  BY DEF Surjection
  <2> HIDE DEF f, A
  <2> QED  BY <1>1, <2>1, FS_Surjection
<1>4. IsFiniteSet(Entries(key))  BY <1>2, <1>3, FS_Subset
<1>5. \A e \in A : /\ e.id \in Ids /\ e.key = k(e.id) /\ k(e.id) \in Seq(Int) /\ e.id \in Int
                   /\ e = [id |-> e.id, key |-> k(e.id)]
  BY <1>1
<1>6. \A e \in Entries(key) : e \in A  BY <1>2
<1> HIDE DEF A
<1>7. \A e, f \in Entries(key) : e.id = f.id => e = f  BY <1>5, <1>6
<1>8. \A e \in A : e \in [id : Ids, key : Seq(Int)]
  <2> DEFINE K == Seq(Int)
  <2>1. \A e \in A : e.id \in Ids /\ k(e.id) \in K /\ e = [id |-> e.id, key |-> k(e.id)]  BY <1>5
  <2> HIDE DEF K
  <2>2. \A e \in A : e \in [id : Ids, key : K]  BY <2>1
  <2> QED  BY <2>2 DEF K
<1> QED  BY <1>4, <1>5, <1>6, <1>7, <1>8 DEF k

\* Entries can be put in the order of their keys, upwards or downwards.
LEMMA EntryOrder ==
    ASSUME table \in Tables, NEW key \in DOMAIN KeyColumns, NEW S \in SUBSET Entries(key)
    PROVE  /\ TotalOrder({p \in S \X S : EntryBefore(p[1].key, p[2].key, p)}, S)
           /\ TotalOrder({p \in S \X S : EntryBefore(p[2].key, p[1].key, p)}, S)
<1>1. /\ \A x \in S : x.key \in Seq(Int) /\ x.id \in Int
      /\ \A x, y \in S : x # y => x.id # y.id
  BY EntriesAre
<1> DEFINE Up == {p \in S \X S : EntryBefore(p[1].key, p[2].key, p)}
           Down == {p \in S \X S : EntryBefore(p[2].key, p[1].key, p)}
<1>2. \A x, y : <<x, y>> \in Up <=>
          x \in S /\ y \in S /\ (ByteLess(x.key, y.key) \/ (x.key = y.key /\ x.id < y.id))
  <2>1. ASSUME NEW x, NEW y
        PROVE <<x, y>> \in Up <=> x \in S /\ y \in S /\ EntryBefore(x.key, y.key, <<x, y>>)
    OBVIOUS
  <2> QED  BY <2>1 DEF EntryBefore
<1>3. \A x, y : <<x, y>> \in Down <=>
          x \in S /\ y \in S /\ (ByteLess(y.key, x.key) \/ (x.key = y.key /\ x.id < y.id))
  <2>1. ASSUME NEW x, NEW y
        PROVE <<x, y>> \in Down <=> x \in S /\ y \in S /\ EntryBefore(y.key, x.key, <<x, y>>)
    OBVIOUS
  <2> QED  BY <2>1 DEF EntryBefore
<1>4. /\ \A b \in Seq(Int) : ~ByteLess(b, b)
      /\ \A b, c, d \in Seq(Int) : ByteLess(b, c) /\ ByteLess(c, d) => ByteLess(b, d)
      /\ \A b, c \in Seq(Int) : b # c => ByteLess(b, c) \/ ByteLess(c, b)
  BY ByteAsymmetric, ByteTransitive, ByteTotal
<1> HIDE DEF Up, Down
<1>5. TotalOrder(Up, S)
  <2>1. \A x \in S : <<x, x>> \notin Up  BY <1>1, <1>2, <1>4
  <2>2. ASSUME NEW x \in S, NEW y \in S, NEW z \in S, <<x, y>> \in Up, <<y, z>> \in Up
        PROVE  <<x, z>> \in Up
    BY <1>1, <1>2, <1>4, <2>2
  <2>3. ASSUME NEW x \in S, NEW y \in S, x # y PROVE <<x, y>> \in Up \/ <<y, x>> \in Up
    BY <1>1, <1>2, <1>4, <2>3
  <2> QED  BY <2>1, <2>2, <2>3 DEF TotalOrder
<1>6. TotalOrder(Down, S)
  <2>1. \A x \in S : <<x, x>> \notin Down  BY <1>1, <1>3, <1>4
  <2>2. ASSUME NEW x \in S, NEW y \in S, NEW z \in S, <<x, y>> \in Down, <<y, z>> \in Down
        PROVE  <<x, z>> \in Down
    BY <1>1, <1>3, <1>4, <2>2
  <2>3. ASSUME NEW x \in S, NEW y \in S, x # y PROVE <<x, y>> \in Down \/ <<y, x>> \in Down
    BY <1>1, <1>3, <1>4, <2>3
  <2> QED  BY <2>1, <2>2, <2>3 DEF TotalOrder
<1> QED  BY <1>5, <1>6 DEF Up, Down

\* grn_table_cursor_open() opens a cursor on records of the table.
LEMMA OpenIs ==
    ASSUME table \in Tables, NEW key \in DOMAIN KeyColumns, NEW min, NEW max, NEW flags
    PROVE  /\ CursorOf(table, key, grn_cursor_open(key, min, max, flags))
           /\ flags = {} => \A i \in DOMAIN grn_cursor_open(key, min, max, flags) :
                 LET k == grn_cursor_open(key, min, max, flags)[i].key
                 IN  (min = <<>> \/ ByteLeq(min, k)) /\ (max = <<>> \/ ByteLeq(k, max))
<1> DEFINE In(e) == /\ IF "PREFIX" \in flags THEN IsPrefix(min, e.key)
                       ELSE min = <<>> \/ IF "GT" \in flags THEN ByteLess(min, e.key)
                                                           ELSE ByteLeq(min, e.key)
                    /\ max = <<>> \/ IF "LT" \in flags THEN ByteLess(e.key, max)
                                                      ELSE ByteLeq(e.key, max)
           S == {e \in Entries(key) : In(e)}
           Up == {p \in S \X S : EntryBefore(p[1].key, p[2].key, p)}
           Down == {p \in S \X S : EntryBefore(p[2].key, p[1].key, p)}
           R == IF "DESCENDING" \in flags THEN Down ELSE Up
           c == grn_cursor_open(key, min, max, flags)
<1>1. c = Ranked(S, R)
  <2>1. c = Ranked(S, IF "DESCENDING" \in flags THEN Down ELSE Up)  BY DEF grn_cursor_open
  <2> QED  BY <2>1
<1>2. S \in SUBSET Entries(key)  OBVIOUS
<1>3. flags = {} => \A e \in S : (min = <<>> \/ ByteLeq(min, e.key)) /\ (max = <<>> \/ ByteLeq(e.key, max))
  OBVIOUS
<1> HIDE DEF S, c
<1>4. TotalOrder(Up, S) /\ TotalOrder(Down, S)  BY <1>2, EntryOrder
<1> HIDE DEF Up, Down
<1>5. TotalOrder(R, S)  BY <1>4
<1> HIDE DEF R
<1>6. IsFiniteSet(S)  BY <1>2, EntriesAre, FS_Subset
<1>7. c \in Seq(S) /\ Distinct(c)  BY <1>1, <1>5, <1>6, RankedIs
<1>8. \A i \in DOMAIN c : c[i] \in S /\ c[i] \in Entries(key)  BY <1>2, <1>7
<1>9. CursorOf(table, key, c)
  <2> DEFINE E == [id : Ids, key : Seq(Int)]
  <2>1. \A e \in S : e \in E  BY <1>2, EntriesAre
  <2> HIDE DEF E
  <2>2. c \in Seq(E)  BY <1>7, <2>1
  <2>3. c \in Seq([id : DOMAIN table, key : Seq(Int)])  BY <2>2 DEF E, Ids
  <2>4. \A i \in DOMAIN c : c[i].key = IndexKey(key, table[c[i].id])  BY <1>8, EntriesAre
  <2>5. \A i, j \in DOMAIN c : c[i].id = c[j].id => i = j  BY <1>7, <1>8, EntriesAre DEF Distinct
  <2> QED  BY <2>3, <2>4, <2>5 DEF CursorOf
<1> QED  BY <1>3, <1>8, <1>9 DEF c

\* The cursor of a table scan.
LEMMA ScanIs ==
    ASSUME table \in Tables
    PROVE  CursorOf(table, Primary, TableCursor(InIdOrder(Ids)))
<1> DEFINE s == InIdOrder(Ids)  c == TableCursor(s)  K == Seq(Int)
<1>1. Primary \in DOMAIN KeyColumns  BY KeyAssumption
<1>2. ListOf(table, s)  BY IdsInOrder DEF Ids
<1> HIDE DEF s
<1>3. s \in Seq(Ids) /\ Len(s) \in Nat /\ DOMAIN s = 1 .. Len(s) /\ Distinct(s)
      /\ \A i \in 1 .. Len(s) : s[i] \in Ids
  BY <1>2 DEF ListOf, Ids
<1>4. \A i \in 1 .. Len(s) : IndexKey(Primary, table[s[i]]) \in K  BY <1>1, <1>3, IndexKeyIs DEF Ids
<1>5. c = [i \in 1 .. Len(s) |-> [id |-> s[i], key |-> IndexKey(Primary, table[s[i]])]]
  BY <1>3 DEF TableCursor
<1> HIDE DEF c, K
<1>6. c \in Seq([id : Ids, key : K])
  <2> DEFINE E == [id : Ids, key : K]
  <2>1. \A i \in 1 .. Len(s) : [id |-> s[i], key |-> IndexKey(Primary, table[s[i]])] \in E  BY <1>3, <1>4
  <2> HIDE DEF E
  <2>2. c \in Seq(E)  BY <1>3, <1>5, <2>1
  <2> QED  BY <2>2 DEF E
<1>7. DOMAIN c = 1 .. Len(s)
      /\ \A i \in 1 .. Len(s) : c[i].id = s[i] /\ c[i].key = IndexKey(Primary, table[s[i]])
  BY <1>5
<1>8. \A i, j \in DOMAIN c : c[i].id = c[j].id => i = j  BY <1>3, <1>7 DEF Distinct
<1>9. \A i \in DOMAIN c : c[i].key = IndexKey(Primary, table[c[i].id])  BY <1>7
<1> QED  BY <1>6, <1>8, <1>9 DEF CursorOf, c, K, s, Ids

\* A key of several columns has bounds.
LEMMA PadNotEmpty ==
    ASSUME NEW b \in Seq(Int), b # <<>>, NEW k, k \in Int, NEW x \in Int
    PROVE  Pad(b, k, x) # <<>>
<1> DEFINE f == [i \in 1 .. (k - Len(b)) |-> x]
<1>1. Len(b) \in Nat \ {0}  OBVIOUS
<1>2. f \in Seq(Int) /\ Len(f) \in Nat
  <2>1. CASE k - Len(b) >= 0
    <3> DEFINE j == k - Len(b)
    <3>1. j \in Nat  BY <1>1, <2>1
    <3> HIDE DEF j
    <3>2. [i \in 1 .. j |-> x] \in Seq(Int) /\ Len([i \in 1 .. j |-> x]) = j  BY <3>1
    <3> QED  BY <3>1, <3>2 DEF j
  <2>2. CASE ~(k - Len(b) >= 0)
    <3>1. 1 .. (k - Len(b)) = 1 .. 0  BY <1>1, <2>2
    <3> DEFINE g == [i \in 1 .. 0 |-> x]
    <3>2. f = g  BY <3>1
    <3>3. g \in Seq(Int) /\ Len(g) \in Nat  OBVIOUS
    <3> HIDE DEF f, g
    <3> QED  BY <3>2, <3>3
  <2> QED  BY <2>1, <2>2
<1> HIDE DEF f
<1>3. Len(b \o f) = Len(b) + Len(f)  BY <1>2
<1>4. Len(b \o f) # 0  BY <1>1, <1>2, <1>3
<1>5. b \o f # <<>>  BY <1>4
<1> QED  BY <1>5 DEF Pad, f

\* A lookup on a key of several columns has a lower and an upper bound.
LEMMA BoundsExist ==
    ASSUME NEW key \in DOMAIN KeyColumns, IsMulti(key), NEW t \in Tables, NEW id \in DOMAIN t,
           NEW vals, NEW m, KeyValues(key, vals, m)
    PROVE  Bounds(key, vals, "KEY_EXACT").min # <<>> /\ Bounds(key, vals, "KEY_EXACT").max # <<>>
<1> DEFINE len == Len(KeyColumns[key])  w == ValuesOf(key, t[id])
           p == Parts(key)  v == CodecValues(key, vals)  b == Bounds(key, vals, "KEY_EXACT")
<1>1. len \in Nat \ {0} /\ m \in 1 .. len /\ DOMAIN vals = 1 .. m /\ Len(vals) = m
  <2>1. len \in Nat \ {0} /\ m \in 1 .. len /\ DOMAIN vals = 1 .. m  BY KeyFacts DEF KeyValues
  <2> QED  BY <2>1
<1>2. KeyValues(key, w, len)  BY RowValues
<1> HIDE DEF w
<1>3. IsKey(p, len, v, m) /\ IsKey(p, len, CodecValues(key, w), len)  BY <1>2, CodecValuesAre
<1> HIDE DEF p, v, len
<1>4. encode(p, v) \in Seq(Int) /\ encode(p, v) # <<>>
  <2>1. /\ encode(p, v) \in Seq(Byte) /\ Len(encode(p, v)) = Offset(p, m + 1)
        /\ \A i \in 1 .. m : /\ Offset(p, i) \in Nat /\ PartSize(p[i]) \in Nat \ {0}
                             /\ Offset(p, i) + PartSize(p[i]) <= Offset(p, m + 1)
    BY <1>3, EncodeIs
  <2>2. 1 \in 1 .. m  BY <1>1
  <2>3. Len(encode(p, v)) \in Nat  BY <2>1
  <2>4. Len(encode(p, v)) # 0  BY <2>1, <2>2, <2>3
  <2>5. encode(p, v) \in Seq(Int)  BY <2>1, BytesAre
  <2>6. \A s : Len(s) # 0 => s # <<>>  OBVIOUS
  <2> QED  BY <2>4, <2>5, <2>6
<1>5. size(p) \in Int
  <2>1. encode(p, CodecValues(key, w)) \in Seq(Byte)
        /\ Len(encode(p, CodecValues(key, w))) = Offset(p, len + 1)
    BY <1>3, EncodeIs
  <2>2. Offset(p, len + 1) \in Nat  BY <2>1
  <2>3. Len(p) = len  BY <1>1, <1>3 DEF IsKey
  <2> QED  BY <2>2, <2>3 DEF size
<1>6. CASE m = len
  <2>1. b = [min |-> encode(p, v), max |-> encode(p, v)]
    BY <1>1, <1>6 DEF Bounds, WholeKeyBounds, EncodeKey, len, p, v
  <2> QED  BY <1>4, <2>1
<1>7. CASE m # len
  <2>1. b = [min |-> LeastKey(p, v), max |-> GreatestKey(p, v)]
    BY <1>1, <1>7 DEF Bounds, PartKeyBounds, len, p, v
  <2>2. 0 \in Int /\ MaxByte \in Int  BY BaseFacts DEF Byte
  <2>3. LeastKey(p, v) # <<>> /\ GreatestKey(p, v) # <<>>
    BY <1>4, <1>5, <2>2, PadNotEmpty DEF LeastKey, GreatestKey
  <2> QED  BY <2>1, <2>3
<1> QED  BY <1>6, <1>7

\* What a lookup of exact values opens are records with these values, whether it
\* asks the index or, for the empty string, the column.
LEMMA ExactOpen ==
    ASSUME table \in Tables, NEW key \in DOMAIN KeyColumns, NEW vals, NEW m, KeyValues(key, vals, m),
           NEW b, b = Bounds(key, vals, "KEY_EXACT")
    PROVE  /\ EmptyValueSearch(key, vals, "KEY_EXACT") =>
                 \A id \in EmptyValueRecords(key) : Like(key, vals, table[id])
           /\ ~EmptyValueSearch(key, vals, "KEY_EXACT") =>
                 LET c == grn_cursor_open(key, b.min, b.max, CursorFlags("KEY_EXACT"))
                 IN  \A i \in DOMAIN c : Like(key, vals, table[c[i].id])
<1>1. CursorFlags("KEY_EXACT") = {}  BY DEF CursorFlags
<1>2. ~IsMulti(key) => /\ m = 1 /\ DOMAIN vals = 1 .. 1
                       /\ b.min = GrnKey(KeyColumns[key][1], vals[1]) /\ b.max = b.min
  <2>1. SUFFICES ASSUME ~IsMulti(key) PROVE /\ m = 1 /\ DOMAIN vals = 1 .. 1
                       /\ b.min = GrnKey(KeyColumns[key][1], vals[1]) /\ b.max = b.min
    OBVIOUS
  <2>2. Len(KeyColumns[key]) = 1
    <3>1. ~(Len(KeyColumns[key]) > 1)  BY <2>1 DEF IsMulti
    <3> QED  BY <3>1, KeyFacts
  <2>3. m = 1 /\ DOMAIN vals = 1 .. 1  BY <2>2 DEF KeyValues
  <2>4. b = [min |-> GrnKey(KeyColumns[key][1], vals[1]), max |-> GrnKey(KeyColumns[key][1], vals[1])]
    BY <2>1 DEF Bounds, SingleKeyBounds, EncodeKey
  <2> QED  BY <2>3, <2>4
<1>3. ASSUME EmptyValueSearch(key, vals, "KEY_EXACT"), NEW id \in EmptyValueRecords(key)
      PROVE  Like(key, vals, table[id])
  <2>1. ~IsMulti(key) /\ b.min = <<>>  BY <1>3 DEF EmptyValueSearch
  <2>2. vals[1] = 0
    <3>1. \A x : <<x>> # <<>>  OBVIOUS
    <3> QED  BY <1>2, <2>1, <3>1 DEF GrnKey
  <2>3. id \in DOMAIN table /\ table[id][KeyColumns[key][1]] = 0
    BY <1>3 DEF EmptyValueRecords, Ids
  <2>4. Weight(KeyColumns[key][1], table[id][KeyColumns[key][1]]) = 0
    <3>1. KeyColumns[key][1] \in Columns  BY KeyFacts
    <3> QED  BY <2>3, <3>1, TableFacts, WeightIs
  <2> QED  BY <1>2, <2>1, <2>2, <2>4 DEF Like
<1>4. ASSUME ~EmptyValueSearch(key, vals, "KEY_EXACT"),
             NEW c, c = grn_cursor_open(key, b.min, b.max, CursorFlags("KEY_EXACT")),
             NEW i \in DOMAIN c
      PROVE  Like(key, vals, table[c[i].id])
  <2> DEFINE k == c[i].key  id == c[i].id
  <2>1. CursorOf(table, key, c) /\ (b.min = <<>> \/ ByteLeq(b.min, k)) /\ (b.max = <<>> \/ ByteLeq(k, b.max))
    BY <1>1, <1>4, OpenIs
  <2>2. id \in DOMAIN table /\ k = IndexKey(key, table[id])
    <3> DEFINE E == [id : DOMAIN table, key : Seq(Int)]
    <3>1. c \in Seq(E) /\ (\A e \in E : e.id \in DOMAIN table) /\ k = IndexKey(key, table[id])
      BY <2>1 DEF CursorOf
    <3> HIDE DEF E
    <3>2. c[i] \in E  BY <1>4, <3>1
    <3> QED  BY <3>1, <3>2
  <2>3. b.min # <<>> /\ b.max # <<>>
    <3>1. CASE IsMulti(key)  BY <2>2, <3>1, BoundsExist
    <3>2. CASE ~IsMulti(key)  BY <1>1, <1>2, <1>4, <3>2 DEF EmptyValueSearch
    <3> QED  BY <3>1, <3>2
  <2> HIDE DEF k, id
  <2>4. Like(key, vals, table[id])  BY <2>1, <2>2, <2>3, ExactBounds
  <2> QED  BY <2>4 DEF id
<1> QED  BY <1>3, <1>4

-----------------------------------------------------------------------------
(* The access paths. *)

\* A conjunct that the range optimizer can use has constants the column can store.
LEMMA SargableIs ==
    ASSUME NEW q \in Statements, NEW c \in Columns, NEW f \in Conjuncts(q.where), Sargable(f, c)
    PROVE  /\ f.functype \in {"EQ", "GE", "GT", "LE", "LT", "BETWEEN", "IN"}
           /\ Len(f.vals) \in Nat \ {0} /\ DOMAIN f.vals = 1 .. Len(f.vals) /\ 1 \in DOMAIN f.vals
           /\ f.functype = "BETWEEN" => 2 \in DOMAIN f.vals
           /\ \A i \in DOMAIN f.vals : Storable(c, Lookup(f, i)) /\ Lookup(f, i) \in Int
           /\ q.where # NoWhere /\ q.where.functype # "MATCH"
<1> DEFINE S == {f.vals[i] : i \in DOMAIN f.vals}
<1>1. /\ f.functype \in {"EQ", "GE", "GT", "LE", "LT", "BETWEEN", "IN"}
      /\ f.vals \in Seq(S) /\ f.vals # <<>> /\ (f.functype = "BETWEEN" => Len(f.vals) = 2)
      /\ \A i \in DOMAIN f.vals : Storable(c, f.vals[i].v \div 2)
  BY StatementAssumption
<1> HIDE DEF S
<1>2. Len(f.vals) \in Nat \ {0} /\ DOMAIN f.vals = 1 .. Len(f.vals)  BY <1>1
<1>3. 1 \in DOMAIN f.vals /\ (f.functype = "BETWEEN" => 2 \in DOMAIN f.vals)
  <2> DEFINE l == Len(f.vals)  D == DOMAIN f.vals
  <2>1. l \in Nat \ {0} /\ D = 1 .. l /\ (f.functype = "BETWEEN" => l = 2)  BY <1>1, <1>2
  <2> HIDE DEF l, D
  <2>2. 1 \in D /\ (l = 2 => 2 \in D)  BY <2>1
  <2> QED  BY <2>1, <2>2 DEF D
<1>4. q.where # NoWhere  BY DEF Conjuncts
<1>5. f = q.where \/ q.where.functype = "AND"  BY <1>4 DEF Conjuncts
<1>6. f.functype # "MATCH"  BY DEF Sargable
<1>7. \A i \in DOMAIN f.vals : f.vals[i].v \div 2 \in Int  BY <1>1 DEF Storable
<1>8. \A i \in DOMAIN f.vals : Storable(c, Lookup(f, i)) /\ Lookup(f, i) \in Int
  <2>1. f.col = c  BY DEF Sargable
  <2> QED  BY <1>1, <1>7, <2>1, WeightIs DEF Lookup
<1> QED  BY <1>1, <1>2, <1>3, <1>4, <1>5, <1>6, <1>8

\* The values WHERE fixes for the first columns of a key.
LEMMA FixedIs ==
    ASSUME NEW q \in Statements, NEW key \in RangeKeys, NEW m \in FixedParts(q.where, key)
    PROVE  /\ m \in 0 .. Len(KeyColumns[key])
           /\ Fixed(q.where, key, m) \in Seq(Int) /\ Len(Fixed(q.where, key, m)) = m
           /\ \A i \in 1 .. m : /\ Fixed(q.where, key, m)[i] \in Int
                                /\ Storable(KeyColumns[key][i], Fixed(q.where, key, m)[i])
           /\ m # 0 => q.where # NoWhere /\ q.where.functype # "MATCH"
<1> DEFINE e == Fixed(q.where, key, m)  V(i) == EqValues(q.where, KeyColumns[key][i])
<1>1. key \in DOMAIN KeyColumns  BY DEF RangeKeys
<1>2. m \in 0 .. Len(KeyColumns[key]) /\ m \in Nat /\ \A i \in 1 .. m : V(i) # {}
  BY <1>1, KeyFacts DEF FixedParts
<1>3. \A i \in 1 .. m : KeyColumns[key][i] \in Columns
  <2>1. \A i \in 1 .. m : i \in 1 .. Len(KeyColumns[key])  BY <1>1, <1>2, KeyFacts
  <2> QED  BY <1>1, <2>1, KeyFacts
<1>4. e = [i \in 1 .. m |-> CHOOSE v \in V(i) : TRUE]  BY DEF Fixed
<1>5. ASSUME NEW i \in 1 .. m, NEW v \in V(i)
      PROVE  /\ v \in Int /\ Storable(KeyColumns[key][i], v)
             /\ q.where # NoWhere /\ q.where.functype # "MATCH"
  <2>1. PICK f \in Conjuncts(q.where) : Sargable(f, KeyColumns[key][i]) /\ v = Lookup(f, 1)
    BY DEF EqValues
  <2>2. KeyColumns[key][i] \in Columns  BY <1>3
  <2> QED  BY <2>1, <2>2, SargableIs
<1> HIDE DEF e, V
<1>6. \A i \in 1 .. m : e[i] \in V(i)  BY <1>2, <1>4
<1>7. \A i \in 1 .. m : e[i] \in Int /\ Storable(KeyColumns[key][i], e[i])  BY <1>5, <1>6
<1>8. e \in Seq(Int) /\ Len(e) = m  BY <1>2, <1>4, <1>7
<1>9. m # 0 => q.where # NoWhere /\ q.where.functype # "MATCH"
  <2>1. SUFFICES ASSUME m # 0 PROVE q.where # NoWhere /\ q.where.functype # "MATCH"
    OBVIOUS
  <2>2. 1 \in 1 .. m  BY <1>2, <2>1
  <2> QED  BY <1>5, <1>6, <2>2
<1> QED  BY <1>2, <1>7, <1>8, <1>9 DEF e

\* A value more.
LEMMA FixedAppend ==
    ASSUME NEW q \in Statements, NEW key \in RangeKeys, NEW m \in FixedParts(q.where, key),
           m # Len(KeyColumns[key]), NEW v \in Int
    PROVE  LET e == Append(Fixed(q.where, key, m), v)
           IN  /\ e \in Seq(Int) /\ Len(e) = m + 1 /\ e[m + 1] = v /\ m + 1 \in 1 .. Len(e)
               /\ Storable(KeyColumns[key][m + 1], v) => KeyValues(key, e, Len(e))
<1> DEFINE b == Fixed(q.where, key, m)  e == Append(b, v)
<1>1. key \in DOMAIN KeyColumns /\ Len(KeyColumns[key]) \in Nat  BY KeyFacts DEF RangeKeys
<1>2. /\ m \in 0 .. Len(KeyColumns[key]) /\ b \in Seq(Int) /\ Len(b) = m
      /\ \A i \in 1 .. m : b[i] \in Int /\ Storable(KeyColumns[key][i], b[i])
  BY FixedIs
<1> HIDE DEF b
<1>3. e \in Seq(Int) /\ Len(e) = m + 1 /\ e[m + 1] = v /\ \A i \in 1 .. m : e[i] = b[i]
  BY <1>2
<1>4. m \in Nat /\ m + 1 \in 1 .. Len(KeyColumns[key]) /\ m + 1 \in 1 .. m + 1  BY <1>1, <1>2
<1>5. DOMAIN e = 1 .. m + 1 /\ \A i \in 1 .. m + 1 : i = m + 1 \/ i \in 1 .. m  BY <1>3, <1>4
<1> HIDE DEF e
<1>6. ASSUME Storable(KeyColumns[key][m + 1], v)
      PROVE  \A i \in 1 .. m + 1 : e[i] \in Int /\ Storable(KeyColumns[key][i], e[i])
  BY <1>2, <1>3, <1>5, <1>6
<1> QED  BY <1>3, <1>4, <1>5, <1>6 DEF KeyValues, e, b

\* A range, and a lookup.
LEMMA KeyRangeIs ==
    ASSUME NEW min \in Seq(Int), NEW max \in Seq(Int), NEW minflag \in RangeFlags, NEW maxflag \in RangeFlags
    PROVE  /\ KeyRange(min, minflag, max, maxflag) \in KeyRanges
           /\ KeyRange(min, minflag, max, maxflag).min = min
           /\ IsExact(KeyRange(min, minflag, max, maxflag)) <=> minflag = "KEY_EXACT"
BY DEF KeyRange, KeyRanges, IsExact

\* The range of an equality.
LEMMA ExactIs ==
    ASSUME NEW v \in Seq(Int)
    PROVE  Exact(v) \in KeyRanges /\ Exact(v).min = v /\ IsExact(Exact(v))
<1>1. "KEY_EXACT" \in RangeFlags /\ "AFTER_KEY" \in RangeFlags  BY DEF RangeFlags
<1>2. Exact(v) = KeyRange(v, "KEY_EXACT", v, "AFTER_KEY")  BY DEF Exact
<1> QED  BY <1>1, <1>2, KeyRangeIs

\* One range that is no lookup, and one lookup.
LEMMA OneRange ==
    ASSUME NEW key
    PROVE  \A min, max \in Seq(Int), maxflag \in RangeFlags :
              \A minflag \in {"KEY_OR_NEXT", "AFTER_KEY"} :
                 /\ RangesOK(key, <<KeyRange(min, minflag, max, maxflag)>>)
                 /\ <<KeyRange(min, minflag, max, maxflag)>> # <<>>
<1> TAKE min, max \in Seq(Int), maxflag \in RangeFlags
<1> TAKE minflag \in {"KEY_OR_NEXT", "AFTER_KEY"}
<1> DEFINE r == KeyRange(min, minflag, max, maxflag)
<1>1. r \in KeyRanges /\ ~IsExact(r)
  <2>1. minflag \in RangeFlags /\ minflag # "KEY_EXACT"  BY DEF RangeFlags
  <2> QED  BY <2>1, KeyRangeIs
<1> HIDE DEF r
<1>2. <<r>> \in Seq(KeyRanges) /\ Len(<<r>>) = 1 /\ <<r>>[1] = r /\ <<r>> # <<>>  BY <1>1
<1>3. RangesOK(key, <<r>>)  BY <1>1, <1>2 DEF RangesOK
<1> QED  BY <1>2, <1>3 DEF r

\* ... is a range of a key.
LEMMA OneExact ==
    ASSUME NEW key, NEW v \in Seq(Int), KeyValues(key, v, Len(v))
    PROVE  RangesOK(key, <<Exact(v)>>) /\ <<Exact(v)>> # <<>>
<1> DEFINE r == Exact(v)
<1>1. r \in KeyRanges /\ r.min = v  BY ExactIs
<1> HIDE DEF r
<1>2. <<r>> \in Seq(KeyRanges) /\ Len(<<r>>) = 1 /\ <<r>>[1] = r /\ <<r>> # <<>>  BY <1>1
<1>3. RangesOK(key, <<r>>)  BY <1>1, <1>2 DEF RangesOK
<1> QED  BY <1>2, <1>3 DEF r

\* The ranges of a conjunct.
LEMMA RangesOfIs ==
    ASSUME NEW q \in Statements, NEW key \in RangeKeys, NEW m \in FixedParts(q.where, key),
           m # Len(KeyColumns[key]), NEW f \in Conjuncts(q.where),
           Sargable(f, KeyColumns[key][m + 1]), f.functype # "EQ"
    PROVE  LET rs == RangesOf(f, Fixed(q.where, key, m)) IN RangesOK(key, rs) /\ rs # <<>>
<1> DEFINE E == Fixed(q.where, key, m)  col == KeyColumns[key][m + 1]
           x(i) == Lookup(f, i)  v(i) == Append(E, x(i))  rs == RangesOf(f, E)
<1>1. col \in Columns
  <2>1. key \in DOMAIN KeyColumns /\ m \in 0 .. Len(KeyColumns[key])  BY FixedIs DEF RangeKeys
  <2>2. m + 1 \in DOMAIN KeyColumns[key]  BY <2>1, KeyFacts
  <2> QED  BY <2>1, <2>2, KeyFacts
<1>2. /\ f.functype \in {"GE", "GT", "LE", "LT", "BETWEEN", "IN"}
      /\ Len(f.vals) \in Nat \ {0} /\ DOMAIN f.vals = 1 .. Len(f.vals) /\ 1 \in DOMAIN f.vals
      /\ f.functype = "BETWEEN" => 2 \in DOMAIN f.vals
      /\ \A i \in DOMAIN f.vals : Storable(col, x(i)) /\ x(i) \in Int
  BY <1>1, SargableIs
<1>3. E \in Seq(Int)  BY FixedIs
<1>4. \A y \in Int : /\ Append(E, y) \in Seq(Int) /\ Len(Append(E, y)) = m + 1
                     /\ Append(E, y)[m + 1] = y /\ m + 1 \in 1 .. Len(Append(E, y))
                     /\ Storable(col, y) => KeyValues(key, Append(E, y), Len(Append(E, y)))
  BY FixedAppend
<1>5. \A i \in DOMAIN f.vals : v(i) \in Seq(Int)  BY <1>2, <1>4
<1>51. "KEY_OR_NEXT" \in RangeFlags /\ "AFTER_KEY" \in RangeFlags /\ "BEFORE_KEY" \in RangeFlags
  BY DEF RangeFlags
<1>6. CASE f.functype = "GE"
  <2>1. rs = <<KeyRange(v(1), "KEY_OR_NEXT", E, "AFTER_KEY")>>  BY <1>6 DEF RangesOf
  <2>2. v(1) \in Seq(Int)  BY <1>2, <1>5
  <2> DEFINE y == v(1)
  <2> HIDE DEF v, y, E, rs
  <2>3. RangesOK(key, <<KeyRange(y, "KEY_OR_NEXT", E, "AFTER_KEY")>>) /\ <<KeyRange(y, "KEY_OR_NEXT", E, "AFTER_KEY")>> # <<>>
    BY <1>3, <1>51, <2>2, OneRange DEF y
  <2> QED  BY <2>1, <2>3 DEF y, rs, E
<1>7. CASE f.functype = "GT"
  <2>1. rs = <<KeyRange(v(1), "AFTER_KEY", E, "AFTER_KEY")>>  BY <1>7 DEF RangesOf
  <2>2. v(1) \in Seq(Int)  BY <1>2, <1>5
  <2> DEFINE y == v(1)
  <2> HIDE DEF v, y, E, rs
  <2>3. RangesOK(key, <<KeyRange(y, "AFTER_KEY", E, "AFTER_KEY")>>) /\ <<KeyRange(y, "AFTER_KEY", E, "AFTER_KEY")>> # <<>>
    BY <1>3, <1>51, <2>2, OneRange DEF y
  <2> QED  BY <2>1, <2>3 DEF y, rs, E
<1>8. CASE f.functype = "LE"
  <2>1. rs = <<KeyRange(E, "KEY_OR_NEXT", v(1), "AFTER_KEY")>>  BY <1>8 DEF RangesOf
  <2>2. v(1) \in Seq(Int)  BY <1>2, <1>5
  <2> DEFINE y == v(1)
  <2> HIDE DEF v, y, E, rs
  <2>3. RangesOK(key, <<KeyRange(E, "KEY_OR_NEXT", y, "AFTER_KEY")>>) /\ <<KeyRange(E, "KEY_OR_NEXT", y, "AFTER_KEY")>> # <<>>
    BY <1>3, <1>51, <2>2, OneRange DEF y
  <2> QED  BY <2>1, <2>3 DEF y, rs, E
<1>9. CASE f.functype = "LT"
  <2>1. rs = <<KeyRange(E, "KEY_OR_NEXT", v(1), "BEFORE_KEY")>>  BY <1>9 DEF RangesOf
  <2>2. v(1) \in Seq(Int)  BY <1>2, <1>5
  <2> DEFINE y == v(1)
  <2> HIDE DEF v, y, E, rs
  <2>3. RangesOK(key, <<KeyRange(E, "KEY_OR_NEXT", y, "BEFORE_KEY")>>) /\ <<KeyRange(E, "KEY_OR_NEXT", y, "BEFORE_KEY")>> # <<>>
    BY <1>3, <1>51, <2>2, OneRange DEF y
  <2> QED  BY <2>1, <2>3 DEF y, rs, E
<1>10. CASE f.functype = "BETWEEN"
  <2>1. rs = <<KeyRange(v(1), "KEY_OR_NEXT", v(2), "AFTER_KEY")>>  BY <1>10 DEF RangesOf
  <2>2. v(1) \in Seq(Int) /\ v(2) \in Seq(Int)  BY <1>2, <1>5, <1>10
  <2> DEFINE y == v(1)  z == v(2)
  <2> HIDE DEF v, y, z, E, rs
  <2>3. RangesOK(key, <<KeyRange(y, "KEY_OR_NEXT", z, "AFTER_KEY")>>)
        /\ <<KeyRange(y, "KEY_OR_NEXT", z, "AFTER_KEY")>> # <<>>
    BY <1>51, <2>2, OneRange DEF y, z
  <2> QED  BY <2>1, <2>3 DEF y, z, rs, E
<1>11. CASE f.functype = "IN"
  <2> DEFINE V == {x(i) : i \in DOMAIN f.vals}  vs == InNumberOrder(V)
  <2>1. rs = [i \in DOMAIN vs |-> Exact(Append(E, vs[i]))]  BY <1>11 DEF RangesOf
  <2>2. V \in SUBSET Int /\ x(1) \in V /\ \A y \in V : Storable(col, y)  BY <1>2
  <2>3. IsFiniteSet(V)
    <3> DEFINE g == [i \in 1 .. Len(f.vals) |-> x(i)]
    <3>1. g \in Surjection(1 .. Len(f.vals), V)  BY <1>2 DEF Surjection
    <3>2. IsFiniteSet(1 .. Len(f.vals))
      <4>1. 1 \in Int /\ Len(f.vals) \in Int  BY <1>2
      <4> QED  BY <4>1, FS_Interval
    <3> HIDE DEF g, V
    <3> QED  BY <3>1, <3>2, FS_Surjection
  <2> HIDE DEF V, x, vs, rs, E, col
  <2>4. vs \in Seq(V) /\ Distinct(vs) /\ Len(vs) = Cardinality(V)  BY <2>2, <2>3, NumbersInOrder DEF vs
  <2>5. Len(vs) \in Nat \ {0}
    <3>1. Cardinality(V) \in Nat /\ Cardinality(V) # 0  BY <2>2, <2>3, FS_CardinalityType, FS_EmptySet
    <3> QED  BY <2>4, <3>1
  <2>6. DOMAIN vs = 1 .. Len(vs) /\ \A i \in 1 .. Len(vs) : vs[i] \in V /\ vs[i] \in Int /\ Storable(col, vs[i])
    <3>1. DOMAIN vs = 1 .. Len(vs) /\ \A i \in 1 .. Len(vs) : vs[i] \in V  BY <2>4
    <3>2. \A y \in V : y \in Int /\ Storable(col, y)  BY <2>2
    <3> QED  BY <3>1, <3>2
  <2>7. ASSUME NEW i \in 1 .. Len(vs)
        PROVE  /\ rs[i] \in KeyRanges /\ IsExact(rs[i]) /\ rs[i].min = Append(E, vs[i])
               /\ KeyValues(key, rs[i].min, Len(rs[i].min))
    <3>1. rs[i] = Exact(Append(E, vs[i]))  BY <2>1, <2>6
    <3>2. Append(E, vs[i]) \in Seq(Int) /\ KeyValues(key, Append(E, vs[i]), Len(Append(E, vs[i])))
      BY <1>4, <2>6
    <3> QED  BY <3>1, <3>2, ExactIs
  <2>8. rs \in Seq(KeyRanges) /\ Len(rs) = Len(vs)
    <3>1. rs = [i \in 1 .. Len(vs) |-> Exact(Append(E, vs[i]))]  BY <2>1, <2>6
    <3>2. \A i \in 1 .. Len(vs) : Exact(Append(E, vs[i])) \in KeyRanges  BY <2>7, <3>1
    <3> QED  BY <2>5, <3>1, <3>2
  <2>9. ASSUME NEW i \in 1 .. Len(vs), NEW j \in 1 .. Len(vs), i # j PROVE Apart(rs[i], rs[j])
    <3>1. vs[i] # vs[j] /\ vs[i] \in Int /\ vs[j] \in Int  BY <2>4, <2>6, <2>9 DEF Distinct
    <3>2. /\ rs[i].min = Append(E, vs[i]) /\ rs[j].min = Append(E, vs[j])
          /\ IsExact(rs[i]) /\ IsExact(rs[j])
      BY <2>7
    <3>3. /\ Append(E, vs[i])[m + 1] # Append(E, vs[j])[m + 1]
          /\ Len(Append(E, vs[i])) = Len(Append(E, vs[j])) /\ m + 1 \in 1 .. Len(Append(E, vs[i]))
      BY <1>4, <3>1
    <3> QED  BY <3>2, <3>3 DEF Apart
  <2>10. rs # <<>>  BY <2>5, <2>8
  <2> QED  BY <2>7, <2>8, <2>9, <2>10 DEF RangesOK, rs, E
<1> QED  BY <1>2, <1>6, <1>7, <1>8, <1>9, <1>10, <1>11

\* What the server may choose.
LEMMA PathsAre ==
    ASSUME NEW q \in Statements, NEW p \in Paths(q)
    PROVE  PlanOK(q, p)
<1>0. /\ RangeKeys \subseteq DOMAIN KeyColumns
      /\ \A access, key, rs, parts, desc :
            /\ Plan(access, key, rs, parts, desc).access = access
            /\ Plan(access, key, rs, parts, desc).key = key
            /\ Plan(access, key, rs, parts, desc).ranges = rs
            /\ Plan(access, key, rs, parts, desc).desc = desc
  BY DEF Plan, RangeKeys
<1>1. CASE p = NoPlan
  <2>1. p.access = "scan" /\ p.ranges = <<>> /\ ~p.desc  BY <1>1 DEF NoPlan, Plan
  <2> QED  BY <2>1 DEF PlanOK, ByIndex
<1>2. CASE p # NoPlan
  <2>1. /\ p \in IndexPaths(q) \cup RefPaths(q) \cup RangePaths(q) \cup FullTextPaths(q)
        /\ (p.desc \/ p.access = "index") => InOrder(q, p)
    BY <1>2 DEF Paths
  <2>2. q.count => ~p.desc /\ p.access # "index"
    <3>1. InOrder(q, p) => q.order # NoOrder  BY DEF InOrder
    <3>2. q.order # NoOrder => ~q.count  BY StatementAssumption
    <3> QED  BY <2>1, <3>1, <3>2
  <2>3. CASE p \in IndexPaths(q)
    <3>1. PICK key \in RangeKeys, desc \in BOOLEAN :
             p = Plan("index", key, <<KeyRange(<<>>, "KEY_OR_NEXT", <<>>, "AFTER_KEY")>>, 0, desc)
      BY <2>3 DEF IndexPaths
    <3> DEFINE rs == <<KeyRange(<<>>, "KEY_OR_NEXT", <<>>, "AFTER_KEY")>>
    <3>2. RangesOK(key, rs) /\ rs # <<>>
      <4>1. <<>> \in Seq(Int) /\ "AFTER_KEY" \in RangeFlags  BY DEF RangeFlags
      <4> QED  BY <4>1, OneRange
    <3> HIDE DEF rs
    <3>3. p.access = "index" /\ p.key = key /\ p.ranges = rs  BY <1>0, <3>1 DEF rs
    <3> QED  BY <2>2, <3>2, <3>3 DEF PlanOK, ByIndex
  <2>4. CASE p \in RefPaths(q)
    <3>1. PICK key \in RangeKeys : \E m \in FixedParts(q.where, key) \ {0}, desc \in BOOLEAN :
             p = Plan("ref", key, <<Exact(Fixed(q.where, key, m))>>, m, desc)
      BY <2>4 DEF RefPaths
    <3>2. PICK m \in FixedParts(q.where, key) \ {0}, desc \in BOOLEAN :
             p = Plan("ref", key, <<Exact(Fixed(q.where, key, m))>>, m, desc)
      BY <3>1
    <3> DEFINE v == Fixed(q.where, key, m)  rs == <<Exact(v)>>
    <3>3. /\ m \in 0 .. Len(KeyColumns[key]) /\ v \in Seq(Int) /\ Len(v) = m /\ m # 0
          /\ \A i \in 1 .. m : v[i] \in Int /\ Storable(KeyColumns[key][i], v[i])
          /\ q.where # NoWhere /\ q.where.functype # "MATCH"
      BY FixedIs
    <3> HIDE DEF v
    <3>4. KeyValues(key, v, Len(v))
      <4>1. key \in DOMAIN KeyColumns  BY <1>0
      <4>2. Len(KeyColumns[key]) \in Nat  BY <4>1, KeyFacts
      <4>3. m \in 1 .. Len(KeyColumns[key]) /\ DOMAIN v = 1 .. m  BY <3>3, <4>2
      <4> QED  BY <3>3, <4>3 DEF KeyValues
    <3>5. RangesOK(key, rs) /\ rs # <<>>  BY <3>3, <3>4, OneExact
    <3>6. p.access = "ref" /\ p.key = key /\ p.ranges = rs  BY <1>0, <3>2 DEF v
    <3> HIDE DEF rs
    <3> QED  BY <2>2, <3>3, <3>5, <3>6 DEF PlanOK, ByIndex
  <2>5. CASE p \in RangePaths(q)
    <3>1. PICK key \in RangeKeys :
             \E m \in FixedParts(q.where, key) \ {Len(KeyColumns[key])} :
                \E f \in {g \in Conjuncts(q.where) : /\ Sargable(g, KeyColumns[key][m + 1])
                                                     /\ g.functype # "EQ"}, desc \in BOOLEAN :
                   p = Plan("range", key, RangesOf(f, Fixed(q.where, key, m)), m, desc)
      BY <2>5 DEF RangePaths
    <3>2. PICK m \in FixedParts(q.where, key) \ {Len(KeyColumns[key])} :
             \E f \in {g \in Conjuncts(q.where) : /\ Sargable(g, KeyColumns[key][m + 1])
                                                  /\ g.functype # "EQ"}, desc \in BOOLEAN :
                p = Plan("range", key, RangesOf(f, Fixed(q.where, key, m)), m, desc)
      BY <3>1
    <3>3. PICK f \in Conjuncts(q.where), desc \in BOOLEAN :
             /\ Sargable(f, KeyColumns[key][m + 1]) /\ f.functype # "EQ"
             /\ p = Plan("range", key, RangesOf(f, Fixed(q.where, key, m)), m, desc)
      BY <3>2
    <3> DEFINE rs == RangesOf(f, Fixed(q.where, key, m))
    <3>4. RangesOK(key, rs) /\ rs # <<>>  BY <3>3, RangesOfIs
    <3>5. q.where # NoWhere /\ q.where.functype # "MATCH"
      <4>1. key \in DOMAIN KeyColumns /\ m \in 0 .. Len(KeyColumns[key])  BY <1>0, FixedIs
      <4>2. m + 1 \in DOMAIN KeyColumns[key]  BY <4>1, KeyFacts
      <4>3. KeyColumns[key][m + 1] \in Columns  BY <4>1, <4>2, KeyFacts
      <4> QED  BY <3>3, <4>3, SargableIs
    <3>6. p.access = "range" /\ p.key = key /\ p.ranges = rs  BY <1>0, <3>3
    <3> HIDE DEF rs
    <3> QED  BY <2>2, <3>4, <3>5, <3>6 DEF PlanOK, ByIndex
  <2>6. CASE p \in FullTextPaths(q)
    <3>1. PICK desc \in BOOLEAN : p = Plan("ft", "ft", <<>>, 0, desc)  BY <2>6 DEF FullTextPaths
    <3>2. p.access = "ft" /\ p.key = "ft" /\ p.ranges = <<>>  BY <1>0, <3>1
    <3> QED  BY <2>2, <3>2 DEF PlanOK, ByIndex
  <2> QED  BY <2>1, <2>3, <2>4, <2>5, <2>6
<1> QED  BY <1>1, <1>2

\* Ranges the other way round, and the ranges after the first one.
LEMMA RangesReverse ==
    ASSUME NEW key, NEW rs, RangesOK(key, rs)
    PROVE  RangesOK(key, Reverse(rs)) /\ (rs # <<>> => Reverse(rs) # <<>>)
<1> DEFINE l == Len(rs)  u == Reverse(rs)
<1>1. rs \in Seq(KeyRanges) /\ l \in Nat /\ \A i \in 1 .. l : rs[i] \in KeyRanges  BY DEF RangesOK
<1>2. u = [i \in 1 .. l |-> rs[(l - i) + 1]]  BY DEF Reverse
<1>3. \A i \in 1 .. l : (l - i) + 1 \in 1 .. l  BY <1>1
<1> HIDE DEF u
<1>4. u \in Seq(KeyRanges) /\ Len(u) = l /\ \A i \in 1 .. l : u[i] = rs[(l - i) + 1]
  <2> HIDE DEF l
  <2> QED  BY <1>1, <1>2, <1>3
<1>5. ASSUME NEW i \in 1 .. l, NEW j \in 1 .. l, i # j PROVE Apart(u[i], u[j])
  <2>1. (l - i) + 1 # (l - j) + 1  BY <1>1, <1>5
  <2>2. Apart(rs[(l - i) + 1], rs[(l - j) + 1])  BY <1>3, <2>1 DEF RangesOK
  <2> QED  BY <1>4, <2>2
<1>6. \A i \in 1 .. l : IsExact(u[i]) => KeyValues(key, u[i].min, Len(u[i].min))
  BY <1>3, <1>4 DEF RangesOK
<1>7. rs # <<>> => u # <<>>
  <2>1. rs # <<>> => l # 0  BY <1>1
  <2>2. u = <<>> => l = 0  BY <1>1, <1>4
  <2> QED  BY <2>1, <2>2
<1> QED  BY <1>4, <1>5, <1>6, <1>7 DEF RangesOK, u

\* The ranges after the first one.
LEMMA RangesTail ==
    ASSUME NEW key, NEW rs, RangesOK(key, rs), Len(rs) > 1
    PROVE  /\ RangesOK(key, Tail(rs)) /\ Tail(rs) # <<>> /\ Len(rs) \in Nat
           /\ Len(Tail(rs)) = Len(rs) - 1
           /\ \A i \in 1 .. Len(rs) - 1 : Tail(rs)[i] = rs[i + 1]
<1> DEFINE l == Len(rs)  u == Tail(rs)
<1>1. rs \in Seq(KeyRanges) /\ l \in Nat  BY DEF RangesOK
<1>2. /\ u \in Seq(KeyRanges) /\ Len(u) = l - 1 /\ l - 1 \in Nat
      /\ \A i \in 1 .. l - 1 : u[i] = rs[i + 1] /\ i + 1 \in 1 .. l
  BY <1>1
<1> HIDE DEF u
<1>3. ASSUME NEW i \in 1 .. l - 1, NEW j \in 1 .. l - 1, i # j PROVE Apart(u[i], u[j])
  <2>1. i + 1 # j + 1  BY <1>3
  <2>2. Apart(rs[i + 1], rs[j + 1])  BY <1>2, <2>1 DEF RangesOK
  <2> QED  BY <1>2, <2>2
<1>4. \A i \in 1 .. l - 1 : IsExact(u[i]) => KeyValues(key, u[i].min, Len(u[i].min))
  BY <1>2 DEF RangesOK
<1>5. u # <<>>  BY <1>1, <1>2
<1> QED  BY <1>1, <1>2, <1>3, <1>4, <1>5 DEF RangesOK, u

\* Lookups of different values are about different records.
LEMMA ReachApart ==
    ASSUME NEW t, NEW key, NEW rs, RangesOK(key, rs),
           NEW i \in 1 .. Len(rs), NEW j \in 1 .. Len(rs), i # j
    PROVE  Reach(t, key, rs[i]) \cap Reach(t, key, rs[j]) = {}
<1> DEFINE r == rs[i]  s == rs[j]
<1>1. r \in KeyRanges /\ s \in KeyRanges  BY DEF RangesOK
<1>2. Apart(r, s)  BY DEF RangesOK
<1> HIDE DEF r, s
<1>3. IsExact(r) /\ IsExact(s) /\ Len(r.min) = Len(s.min)  BY <1>2 DEF Apart
<1>4. PICK k \in 1 .. Len(r.min) : r.min[k] # s.min[k]  BY <1>2 DEF Apart
<1>5. k \in DOMAIN r.min /\ k \in DOMAIN s.min
  <2>1. r.min \in Seq(Int) /\ s.min \in Seq(Int)  BY <1>1 DEF KeyRanges
  <2> QED  BY <1>3, <2>1
<1>6. SUFFICES ASSUME NEW id, id \in Reach(t, key, r), id \in Reach(t, key, s) PROVE FALSE
  BY DEF r, s
<1>7. Like(key, r.min, t[id]) /\ Like(key, s.min, t[id])  BY <1>3, <1>6 DEF Reach
<1> QED  BY <1>4, <1>5, <1>7 DEF Like

-----------------------------------------------------------------------------
(* The record buffer. *)

\* A row of a table is one.
LEMMA RowIs ==
    ASSUME NEW t \in Tables, NEW id \in DOMAIN t
    PROVE  t[id] \in Rows /\ \A c \in Columns : t[id][c] \in ColumnValues(c)
<1>1. t[id] \in [Columns -> Int]  BY TableFacts
<1>2. \A c \in Columns : t[id][c] \in ColumnValues(c)  BY DEF ColumnValues
<1>3. \A c \in Columns : t[id][c] \in UNION {ColumnValues(d) : d \in Columns}  BY <1>2
<1>4. t[id] \in [Columns -> UNION {ColumnValues(c) : c \in Columns}]  BY <1>1, <1>3
<1> QED  BY <1>2, <1>4 DEF Rows

\* So is what is put together from them.
LEMMA RowFrom ==
    ASSUME NEW r, r = [c \in Columns |-> r[c]], \A c \in Columns : r[c] \in ColumnValues(c)
    PROVE  r \in Rows
<1>1. \A c \in Columns : r[c] \in UNION {ColumnValues(d) : d \in Columns}  OBVIOUS
<1>2. r \in [Columns -> UNION {ColumnValues(c) : c \in Columns}]  BY <1>1
<1> QED  BY <1>2 DEF Rows

\* A row has a value of each column.
LEMMA RowHas ==
    ASSUME NEW r \in Rows
    PROVE  r = [c \in Columns |-> r[c]] /\ \A c \in Columns : r[c] \in ColumnValues(c)
BY DEF Rows

\* storage_store_fields() fills all the columns, or those of the key.
LEMMA StoreFields ==
    ASSUME table \in Tables, NEW b \in Rows, NEW id \in Ids
    PROVE  /\ storage_store_fields(id, b) \in Rows
           /\ \A c \in Columns : ~ignoring_no_key_columns \/ KeyHas(active_index, c) =>
                 storage_store_fields(id, b)[c] = table[id][c]
<1> DEFINE r == storage_store_fields(id, b)
<1>1. r = [c \in Columns |-> IF ignoring_no_key_columns /\ ~KeyHas(active_index, c)
                             THEN b[c] ELSE table[id][c]]
  BY DEF storage_store_fields, KeyHas
<1>2. \A c \in Columns : b[c] \in ColumnValues(c) /\ table[id][c] \in ColumnValues(c)
  BY RowHas, RowIs DEF Ids
<1> HIDE DEF r
<1>3. r \in Rows  BY <1>1, <1>2, RowFrom
<1> QED  BY <1>1, <1>3 DEF r

\* storage_store_fields_by_index() finds the values of the key in the key.
LEMMA StoreByIndex ==
    ASSUME table \in Tables, active_index \in DOMAIN KeyColumns, NEW b \in Rows, NEW e,
           e.id \in Ids, e.key = IndexKey(active_index, table[e.id])
    PROVE  /\ storage_store_fields_by_index(e, b) \in Rows
           /\ \A c \in Columns : KeyHas(active_index, c) =>
                 storage_store_fields_by_index(e, b)[c] = table[e.id][c]
<1> DEFINE key == active_index  cols == KeyColumns[key]  len == Len(cols)
           text == \E i \in DOMAIN cols : IsString(cols[i])
           vals == IF IsMulti(key) THEN decode(Parts(key), e.key) ELSE e.key
           w == ValuesOf(key, table[e.id])
           r == storage_store_fields_by_index(e, b)
<1>1. CASE text
  <2>1. r = storage_store_fields(e.id, b)  BY <1>1 DEF storage_store_fields_by_index
  <2> QED  BY <2>1, StoreFields
<1>2. CASE ~text
  <2>1. r = [c \in Columns |-> IF KeyHas(key, c) THEN vals[CHOOSE i \in DOMAIN cols : cols[i] = c]
                                                 ELSE b[c]]
    BY <1>2 DEF storage_store_fields_by_index, KeyHas
  <2>2. /\ len \in Nat \ {0} /\ DOMAIN cols = 1 .. len /\ KeyValues(key, w, len)
        /\ \A i \in 1 .. len : ~IsString(cols[i])
        /\ \A i \in 1 .. len : w[i] = table[e.id][cols[i]] /\ w[i] \in Int
    <3>1. /\ len \in Nat \ {0} /\ DOMAIN cols = 1 .. len
          /\ \A i \in 1 .. len : cols[i] \in Columns /\ ~IsString(cols[i])
      BY <1>2, KeyFacts
    <3>2. /\ KeyValues(key, w, len)
          /\ \A i \in 1 .. len : w[i] = Weight(cols[i], table[e.id][cols[i]])
      BY RowValues DEF Ids
    <3>3. \A i \in 1 .. len : w[i] \in Int
      <4> HIDE DEF w, len
      <4> QED  BY <3>2 DEF KeyValues
    <3>4. \A i \in 1 .. len : Weight(cols[i], table[e.id][cols[i]]) = table[e.id][cols[i]]
      BY <3>1, TableFacts, WeightIs DEF Ids
    <3> HIDE DEF w, len
    <3> QED  BY <3>1, <3>2, <3>3, <3>4
  <2>3. \A i \in 1 .. len : ~IsString(cols[i])  BY <2>2
  <2>4. \A i \in 1 .. len : vals[i] = w[i]
    <3>1. CASE IsMulti(key)
      <4> DEFINE v == CodecValues(key, w)
      <4>1. /\ IsKey(Parts(key), len, v, len)
            /\ \A i \in 1 .. len : v[i] = CodecValue(cols[i], w[i])
        BY <2>2, <3>1, CodecValuesAre
      <4>2. vals = decode(Parts(key), encode(Parts(key), v))
        BY <3>1 DEF IndexKey, EncodeKey
      <4> HIDE DEF v, vals, w
      <4>3. vals = [i \in 1 .. len |-> v[i]]  BY <4>1, <4>2, DecodeEncode
      <4> QED  BY <2>3, <4>1, <4>3 DEF CodecValue
    <3>2. CASE ~IsMulti(key)
      <4>1. len = 1  BY <2>2, <3>2 DEF IsMulti
      <4>2. vals = GrnKey(cols[1], w[1])  BY <3>2 DEF IndexKey, EncodeKey
      <4>3. vals = <<w[1]>>  BY <2>3, <4>1, <4>2 DEF GrnKey
      <4> HIDE DEF vals, w
      <4> QED  BY <4>1, <4>3
    <3> QED  BY <3>1, <3>2
  <2> HIDE DEF vals, w, r, key
  <2>5. ASSUME NEW c \in Columns, KeyHas(key, c)
        PROVE  vals[CHOOSE i \in DOMAIN cols : cols[i] = c] = table[e.id][c]
    <3> DEFINE k == CHOOSE i \in DOMAIN cols : cols[i] = c
    <3>1. k \in DOMAIN cols /\ cols[k] = c  BY <2>5 DEF KeyHas
    <3> HIDE DEF k
    <3>2. vals[k] = table[e.id][c]  BY <2>2, <2>4, <3>1
    <3> QED  BY <3>2 DEF k
  <2>6. \A c \in Columns : b[c] \in ColumnValues(c) /\ table[e.id][c] \in ColumnValues(c)
    BY RowHas, RowIs DEF Ids
  <2>7. \A c \in Columns : r[c] = IF KeyHas(key, c) THEN table[e.id][c] ELSE b[c]  BY <2>1, <2>5
  <2>8. r \in Rows
    <3>1. r = [c \in Columns |-> r[c]]  BY <2>1
    <3>2. \A c \in Columns : r[c] \in ColumnValues(c)  BY <2>6, <2>7
    <3> QED  BY <3>1, <3>2, RowFrom
  <2> QED  BY <2>7, <2>8 DEF r, key
<1> QED  BY <1>1, <1>2

\* The columns a statement uses are columns of the table.
LEMMA UsedAre ==
    ASSUME NEW q \in Statements
    PROVE  UsedColumns(q) \subseteq Columns /\ (q.where # NoWhere => ReadColumns(q.where) \subseteq UsedColumns(q))
<1>1. q.cols \subseteq Columns /\ (q.order # NoOrder => q.order.col \in Columns)  BY StatementAssumption
<1>2. q.where # NoWhere => ReadColumns(q.where) \subseteq Columns  BY ConditionAssumption
<1> QED  BY <1>1, <1>2 DEF UsedColumns

\* Two rows that are the same, in the collation, in the columns that a condition
\* reads, and have the same relevance, both satisfy it or do not.
LEMMA Alike ==
    ASSUME NEW q \in Statements, q.where # NoWhere, NEW r \in Rows, NEW s \in Rows,
           \A c \in ReadColumns(q.where) \cup {FullText} : Weight(c, r[c]) = Weight(c, s[c])
    PROVE  SqlHolds(q.where, r) = SqlHolds(q.where, s)
<1> DEFINE C == ReadColumns(q.where) \cup {FullText}
           F(x) == [c \in Columns |-> IF c \in C THEN Weight(c, x[c]) ELSE 0]
<1>1. \A x \in Rows : SqlHolds(q.where, x) = SqlHolds(q.where, F(x))  BY ConditionAssumption
<1>2. F(r) = F(s)  OBVIOUS
<1> HIDE DEF F
<1> QED  BY <1>1, <1>2

\* What the server judges is the row: the columns it reads are, in the collation,
\* those of the record, and the relevance is the one of the record.
LEMMA BufferJudged ==
    ASSUME NEW q \in Statements, q.where # NoWhere, table \in Tables, NEW b \in Rows, NEW id \in Ids,
           \A c \in ReadColumns(q.where) : Weight(c, b[c]) = Weight(c, table[id][c])
    PROVE  SqlHolds(q.where, [b EXCEPT ![FullText] = Relevance(id)]) = SqlHolds(q.where, table[id])
<1> DEFINE r == [b EXCEPT ![FullText] = Relevance(id)]
<1>1. Relevance(id) = table[id][FullText]  BY TableFacts DEF Relevance, Ids
<1>2. FullText \in Columns  BY KeyAssumption
<1>3. table[id] \in Rows /\ table[id][FullText] \in ColumnValues(FullText)  BY <1>2, RowIs DEF Ids
<1>4. b = [c \in Columns |-> b[c]] /\ \A c \in Columns : b[c] \in ColumnValues(c)  BY RowHas
<1>5. r = [c \in Columns |-> IF c = FullText THEN table[id][FullText] ELSE b[c]]
  BY <1>1, <1>4
<1> HIDE DEF r
<1>6. r \in Rows  BY <1>3, <1>4, <1>5, RowFrom
<1>7. \A c \in ReadColumns(q.where) \cup {FullText} : Weight(c, r[c]) = Weight(c, table[id][c])
  <2>1. ReadColumns(q.where) \subseteq Columns  BY ConditionAssumption
  <2> QED  BY <1>2, <1>5, <2>1
<1>8. SqlHolds(q.where, r) = SqlHolds(q.where, table[id])  BY <1>3, <1>6, <1>7, Alike
<1> QED  BY <1>8 DEF r

\* Count skip reads no row: what WHERE compares are columns that the lookup fixes.
LEMMA SkippedAgree ==
    ASSUME query \in Statements, query.where # NoWhere, query.where.functype # "MATCH",
           active_index \in DOMAIN KeyColumns, NEW vals, NEW m, KeyValues(active_index, vals, m),
           check_count_skip(m), NEW r, NEW s, Like(active_index, vals, r), Like(active_index, vals, s)
    PROVE  \A c \in ReadColumns(query.where) : Weight(c, r[c]) = Weight(c, s[c])
<1> DEFINE where == query.where  Same(c) == Weight(c, r[c]) = Weight(c, s[c])
<1>1. is_skippable(where, m)  BY DEF check_count_skip
<1>2. ASSUME NEW c, SkippableField(c, m) PROVE Same(c)
  <2>1. PICK i \in DOMAIN KeyColumns[active_index] : KeyColumns[active_index][i] = c /\ i <= m
    BY <1>2 DEF SkippableField
  <2>2. i \in 1 .. m /\ DOMAIN vals = 1 .. m  BY <2>1, KeyFacts DEF KeyValues
  <2> QED  BY <2>1, <2>2 DEF Like
<1>3. CASE where.type = "COND"
  <2>1. SUFFICES ASSUME NEW c \in ReadColumns(where) PROVE Same(c)  OBVIOUS
  <2>2. PICK i \in DOMAIN where.args : c \in ReadColumns(where.args[i])
    BY <1>3, <2>1, ConditionAssumption
  <2> DEFINE f == where.args[i]
  <2>3. f.type = "FUNC" /\ is_skippable_func(f, m)  BY <1>1, <1>3 DEF is_skippable
  <2>4. f.functype # "MATCH" /\ SkippableField(f.col, m)  BY <2>3 DEF is_skippable_func
  <2>5. ReadColumns(f) = {f.col}
    <3>1. \A j \in DOMAIN where.args :
             where.args[j].type = "FUNC" /\ where.args[j].functype # "MATCH" =>
                ReadColumns(where.args[j]) = {where.args[j].col}
      BY <1>3, ConditionAssumption
    <3> QED  BY <2>3, <2>4, <3>1
  <2> QED  BY <1>2, <2>2, <2>4, <2>5
<1>4. CASE where.type # "COND"
  <2>1. is_skippable_func(where, m)  BY <1>1, <1>4 DEF is_skippable
  <2>2. SkippableField(where.col, m)  BY <2>1 DEF is_skippable_func
  <2>3. ReadColumns(where) = {where.col}  BY <1>4, ConditionAssumption
  <2> QED  BY <1>2, <2>2, <2>3
<1> QED  BY <1>3, <1>4

-----------------------------------------------------------------------------
(* One read call. *)

\* What storage_get_next_record() does with the cursors.
Got(rc, c, e, id, rc2, c2, e2) ==
    \/ /\ rc # None
       /\ id = IF rc = <<>> THEN NIL ELSE Head(rc)
       /\ rc2 = IF rc = <<>> THEN rc ELSE Tail(rc)
       /\ c2 = c /\ e2 = e
    \/ /\ rc = None /\ c # None
       /\ id = IF c = <<>> THEN NIL ELSE Head(c).id
       /\ c2 = IF c = <<>> THEN c ELSE Tail(c)
       /\ rc2 = rc /\ e2 = e
    \/ /\ rc = None /\ c = None
       /\ id = IF e \in {None, <<>>} THEN NIL ELSE Head(e)
       /\ e2 = IF e \in {None, <<>>} THEN e ELSE Tail(e)
       /\ rc2 = rc /\ c2 = c

OpenLen(rc, c, e) ==
    IF rc # None THEN Len(rc) ELSE IF c # None THEN Len(c) ELSE IF e # None THEN Len(e) ELSE 0

\* The cursors are on records of the table.
OpenOK(t, key, rc, c, e) ==
    /\ rc # None => ListOf(t, rc)
    /\ c # None => CursorOf(t, key, c)
    /\ e # None => ListOf(t, e)

\* A record is read that the open cursor had, and it does not have it any more.
LEMMA GotIs ==
    ASSUME NEW t \in Tables, NEW key, NEW rc, NEW c, NEW e, OpenOK(t, key, rc, c, e),
           NEW id, NEW rc2, NEW c2, NEW e2, Got(rc, c, e, id, rc2, c2, e2)
    PROVE  /\ OpenOK(t, key, rc2, c2, e2)
           /\ rc = None <=> rc2 = None
           /\ id \in DOMAIN t \cup {NIL}
           /\ id # NIL => /\ id \in OpenIds(rc, c, e)
                          /\ OpenIds(rc2, c2, e2) = OpenIds(rc, c, e) \ {id}
                          /\ OpenLen(rc, c, e) \in Nat \ {0}
                          /\ OpenLen(rc2, c2, e2) = OpenLen(rc, c, e) - 1
           /\ id # NIL /\ rc = None /\ c # None =>
                 c # <<>> /\ Head(c).id = id /\ Head(c).key = IndexKey(key, t[id])
<1>0. NIL \notin DOMAIN t  BY TableFacts
<1>1. CASE rc # None
  <2>1. ListOf(t, rc)  BY <1>1 DEF OpenOK
  <2>2. /\ id = IF rc = <<>> THEN NIL ELSE Head(rc)
        /\ rc2 = IF rc = <<>> THEN rc ELSE Tail(rc)
        /\ c2 = c /\ e2 = e
    BY <1>1 DEF Got
  <2>3. rc # <<>> => /\ ListOf(t, Tail(rc)) /\ Head(rc) \in DOMAIN t /\ Len(rc) \in Nat \ {0}
                     /\ Len(Tail(rc)) = Len(rc) - 1
                     /\ Head(rc) \in {rc[i] : i \in DOMAIN rc}
                     /\ {Tail(rc)[i] : i \in DOMAIN Tail(rc)} = {rc[i] : i \in DOMAIN rc} \ {Head(rc)}
    BY <2>1, ListTail
  <2>4. ListOf(t, rc2)  BY <2>1, <2>2, <2>3
  <2>5. rc2 # None  BY <2>4, NoneIs
  <2>6. OpenOK(t, key, rc2, c2, e2)  BY <2>2, <2>4 DEF OpenOK
  <2>7. CASE rc = <<>>  BY <1>1, <2>2, <2>5, <2>6, <2>7
  <2>8. CASE rc # <<>>
    <3>1. id = Head(rc) /\ rc2 = Tail(rc)  BY <2>2, <2>8
    <3>2. /\ OpenIds(rc, c, e) = {rc[i] : i \in DOMAIN rc} /\ OpenLen(rc, c, e) = Len(rc)
          /\ OpenIds(rc2, c2, e2) = {rc2[i] : i \in DOMAIN rc2} /\ OpenLen(rc2, c2, e2) = Len(rc2)
      BY <1>1, <2>5 DEF OpenIds, OpenLen
    <3>3. {rc2[i] : i \in DOMAIN rc2} = {rc[i] : i \in DOMAIN rc} \ {id}
      BY <2>3, <2>8, <3>1
    <3>4. OpenIds(rc2, c2, e2) = OpenIds(rc, c, e) \ {id}  BY <3>2, <3>3
    <3>5. id \in OpenIds(rc, c, e) /\ OpenLen(rc, c, e) \in Nat \ {0}
          /\ OpenLen(rc2, c2, e2) = OpenLen(rc, c, e) - 1
      BY <2>3, <2>8, <3>1, <3>2
    <3>6. id \in DOMAIN t  BY <2>3, <2>8, <3>1
    <3> QED  BY <1>0, <1>1, <2>5, <2>6, <3>4, <3>5, <3>6
  <2> QED  BY <2>7, <2>8
<1>2. CASE rc = None /\ c # None
  <2>1. CursorOf(t, key, c)  BY <1>2 DEF OpenOK
  <2>2. /\ id = IF c = <<>> THEN NIL ELSE Head(c).id
        /\ c2 = IF c = <<>> THEN c ELSE Tail(c)
        /\ rc2 = rc /\ e2 = e
    BY <1>2 DEF Got
  <2>3. c # <<>> => /\ CursorOf(t, key, Tail(c)) /\ Len(c) \in Nat \ {0} /\ Len(Tail(c)) = Len(c) - 1
                    /\ Head(c).id \in DOMAIN t /\ Head(c).key = IndexKey(key, t[Head(c).id])
                    /\ Head(c).id \in {c[i].id : i \in DOMAIN c}
                    /\ {Tail(c)[i].id : i \in DOMAIN Tail(c)} = {c[i].id : i \in DOMAIN c} \ {Head(c).id}
    BY <2>1, CursorTail
  <2>4. CursorOf(t, key, c2)  BY <2>1, <2>2, <2>3
  <2>5. c2 # None  BY <2>4, NoneIs
  <2>6. OpenOK(t, key, rc2, c2, e2)  BY <2>2, <2>4 DEF OpenOK
  <2>7. CASE c = <<>>  BY <1>2, <2>2, <2>5, <2>6, <2>7
  <2>8. CASE c # <<>>
    <3>1. id = Head(c).id /\ c2 = Tail(c)  BY <2>2, <2>8
    <3>2. /\ OpenIds(rc, c, e) = {c[i].id : i \in DOMAIN c} /\ OpenLen(rc, c, e) = Len(c)
          /\ OpenIds(rc2, c2, e2) = {c2[i].id : i \in DOMAIN c2} /\ OpenLen(rc2, c2, e2) = Len(c2)
      BY <1>2, <2>2, <2>5 DEF OpenIds, OpenLen
    <3>3. {c2[i].id : i \in DOMAIN c2} = {c[i].id : i \in DOMAIN c} \ {id}
      BY <2>3, <2>8, <3>1
    <3>4. OpenIds(rc2, c2, e2) = OpenIds(rc, c, e) \ {id}  BY <3>2, <3>3
    <3>5. id \in OpenIds(rc, c, e) /\ OpenLen(rc, c, e) \in Nat \ {0}
          /\ OpenLen(rc2, c2, e2) = OpenLen(rc, c, e) - 1
      BY <2>3, <2>8, <3>1, <3>2
    <3>6. id \in DOMAIN t  BY <2>3, <2>8, <3>1
    <3> QED  BY <1>0, <1>2, <2>2, <2>3, <2>6, <2>8, <3>1, <3>4, <3>5, <3>6
  <2> QED  BY <2>7, <2>8
<1>3. CASE rc = None /\ c = None
  <2>2. /\ id = IF e \in {None, <<>>} THEN NIL ELSE Head(e)
        /\ e2 = IF e \in {None, <<>>} THEN e ELSE Tail(e)
        /\ rc2 = rc /\ c2 = c
    BY <1>3 DEF Got
  <2>3. CASE e \in {None, <<>>}
    <3>1. id = NIL /\ e2 = e /\ rc2 = rc /\ c2 = c  BY <2>2, <2>3
    <3> QED  BY <1>3, <3>1
  <2>4. CASE e \notin {None, <<>>}
    <3>1. ListOf(t, e) /\ id = Head(e) /\ e2 = Tail(e)  BY <2>2, <2>4 DEF OpenOK
    <3>2. /\ ListOf(t, Tail(e)) /\ Head(e) \in DOMAIN t /\ Len(e) \in Nat \ {0}
          /\ Len(Tail(e)) = Len(e) - 1
          /\ Head(e) \in {e[i] : i \in DOMAIN e}
          /\ {Tail(e)[i] : i \in DOMAIN Tail(e)} = {e[i] : i \in DOMAIN e} \ {Head(e)}
      BY <2>4, <3>1, ListTail
    <3>3. e2 # None  BY <3>1, <3>2, NoneIs
    <3>4. OpenOK(t, key, rc2, c2, e2)  BY <1>3, <2>2, <3>1, <3>2 DEF OpenOK
    <3>5. /\ OpenIds(rc, c, e) = {e[i] : i \in DOMAIN e} /\ OpenLen(rc, c, e) = Len(e)
          /\ OpenIds(rc2, c2, e2) = {e2[i] : i \in DOMAIN e2} /\ OpenLen(rc2, c2, e2) = Len(e2)
      BY <1>3, <2>2, <2>4, <3>3 DEF OpenIds, OpenLen
    <3>6. {e2[i] : i \in DOMAIN e2} = {e[i] : i \in DOMAIN e} \ {id}
      BY <3>2, <3>1
    <3>7. OpenIds(rc2, c2, e2) = OpenIds(rc, c, e) \ {id}  BY <3>5, <3>6
    <3>8. id \in OpenIds(rc, c, e) /\ OpenLen(rc, c, e) \in Nat \ {0}
          /\ OpenLen(rc2, c2, e2) = OpenLen(rc, c, e) - 1
      BY <3>2, <3>1, <3>5
    <3>9. id \in DOMAIN t  BY <3>2, <3>1
    <3> QED  BY <1>0, <1>3, <2>2, <3>4, <3>7, <3>8, <3>9
  <2> QED  BY <2>3, <2>4
<1> QED  BY <1>1, <1>2, <1>3

\* The open cursor is no longer than the table.
LEMMA OpenLenIs ==
    ASSUME NEW t \in Tables, NEW key, NEW rc, NEW c, NEW e, OpenOK(t, key, rc, c, e)
    PROVE  /\ OpenLen(rc, c, e) \in Nat /\ Cardinality(DOMAIN t) \in Nat
           /\ OpenLen(rc, c, e) <= Cardinality(DOMAIN t)
           /\ OpenIds(rc, c, e) \subseteq DOMAIN t
<1>1. rc # None => Len(rc) \in Nat /\ Len(rc) <= Cardinality(DOMAIN t)  BY ListLen DEF OpenOK
<1>2. c # None => Len(c) \in Nat /\ Len(c) <= Cardinality(DOMAIN t)  BY CursorLen DEF OpenOK
<1>3. e # None => Len(e) \in Nat /\ Len(e) <= Cardinality(DOMAIN t)  BY ListLen DEF OpenOK
<1>4. Cardinality(DOMAIN t) \in Nat  BY TableFacts
<1>5. \A s : ListOf(t, s) => {s[i] : i \in DOMAIN s} \subseteq DOMAIN t  BY DEF ListOf
<1>6. CursorOf(t, key, c) => {c[i].id : i \in DOMAIN c} \subseteq DOMAIN t
  <2> DEFINE E == [id : DOMAIN t, key : Seq(Int)]
  <2>1. CursorOf(t, key, c) => c \in Seq(E)  BY DEF CursorOf
  <2>2. \A x \in E : x.id \in DOMAIN t  OBVIOUS
  <2> HIDE DEF E
  <2> QED  BY <2>1, <2>2
<1>7. OpenIds(rc, c, e) \subseteq DOMAIN t  BY <1>5, <1>6 DEF OpenIds, OpenOK
<1> QED  BY <1>1, <1>2, <1>3, <1>4, <1>7 DEF OpenLen

\* What the server does with a record: it goes on to the next range or to the
\* end, or it judges the record.
Moves ==
    /\ UNCHANGED <<pending, n>>
    /\ \/ Len(todo) > 1 /\ todo' = Tail(todo) /\ phase' = "first"
       \/ ~(Len(todo) > 1) /\ todo' = todo /\ phase' = "end"
Judges ==
    /\ todo' = todo /\ phase' \in {"next", "end"}
    /\ n' = n \/ (query.count /\ n' = n + 1)
    /\ \/ pending' = pending
       \/ \E k \in Int : pending' = Append(pending, [ref |-> record_id', key |-> k])

\* The sort key of a row, a column or the relevance, is a number.
LEMMA KeyOfSort ==
    ASSUME table \in Tables, query \in Statements, Filesort, NEW id \in Ids \cup {NIL}, NEW b \in Rows
    PROVE  SortKey(id, b) \in Int
<1>1. query.order.col \in Columns  BY StatementAssumption DEF Filesort
<1>2. Relevance(id) \in Int
  <2>1. FullText \in Columns  BY KeyAssumption
  <2>2. id # NIL => table[id][FullText] \in Int  BY <2>1, TableFacts DEF Ids
  <2> QED  BY <2>2 DEF Relevance
<1>3. ASSUME NEW c \in Columns PROVE Weight(c, b[c]) \in Int
  <2>1. b[c] = 0 \/ \E t \in Tables : \E i \in DOMAIN t : b[c] = t[i][c]
    BY RowHas DEF ColumnValues
  <2>2. CASE b[c] = 0
    <3>1. CASE c \in Normalized
      <4>1. 0 \in 0 .. MaxByte  BY BaseFacts DEF Byte
      <4>2. Weight(c, 0) \in 0 .. MaxByte  BY <3>1, <4>1, CollationAssumption
      <4> QED  BY <2>2, <4>2
    <3>2. CASE c \notin Normalized  BY <2>2, <3>2 DEF Weight
    <3> QED  BY <3>1, <3>2
  <2>3. CASE \E t \in Tables : \E i \in DOMAIN t : b[c] = t[i][c]  BY <2>3, TableFacts, WeightIs
  <2> QED  BY <2>1, <2>2, <2>3
<1> QED  BY <1>1, <1>2, <1>3 DEF SortKey

\* The two cases of what the server does with the record of a read call.
LEMMA ReceivedRecord ==
    ASSUME table \in Tables, query \in Statements, record_id' \in Ids \cup {NIL}, buf' \in Rows,
           Received(record_id' = NIL)
    PROVE  /\ UNCHANGED <<table, server, pushType, query, plan>>
           /\ Moves \/ (record_id' # NIL /\ Judges)
<1>1. UNCHANGED <<table, server, pushType, query, plan>>  BY DEF Received
<1>2. CASE record_id' = NIL \/ PastEnd(buf')  BY <1>2 DEF Received, Moves
<1>3. CASE ~(record_id' = NIL \/ PastEnd(buf'))
  <2>1. todo' = todo  BY <1>3 DEF Received
  <2>2. \/ /\ phase' = "next"
           /\ UNCHANGED <<pending, out, n>>
        \/ /\ query.count
           /\ phase' = "next"
           /\ n' = n + 1
           /\ UNCHANGED <<pending, out>>
        \/ /\ Filesort
           /\ phase' = "next"
           /\ pending' = Append(pending,
                 [ref |-> record_id',
                  key |-> SortKey(record_id', buf')])
           /\ UNCHANGED <<out, n>>
        \/ /\ phase' \in {"next", "end"}
           /\ UNCHANGED <<pending, n>>
    <3>1. phase' = (IF Len(out') = query.limit THEN "end" ELSE "next") => phase' \in {"next", "end"}
      OBVIOUS
    <3> QED  BY <1>3, <3>1 DEF Received
  <2>3. Filesort => SortKey(record_id', buf') \in Int
    BY KeyOfSort
  <2>4. Judges
    <3>1. CASE phase' = "next" /\ UNCHANGED <<pending, out, n>>  BY <2>1, <3>1 DEF Judges
    <3>2. CASE query.count /\ phase' = "next" /\ n' = n + 1 /\ UNCHANGED <<pending, out>>
      BY <2>1, <3>2 DEF Judges
    <3>3. ASSUME Filesort, phase' = "next", UNCHANGED <<out, n>>,
                 pending' = Append(pending,
                    [ref |-> record_id',
                     key |-> SortKey(record_id', buf')])
          PROVE  Judges
      <4> DEFINE k == SortKey(record_id', buf')
      <4>1. k \in Int /\ pending' = Append(pending, [ref |-> record_id', key |-> k])  BY <2>3, <3>3
      <4> HIDE DEF k
      <4> QED  BY <2>1, <3>3, <4>1 DEF Judges
    <3>4. CASE phase' \in {"next", "end"} /\ UNCHANGED <<pending, n>>  BY <2>1, <3>4 DEF Judges
    <3> QED  BY <2>2, <3>1, <3>2, <3>3, <3>4
  <2> QED  BY <1>1, <1>3, <2>4
<1> QED  BY <1>1, <1>2, <1>3

\* The same for storage_ft_read().
LEMMA ReceivedMatch ==
    ASSUME table \in Tables, query \in Statements, record_id' \in Ids \cup {NIL}, buf' \in Rows,
           Received(ft = <<>>)
    PROVE  /\ UNCHANGED <<table, server, pushType, query, plan>>
           /\ Moves \/ (ft # <<>> /\ Judges)
<1>1. UNCHANGED <<table, server, pushType, query, plan>>  BY DEF Received
<1>2. CASE ft = <<>> \/ PastEnd(buf')  BY <1>2 DEF Received, Moves
<1>3. CASE ~(ft = <<>> \/ PastEnd(buf'))
  <2>1. todo' = todo  BY <1>3 DEF Received
  <2>2. \/ /\ phase' = "next"
           /\ UNCHANGED <<pending, out, n>>
        \/ /\ query.count
           /\ phase' = "next"
           /\ n' = n + 1
           /\ UNCHANGED <<pending, out>>
        \/ /\ Filesort
           /\ phase' = "next"
           /\ pending' = Append(pending,
                 [ref |-> record_id',
                  key |-> SortKey(record_id', buf')])
           /\ UNCHANGED <<out, n>>
        \/ /\ phase' \in {"next", "end"}
           /\ UNCHANGED <<pending, n>>
    <3>1. phase' = (IF Len(out') = query.limit THEN "end" ELSE "next") => phase' \in {"next", "end"}
      OBVIOUS
    <3> QED  BY <1>3, <3>1 DEF Received
  <2>3. Filesort => SortKey(record_id', buf') \in Int
    BY KeyOfSort
  <2>4. Judges
    <3>1. CASE phase' = "next" /\ UNCHANGED <<pending, out, n>>  BY <2>1, <3>1 DEF Judges
    <3>2. CASE query.count /\ phase' = "next" /\ n' = n + 1 /\ UNCHANGED <<pending, out>>
      BY <2>1, <3>2 DEF Judges
    <3>3. ASSUME Filesort, phase' = "next", UNCHANGED <<out, n>>,
                 pending' = Append(pending,
                    [ref |-> record_id',
                     key |-> SortKey(record_id', buf')])
          PROVE  Judges
      <4> DEFINE k == SortKey(record_id', buf')
      <4>1. k \in Int /\ pending' = Append(pending, [ref |-> record_id', key |-> k])  BY <2>3, <3>3
      <4> HIDE DEF k
      <4> QED  BY <2>1, <3>3, <4>1 DEF Judges
    <3>4. CASE phase' \in {"next", "end"} /\ UNCHANGED <<pending, n>>  BY <2>1, <3>4 DEF Judges
    <3> QED  BY <2>2, <3>1, <3>2, <3>3, <3>4
  <2> QED  BY <1>1, <1>3, <2>4
<1> QED  BY <1>1, <1>2, <1>3

-----------------------------------------------------------------------------
(* The steps that read nothing. *)

\* The handler does not decide who sorts.
LEMMA SameSort ==
    ASSUME UNCHANGED <<server, query, plan>>
    PROVE  Filesort' <=> Filesort
BY DEF Filesort, InOrder

\* A COUNT that has counted nothing yet.
LEMMA NothingCounted ==
    ASSUME n' = 0
    PROVE  CountInv'
<1>1. Cardinality({}) = 0  BY FS_EmptySet
<1>2. {} \in SUBSET Ids' /\ {} \cap Ahead' = {}  OBVIOUS
<1> QED  BY <1>1, <1>2 DEF CountInv

\* A COUNT that has no more before it than it had.
LEMMA CountSame ==
    ASSUME CountInv, UNCHANGED <<table, query, n>>, Ahead' \subseteq Ahead
    PROVE  CountInv'
<1>1. CASE ~query.count  BY <1>1 DEF CountInv
<1>2. CASE query.count
  <2>1. PICK C \in SUBSET Ids : n = Cardinality(C) /\ C \cap Ahead = {}  BY <1>2 DEF CountInv
  <2>2. C \in SUBSET Ids' /\ n' = Cardinality(C) /\ C \cap Ahead' = {}  BY <2>1 DEF Ids
  <2> QED  BY <1>2, <2>2 DEF CountInv
<1> QED  BY <1>1, <1>2

\* No statement has been run.
LEMMA InitStep ==
    ASSUME Init
    PROVE  SearchInv
<1>1. table \in Tables /\ phase = "idle" /\ query = NoQuery  BY DEF Init
<1>2. query.where = NoWhere /\ ~query.count  BY <1>1 DEF NoQuery
<1>3. TypeInv
  <2>1. buf \in Rows
    <3>1. buf = [c \in Columns |-> 0]  BY DEF Init
    <3>2. buf = [c \in Columns |-> buf[c]]  BY <3>1
    <3>3. \A c \in Columns : buf[c] \in ColumnValues(c)  BY <3>1 DEF ColumnValues
    <3> QED  BY <3>2, <3>3, RowFrom
  <2>2. pending \in Seq([ref : Ids, key : Int])  BY DEF Init
  <2>3. pushed_cond = NoWhere /\ record_id = NIL /\ active_index = None  BY DEF Init
  <2> QED  BY <1>1, <2>1, <2>2, <2>3 DEF TypeInv, Phases
<1>4. TodoInv  BY DEF Init, TodoInv
<1>5. CursorInv  BY DEF Init, CursorInv
<1>6. CleanInv  BY DEF Init, CleanInv
<1>7. BufInv /\ ReachInv  BY <1>1 DEF BufInv, ReachInv
<1>8. CountInv
  <2>1. n = 0  BY DEF Init
  <2> QED  BY <1>2, <2>1 DEF CountInv
<1> QED  BY <1>3, <1>4, <1>5, <1>6, <1>7, <1>8 DEF SearchInv

\* The server picks a statement and an access path: its ranges are ranges of the key.
LEMMA StartStep ==
    ASSUME SearchInv, NEW q \in Statements, NEW p \in Paths(q), Start(q, p)
    PROVE  SearchInv'
<1>0. /\ phase = "idle" /\ phase' = "push" /\ query' = q /\ plan' = p
      /\ todo' = IF p.desc THEN Reverse(p.ranges) ELSE p.ranges
      /\ pending' = <<>> /\ n' = 0
      /\ UNCHANGED <<table, handlerVars>>
  BY DEF Start
<1>1. PlanOK(q, p)  BY PathsAre
<1>2. TypeInv'
  <2>1. pushed_cond' = NoWhere  BY <1>0 DEF SearchInv, CleanInv, handlerVars
  <2>2. pending' \in Seq([ref : Ids', key : Int])  BY <1>0
  <2>3. record_id' \in Ids' \cup {NIL} /\ active_index' \in DOMAIN KeyColumns \cup {None}
        /\ buf' \in Rows /\ table' \in Tables
    BY <1>0 DEF SearchInv, TypeInv, handlerVars, Ids
  <2> QED  BY <1>0, <1>1, <2>1, <2>2, <2>3 DEF TypeInv, Phases
<1>3. TodoInv'
  <2>1. CASE ByIndex(p)
    <3>1. RangesOK(p.key, p.ranges) /\ p.ranges # <<>>  BY <1>1, <2>1 DEF PlanOK
    <3>2. RangesOK(p.key, todo') /\ todo' # <<>>  BY <1>0, <3>1, RangesReverse
    <3>3. todo' \in Seq(KeyRanges)  BY <3>2 DEF RangesOK
    <3> QED  BY <1>0, <2>1, <3>2, <3>3 DEF TodoInv
  <2>2. CASE ~ByIndex(p)
    <3>1. p.ranges = <<>>  BY <1>1, <2>2 DEF PlanOK, ByIndex
    <3>2. todo' = <<>>
      <4>1. Reverse(<<>>) = <<>>  BY DEF Reverse
      <4> QED  BY <1>0, <3>1, <4>1
    <3>3. todo' \in Seq(KeyRanges)  BY <3>2
    <3> QED  BY <1>0, <2>2, <3>2, <3>3 DEF TodoInv
  <2> QED  BY <2>1, <2>2
<1>4. CursorInv'  BY <1>0 DEF SearchInv, CursorInv, CleanInv, handlerVars
<1>5. CleanInv'  BY <1>0 DEF SearchInv, CleanInv, handlerVars
<1>6. BufInv' /\ ReachInv'  BY <1>0 DEF BufInv, ReachInv
<1>7. CountInv'  BY <1>0, NothingCounted
<1> QED  BY <1>2, <1>3, <1>4, <1>5, <1>6, <1>7 DEF SearchInv

\* Steps that change neither the statement nor what is to be read.
LEMMA TodoSame ==
    ASSUME TodoInv, UNCHANGED <<plan, todo>>, phase \notin {"idle", "answered"}
    PROVE  TodoInv'
BY DEF TodoInv

\* storage_cond_push()
LEMMA CondPushStep ==
    ASSUME SearchInv, CondPush
    PROVE  SearchInv'
<1>0. /\ phase = "push" /\ phase' = "init" /\ pushed_cond' \in {NoWhere, query.where}
      /\ UNCHANGED <<table, serverVars, cursor, result_cursor, empty_cursor, ft, record_id,
                     count_skip, ignoring_no_key_columns, active_index, buf>>
  BY DEF CondPush
<1>1. TypeInv'
  BY <1>0 DEF SearchInv, TypeInv, Phases, serverVars, Ids
<1>2. TodoInv'  BY <1>0, TodoSame DEF SearchInv, serverVars
<1>3. CursorInv'  BY <1>0 DEF SearchInv, CursorInv, CleanInv
<1>4. CleanInv'  BY <1>0 DEF SearchInv, CleanInv
<1>5. BufInv' /\ ReachInv'  BY <1>0 DEF BufInv, ReachInv
<1>6. CountInv'
  <2>1. Ahead' \subseteq Ahead  BY <1>0 DEF Ahead, Ids
  <2> QED  BY <1>0, <2>1, CountSame DEF SearchInv, serverVars
<1> QED  BY <1>1, <1>2, <1>3, <1>4, <1>5, <1>6 DEF SearchInv

\* storage_rnd_init() opens a cursor on records of the table.
LEMMA RndInitIs ==
    ASSUME SearchInv, query \in Statements, storage_rnd_init
    PROVE  /\ result_cursor' # result_cursor => ListOf(table, result_cursor')
           /\ cursor' # cursor => CursorOf(table, Primary, cursor')
           /\ pushed_cond = NoWhere => UNCHANGED <<result_cursor, count_skip>>
           /\ pushed_cond # NoWhere => UNCHANGED cursor
<1>1. table \in Tables  BY DEF SearchInv, TypeInv
<1>2. CASE pushed_cond = NoWhere
  <2>1. cursor' = TableCursor(InIdOrder(Ids)) /\ UNCHANGED <<result_cursor, count_skip>>
    BY <1>2 DEF storage_rnd_init
  <2> QED  BY <1>1, <1>2, <2>1, ScanIs
<1>3. CASE pushed_cond # NoWhere
  <2> DEFINE ids == Selected(pushed_cond)
  <2>1. /\ result_cursor' = IF check_fast_order_limit THEN Cut(Sorted(ids, query.order), query.limit)
                                                      ELSE InIdOrder(ids)
        /\ UNCHANGED cursor
    BY <1>3 DEF storage_rnd_init
  <2>2. ids \in SUBSET Ids  BY DEF Selected
  <2> HIDE DEF ids
  <2>3. ListOf(table, InIdOrder(ids))  BY <1>1, <2>2, IdsInOrder DEF Ids
  <2>4. check_fast_order_limit => ListOf(table, Cut(Sorted(ids, query.order), query.limit))
    <3>1. check_fast_order_limit => query.order # NoOrder  BY DEF check_fast_order_limit
    <3>2. (query.order # NoOrder => query.order.col \in Columns) /\ query.limit \in Nat
      BY StatementAssumption
    <3>3. query.order.col \in Columns => ListOf(table, Sorted(ids, query.order))  BY <1>1, <2>2, IdsSorted
    <3> QED  BY <3>1, <3>2, <3>3, ListCut
  <2> QED  BY <1>3, <2>1, <2>3, <2>4
<1> QED  BY <1>2, <1>3

\* storage_rnd_init()
LEMMA RndInitStep ==
    ASSUME SearchInv, RndInit
    PROVE  SearchInv'
<1>0. /\ phase = "init" /\ plan.access = "scan" /\ storage_rnd_init /\ phase' = "next"
      /\ UNCHANGED <<table, serverVars, pushed_cond, empty_cursor, ft, record_id,
                     ignoring_no_key_columns, active_index, buf>>
  BY DEF RndInit
<1>1. query \in Statements /\ table \in Tables /\ Primary \in DOMAIN KeyColumns
  BY <1>0, KeyAssumption DEF SearchInv, TypeInv
<1>2. /\ result_cursor' # result_cursor => ListOf(table, result_cursor')
      /\ cursor' # cursor => CursorOf(table, Primary, cursor')
  BY <1>0, <1>1, RndInitIs
<1>3. cursor = None /\ result_cursor = None /\ empty_cursor = None  BY <1>0 DEF SearchInv, CleanInv
<1>4. TypeInv'
  BY <1>0 DEF SearchInv, TypeInv, Phases, serverVars, Ids
<1>5. TodoInv'  BY <1>0, TodoSame DEF SearchInv, serverVars
<1>6. CursorInv'  BY <1>0, <1>1, <1>2, <1>3 DEF CursorInv, ByIndex, serverVars
<1>7. CleanInv'  BY <1>0 DEF SearchInv, CleanInv, serverVars
<1>8. BufInv' /\ ReachInv'  BY <1>0 DEF BufInv, ReachInv, ByIndex, serverVars
<1>9. CountInv'
  <2>1. OpenOK(table, Primary, result_cursor', cursor', empty_cursor')
    BY <1>0, <1>2, <1>3 DEF OpenOK
  <2>2. OpenIds(result_cursor', cursor', empty_cursor') \subseteq Ids
    BY <1>1, <2>1, OpenLenIs DEF Ids
  <2>3. Ahead' = OpenIds(result_cursor', cursor', empty_cursor')  BY <1>0 DEF Ahead, serverVars
  <2>4. Ahead = Ids  BY <1>0 DEF Ahead
  <2> QED  BY <1>0, <2>2, <2>3, <2>4, CountSame DEF SearchInv, serverVars
<1> QED  BY <1>4, <1>5, <1>6, <1>7, <1>8, <1>9 DEF SearchInv

\* storage_index_init(), and HA_EXTRA_KEYREAD.
LEMMA IndexInitStep ==
    ASSUME SearchInv, NEW k \in BOOLEAN, IndexInit(k)
    PROVE  SearchInv'
<1>0. /\ phase = "init" /\ plan.access # "scan" /\ phase' = "first"
      /\ active_index' = plan.key
      /\ ignoring_no_key_columns' => /\ plan.access # "ft"
                                     /\ HasKeyRead(plan.key, UsedColumns(query)) /\ ~Filesort
      /\ UNCHANGED <<table, serverVars, pushed_cond, cursors, ft, record_id, count_skip, buf>>
  BY DEF IndexInit
<1>1. PlanOK(query, plan) /\ query \in Statements  BY <1>0 DEF SearchInv, TypeInv
<1>2. plan.key \in DOMAIN KeyColumns /\ (plan.access # "ft" => ByIndex(plan))
  BY <1>0, <1>1, KeyAssumption DEF PlanOK, ByIndex, RangeKeys
<1>3. cursor' = None /\ result_cursor' = None /\ empty_cursor' = None
  BY <1>0 DEF SearchInv, CleanInv, cursors
<1>4. TypeInv'
  BY <1>0, <1>2 DEF SearchInv, TypeInv, Phases, serverVars, Ids
<1>5. TodoInv'  BY <1>0, TodoSame DEF SearchInv, serverVars
<1>6. CursorInv'  BY <1>0, <1>3 DEF CursorInv
<1>7. CleanInv'
  <2>1. Filesort' <=> Filesort  BY <1>0, SameSort DEF serverVars
  <2>2. ignoring_no_key_columns' => /\ ByIndex(plan')
                                    /\ HasKeyRead(plan'.key, UsedColumns(query')) /\ ~Filesort'
    BY <1>0, <1>2, <2>1 DEF serverVars
  <2> QED  BY <1>0, <1>3, <2>2 DEF CleanInv, serverVars
<1>8. BufInv' /\ ReachInv'  BY <1>0 DEF BufInv, ReachInv
<1>9. CountInv'
  <2>1. Ahead = Ids  BY <1>0 DEF Ahead
  <2>2. Ahead' \subseteq Ids
    <3>1. RangesAhead(1)' \subseteq Ids  BY <1>0 DEF RangesAhead, Reach, Ids
    <3> QED  BY <1>0, <3>1 DEF Ahead, Ids
  <2> QED  BY <1>0, <2>1, <2>2, CountSame DEF SearchInv, serverVars
<1> QED  BY <1>4, <1>5, <1>6, <1>7, <1>8, <1>9 DEF SearchInv

\* storage_ft_init() finds records of the table, each once.
LEMMA FtInitStep ==
    ASSUME SearchInv, FtInit
    PROVE  SearchInv'
<1> DEFINE ids == {id \in Ids : table[id][FullText] > 0}
           sorted == InOrder(query, plan)
           fast == /\ ~sorted /\ (server = "mariadb" \/ pushed_cond = NoWhere)
                   /\ check_fast_order_limit
<1>0. /\ phase = "first" /\ plan.access = "ft" /\ phase' = "next" /\ record_id' = NIL
      /\ UNCHANGED <<table, serverVars, pushed_cond, cursors, ignoring_no_key_columns,
                     active_index, buf>>
  BY DEF FtInit
<1>1. query \in Statements /\ table \in Tables  BY <1>0 DEF SearchInv, TypeInv
<1>2. ft' = CASE sorted -> Sorted(ids, query.order)
              [] fast -> Cut(Sorted(ids, query.order), query.limit)
              [] OTHER -> InIdOrder(ids)
  BY DEF FtInit
<1>3. (sorted => query.order # NoOrder) /\ (fast => query.order # NoOrder /\ ~sorted)
  BY DEF InOrder, check_fast_order_limit
<1>4. (query.order # NoOrder => query.order.col \in Columns) /\ query.limit \in Nat
  BY <1>1, StatementAssumption
<1>5. ids \in SUBSET Ids  OBVIOUS
<1> HIDE DEF ids, sorted, fast
<1>6. ListOf(table, ft')
  <2>1. ListOf(table, InIdOrder(ids))  BY <1>1, <1>5, IdsInOrder DEF Ids
  <2>2. query.order # NoOrder => /\ ListOf(table, Sorted(ids, query.order))
                                 /\ ListOf(table, Cut(Sorted(ids, query.order), query.limit))
    BY <1>1, <1>4, <1>5, IdsSorted, ListCut
  <2>3. CASE sorted  BY <1>2, <1>3, <2>2, <2>3
  <2>4. CASE fast  BY <1>2, <1>3, <2>2, <2>4
  <2>5. CASE ~sorted /\ ~fast  BY <1>2, <2>1, <2>5
  <2> QED  BY <2>3, <2>4, <2>5
<1>7. TypeInv'
  BY <1>0 DEF SearchInv, TypeInv, Phases, serverVars, Ids
<1>8. TodoInv'  BY <1>0, TodoSame DEF SearchInv, serverVars
<1>9. CursorInv'  BY <1>0, <1>6 DEF SearchInv, CursorInv, ByIndex, serverVars, cursors
<1>10. CleanInv'
  <2>1. Filesort' <=> Filesort  BY <1>0, SameSort DEF serverVars
  <2> QED  BY <1>0, <2>1 DEF SearchInv, CleanInv, serverVars, cursors, ByIndex
<1>11. BufInv' /\ ReachInv'  BY <1>0 DEF BufInv, ReachInv, ByIndex, serverVars
<1>12. CountInv'
  <2>1. Ahead = Ids /\ Ahead' = {ft'[i] : i \in DOMAIN ft'}  BY <1>0 DEF Ahead, serverVars
  <2>2. ft' \in Seq(Ids)  BY <1>6 DEF ListOf, Ids
  <2>3. \A i \in DOMAIN ft' : ft'[i] \in Ids  BY <2>2
  <2>4. Ahead' \subseteq Ahead  BY <2>1, <2>3
  <2> QED  BY <1>0, <2>4, CountSame DEF SearchInv, serverVars
<1> QED  BY <1>7, <1>8, <1>9, <1>10, <1>11, <1>12 DEF SearchInv

\* The server sorts the rows it has been given.
LEMMA FilesortedIs ==
    ASSUME NEW K, pending \in Seq([ref : K, key : Int]), NEW limit \in Nat
    PROVE  Cut(Filesorted, limit) \in Seq([ref : K, key : Int])
<1> DEFINE D == DOMAIN pending
           R == {p \in D \X D : \/ KeyBefore(pending[p[1]], pending[p[2]])
                                \/ /\ ~KeyBefore(pending[p[2]], pending[p[1]])
                                   /\ p[1] < p[2]}
           order == Ranked(D, R)  s == Filesorted  E == [ref : K, key : Int]
<1>1. \A e \in E : e.key \in Int  OBVIOUS
<1>2. pending \in Seq(E)  OBVIOUS
<1> HIDE DEF E
<1>3. Len(pending) \in Nat /\ D = 1 .. Len(pending) /\ \A i \in D : pending[i] \in E /\ i \in Int
  BY <1>2
<1>4. IsFiniteSet(D) /\ Cardinality(D) = Len(pending)
  <2>1. 1 \in Int /\ Len(pending) \in Int  BY <1>3
  <2>2. /\ IsFiniteSet(1 .. Len(pending))
        /\ Cardinality(1 .. Len(pending)) = IF 1 > Len(pending) THEN 0 ELSE Len(pending) - 1 + 1
    BY <2>1, FS_Interval
  <2> QED  BY <1>3, <2>2
<1>5. TotalOrder(R, D)
  <2> DEFINE x(i) == pending[i].key
  <2>1. \A i, j : <<i, j>> \in R <=> /\ i \in D /\ j \in D
                                     /\ \/ KeyBefore(pending[i], pending[j])
                                        \/ ~KeyBefore(pending[j], pending[i]) /\ i < j
    OBVIOUS
  <2>2. \A i, j : KeyBefore(pending[i], pending[j]) <=> IF query.order.desc THEN x(i) > x(j) ELSE x(i) < x(j)
    BY DEF KeyBefore
  <2>3. \A i \in D : i \in Int /\ x(i) \in Int  BY <1>1, <1>3
  <2> HIDE DEF R, D
  <2>4. CASE query.order.desc
    <3>1. \A i, j : <<i, j>> \in R <=> i \in D /\ j \in D /\ (x(i) > x(j) \/ (~(x(j) > x(i)) /\ i < j))
      BY <2>1, <2>2, <2>4
    <3> HIDE DEF x
    <3> QED  BY <2>3, <3>1 DEF TotalOrder
  <2>5. CASE ~query.order.desc
    <3>1. \A i, j : <<i, j>> \in R <=> i \in D /\ j \in D /\ (x(i) < x(j) \/ (~(x(j) < x(i)) /\ i < j))
      BY <2>1, <2>2, <2>5
    <3> HIDE DEF x
    <3> QED  BY <2>3, <3>1 DEF TotalOrder
  <2> QED  BY <2>4, <2>5
<1>6. s = [i \in D |-> pending[order[i]]]  BY DEF Filesorted
<1> HIDE DEF R
<1>7. order \in [1 .. Cardinality(D) -> D]  BY <1>4, <1>5, RankedIs
<1> HIDE DEF order, s
<1>8. \A i \in D : order[i] \in D  BY <1>3, <1>4, <1>7
<1>9. s \in Seq(E)
  <2>1. s = [i \in 1 .. Len(pending) |-> pending[order[i]]]  BY <1>3, <1>6
  <2>2. \A i \in 1 .. Len(pending) : pending[order[i]] \in E  BY <1>3, <1>8
  <2> HIDE DEF D
  <2> QED  BY <1>3, <2>1, <2>2
<1>10. SubSeq(s, 1, IF limit < Len(s) THEN limit ELSE Len(s)) \in Seq(E)
  <2> DEFINE k == IF limit < Len(s) THEN limit ELSE Len(s)
  <2>1. k \in Nat /\ k <= Len(s)  BY <1>9
  <2> HIDE DEF k
  <2>2. SubSeq(s, 1, k) \in Seq(E)  BY <1>9, <2>1
  <2> QED  BY <2>2 DEF k
<1> QED  BY <1>10 DEF Cut, s, E

\* storage_rnd_end(), storage_index_end()
LEMMA EndStep ==
    ASSUME SearchInv, End
    PROVE  SearchInv'
<1>0. /\ phase = "end" /\ cursor' = None /\ result_cursor' = None /\ active_index' = None
      /\ phase' = (IF Filesort THEN "sort" ELSE "reset")
      /\ pending' = Cut(Filesorted, query.limit)
      /\ UNCHANGED <<table, server, pushType, query, plan, todo, out, n, pushed_cond, empty_cursor,
                     ft, record_id, count_skip, ignoring_no_key_columns, buf>>
  BY DEF End, clear_cursor
<1>1. query \in Statements /\ query.limit \in Nat  BY <1>0, StatementAssumption DEF SearchInv, TypeInv
<1>2. pending' \in Seq([ref : Ids, key : Int])
  BY <1>0, <1>1, FilesortedIs DEF SearchInv, TypeInv
<1>3. (phase' = "sort" /\ Filesort) \/ (phase' = "reset" /\ ~Filesort)  BY <1>0
<1>4. TypeInv'
  BY <1>0, <1>2, <1>3 DEF SearchInv, TypeInv, Phases, Ids
<1>5. TodoInv'  BY <1>0, TodoSame DEF SearchInv
<1>6. CursorInv'  BY <1>0, <1>3 DEF SearchInv, CursorInv
<1>7. CleanInv'
  <2>1. Filesort' <=> Filesort  BY <1>0, SameSort
  <2>2. ignoring_no_key_columns => ByIndex(plan) /\ HasKeyRead(plan.key, UsedColumns(query)) /\ ~Filesort
    BY DEF SearchInv, CleanInv
  <2> QED  BY <1>0, <1>3, <2>1, <2>2 DEF CleanInv
<1>8. BufInv' /\ ReachInv'  BY <1>3 DEF BufInv, ReachInv
<1>9. CountInv'
  <2>1. Ahead' = {}  BY <1>3 DEF Ahead
  <2> QED  BY <1>0, <2>1, CountSame DEF SearchInv
<1> QED  BY <1>4, <1>5, <1>6, <1>7, <1>8, <1>9 DEF SearchInv

\* rnd_init() for the rows of the filesort
LEMMA SortInitStep ==
    ASSUME SearchInv, SortInit
    PROVE  SearchInv'
<1>0. /\ phase = "sort" /\ storage_rnd_init /\ phase' = "fetch"
      /\ UNCHANGED <<table, serverVars, pushed_cond, empty_cursor, ft, record_id,
                     ignoring_no_key_columns, active_index, buf>>
  BY DEF SortInit
<1>1. query \in Statements /\ table \in Tables /\ Primary \in DOMAIN KeyColumns
  BY <1>0, KeyAssumption DEF SearchInv, TypeInv
<1>2. /\ result_cursor' # result_cursor => ListOf(table, result_cursor')
      /\ cursor' # cursor => CursorOf(table, Primary, cursor')
  BY <1>0, <1>1, RndInitIs
<1>3. TypeInv'
  BY <1>0 DEF SearchInv, TypeInv, Phases, serverVars, Ids
<1>4. TodoInv'  BY <1>0, TodoSame DEF SearchInv, serverVars
<1>5. CursorInv'
  <2>1. result_cursor' # None => ListOf(table, result_cursor')  BY <1>2 DEF SearchInv, CursorInv
  <2>2. cursor' # None => \E key \in DOMAIN KeyColumns : CursorOf(table, key, cursor')
    BY <1>1, <1>2 DEF SearchInv, CursorInv
  <2>3. empty_cursor' # None => ListOf(table, empty_cursor')  BY <1>0 DEF SearchInv, CursorInv
  <2> QED  BY <1>0, <2>1, <2>2, <2>3 DEF CursorInv
<1>6. CleanInv'  BY <1>0 DEF SearchInv, CleanInv
<1>7. BufInv' /\ ReachInv'  BY <1>0 DEF BufInv, ReachInv
<1>8. CountInv'
  <2>1. Ahead' = {}  BY <1>0 DEF Ahead
  <2> QED  BY <1>0, <2>1, CountSame DEF SearchInv, serverVars
<1> QED  BY <1>3, <1>4, <1>5, <1>6, <1>7, <1>8 DEF SearchInv

\* rnd_pos()
LEMMA RndPosStep ==
    ASSUME SearchInv, RndPos
    PROVE  SearchInv'
<1>0. /\ phase = "fetch" /\ phase' = "fetch" /\ pending # <<>>
      /\ record_id' = Head(pending).ref /\ buf' = storage_store_fields(record_id', buf)
      /\ pending' = Tail(pending)
      /\ UNCHANGED <<table, query, plan, todo, n, pushed_cond, cursors, ft,
                     count_skip, ignoring_no_key_columns, active_index>>
  BY DEF RndPos
<1>1. table \in Tables /\ buf \in Rows /\ pending \in Seq([ref : Ids, key : Int])
  BY DEF SearchInv, TypeInv
<1>2. record_id' \in Ids /\ pending' \in Seq([ref : Ids, key : Int])
  <2> DEFINE E == [ref : Ids, key : Int]
  <2>1. \A e \in E : e.ref \in Ids  OBVIOUS
  <2>2. pending \in Seq(E)  BY <1>1
  <2> HIDE DEF E
  <2>3. Head(pending) \in E /\ Tail(pending) \in Seq(E)  BY <1>0, <2>2
  <2>4. record_id' \in Ids  BY <1>0, <2>1, <2>3
  <2> QED  BY <1>0, <2>3, <2>4 DEF E
<1>3. buf' \in Rows  BY <1>0, <1>1, <1>2, StoreFields
<1>4. TypeInv'
  BY <1>0, <1>2, <1>3 DEF SearchInv, TypeInv, Phases, Ids
<1>5. TodoInv'  BY <1>0, TodoSame DEF SearchInv
<1>6. CursorInv'  BY <1>0 DEF SearchInv, CursorInv, cursors
<1>7. CleanInv'  BY <1>0 DEF SearchInv, CleanInv, cursors
<1>8. BufInv' /\ ReachInv'  BY <1>0 DEF BufInv, ReachInv
<1>9. CountInv'
  <2>1. Ahead' = {}  BY <1>0 DEF Ahead
  <2> QED  BY <1>0, <2>1, CountSame DEF SearchInv
<1> QED  BY <1>4, <1>5, <1>6, <1>7, <1>8, <1>9 DEF SearchInv

\* rnd_end()
LEMMA RndEndStep ==
    ASSUME SearchInv, RndEnd
    PROVE  SearchInv'
<1>0. /\ phase = "fetch" /\ phase' = "reset" /\ cursor' = None /\ result_cursor' = None
      /\ UNCHANGED <<table, serverVars, pushed_cond, empty_cursor, ft, record_id, count_skip,
                     ignoring_no_key_columns, active_index, buf>>
  BY DEF RndEnd, clear_cursor
<1>1. TypeInv'
  BY <1>0 DEF SearchInv, TypeInv, Phases, serverVars, Ids
<1>2. TodoInv'  BY <1>0, TodoSame DEF SearchInv, serverVars
<1>3. CursorInv'  BY <1>0 DEF SearchInv, CursorInv
<1>4. CleanInv'  BY <1>0 DEF SearchInv, CleanInv
<1>5. BufInv' /\ ReachInv'  BY <1>0 DEF BufInv, ReachInv
<1>6. CountInv'
  <2>1. Ahead' = {}  BY <1>0 DEF Ahead
  <2> QED  BY <1>0, <2>1, CountSame DEF SearchInv, serverVars
<1> QED  BY <1>1, <1>2, <1>3, <1>4, <1>5, <1>6 DEF SearchInv

\* reset()
LEMMA ResetStep ==
    ASSUME SearchInv, Reset
    PROVE  SearchInv'
<1>0. /\ phase = "reset" /\ phase' = "answered" /\ cursor' = None /\ result_cursor' = None
      /\ empty_cursor' = None /\ ft' = None /\ ~ignoring_no_key_columns' /\ pushed_cond' = NoWhere
      /\ UNCHANGED <<table, serverVars, record_id, count_skip, active_index, buf>>
  BY DEF Reset, clear_cursor
<1>1. TypeInv'
  BY <1>0 DEF SearchInv, TypeInv, Phases, serverVars, Ids
<1>2. TodoInv'
  <2>1. todo' \in Seq(KeyRanges)  BY <1>0 DEF SearchInv, TodoInv, serverVars
  <2> QED  BY <1>0, <2>1 DEF TodoInv
<1>3. CursorInv'  BY <1>0 DEF CursorInv
<1>4. CleanInv'  BY <1>0 DEF CleanInv
<1>5. BufInv' /\ ReachInv'  BY <1>0 DEF BufInv, ReachInv
<1>6. CountInv'
  <2>1. Ahead' = {}  BY <1>0 DEF Ahead
  <2> QED  BY <1>0, <2>1, CountSame DEF SearchInv, serverVars
<1> QED  BY <1>1, <1>2, <1>3, <1>4, <1>5, <1>6 DEF SearchInv

\* The server is done with the statement.
LEMMA AnsweredStep ==
    ASSUME SearchInv, Answered
    PROVE  SearchInv'
<1>0. /\ phase = "answered" /\ phase' = "idle" /\ query' = NoQuery /\ todo' = <<>> /\ n' = 0
      /\ UNCHANGED <<table, pending, handlerVars>>
  BY DEF Answered
<1>1. pushed_cond' = NoWhere  BY <1>0 DEF SearchInv, CleanInv, handlerVars
<1>2. TypeInv'
  BY <1>0, <1>1 DEF SearchInv, TypeInv, Phases, handlerVars, Ids
<1>3. TodoInv'
  <2>1. todo' \in Seq(KeyRanges)  BY <1>0
  <2> QED  BY <1>0, <2>1 DEF TodoInv
<1>4. CursorInv'  BY <1>0 DEF SearchInv, CursorInv, handlerVars
<1>5. CleanInv'  BY <1>0 DEF SearchInv, CleanInv, handlerVars
<1>6. BufInv' /\ ReachInv'  BY <1>0 DEF BufInv, ReachInv
<1>7. CountInv'  BY <1>0, NothingCounted
<1> QED  BY <1>2, <1>3, <1>4, <1>5, <1>6, <1>7 DEF SearchInv

-----------------------------------------------------------------------------
(* The steps that read a record. *)

\* A COUNT counts a record that it had before it, and has not any more.
LEMMA CountRead ==
    ASSUME CountInv, UNCHANGED <<table, query>>, table \in Tables,
           NEW id \in Ids, query.count => id \in Ahead /\ Ahead' \subseteq Ahead \ {id},
           n' = n \/ (query.count /\ n' = n + 1)
    PROVE  CountInv'
<1>1. CASE ~query.count  BY <1>1 DEF CountInv
<1>2. CASE query.count
  <2>1. PICK C \in SUBSET Ids : n = Cardinality(C) /\ C \cap Ahead = {}  BY <1>2 DEF CountInv
  <2>2. Ids' = Ids  BY DEF Ids
  <2>3. CASE n' = n
    <3>1. C \cap Ahead' = {}  BY <1>2, <2>1
    <3>2. C \in SUBSET Ids' /\ n' = Cardinality(C)  BY <2>1, <2>2, <2>3
    <3> QED  BY <1>2, <3>1, <3>2 DEF CountInv
  <2>4. CASE n' = n + 1
    <3>1. IsFiniteSet(C)  BY TableFacts, FS_Subset DEF Ids
    <3>2. id \notin C  BY <1>2, <2>1
    <3>3. Cardinality(C \cup {id}) = Cardinality(C) + 1  BY <3>1, <3>2, FS_AddElement
    <3>4. (C \cup {id}) \cap Ahead' = {}  BY <1>2, <2>1
    <3>5. C \cup {id} \in SUBSET Ids' /\ n' = Cardinality(C \cup {id})  BY <2>1, <2>2, <2>4, <3>3
    <3> QED  BY <1>2, <3>4, <3>5 DEF CountInv
  <2> QED  BY <2>3, <2>4
<1> QED  BY <1>1, <1>2

\* The rows of a filesort remain rows.
LEMMA PendingStep ==
    ASSUME pending \in Seq([ref : Ids, key : Int]), UNCHANGED table,
           Moves \/ (record_id' \in Ids /\ Judges)
    PROVE  pending' \in Seq([ref : Ids', key : Int])
<1> DEFINE E == [ref : Ids, key : Int]
<1>1. Ids' = Ids  BY DEF Ids
<1>2. CASE pending' = pending  BY <1>1, <1>2
<1>3. ASSUME pending' # pending PROVE pending' \in Seq([ref : Ids', key : Int])
  <2>1. record_id' \in Ids /\ \E k \in Int : pending' = Append(pending, [ref |-> record_id', key |-> k])
    BY <1>3 DEF Moves, Judges
  <2>2. PICK k \in Int : pending' = Append(pending, [ref |-> record_id', key |-> k])  BY <2>1
  <2>3. [ref |-> record_id', key |-> k] \in E /\ pending \in Seq(E)  BY <2>1
  <2> HIDE DEF E
  <2>4. pending' \in Seq(E)  BY <2>2, <2>3
  <2> QED  BY <1>1, <2>4 DEF E
<1> QED  BY <1>2, <1>3

\* The record buffer is filled with the record.
Filled(c) ==
    buf' = IF record_id' = NIL THEN buf
           ELSE IF ignoring_no_key_columns /\ c # None
                THEN storage_store_fields_by_index(Head(c), buf)
           ELSE storage_store_fields(record_id', buf)

\* What a read call leaves in the record buffer is a row, and what the statement
\* uses of it is the record.
LEMMA FilledIs ==
    ASSUME SearchInv, phase \in {"first", "next"}, NEW c, Filled(c), record_id' \in Ids \cup {NIL},
           record_id' # NIL /\ ignoring_no_key_columns /\ c # None =>
              Head(c).id = record_id' /\ Head(c).key = IndexKey(plan.key, table[record_id'])
    PROVE  /\ buf' \in Rows
           /\ record_id' # NIL =>
                 \A col \in Columns : col \in UsedColumns(query) \/ KeyHas(active_index, col) =>
                                         buf'[col] = table[record_id'][col]
           /\ record_id' # NIL /\ ~ignoring_no_key_columns =>
                 \A col \in Columns : buf'[col] = table[record_id'][col]
<1>1. /\ table \in Tables /\ buf \in Rows
      /\ ignoring_no_key_columns =>
            /\ ByIndex(plan) /\ HasKeyRead(plan.key, UsedColumns(query)) /\ active_index = plan.key
            /\ plan.key \in DOMAIN KeyColumns
  <2>1. table \in Tables /\ buf \in Rows  BY DEF SearchInv, TypeInv
  <2>2. ignoring_no_key_columns => ByIndex(plan) /\ HasKeyRead(plan.key, UsedColumns(query))
    BY DEF SearchInv, CleanInv
  <2>3. ByIndex(plan) => plan.access # "scan"  BY DEF ByIndex
  <2>4. plan.access # "scan" => active_index = plan.key  BY DEF SearchInv, CleanInv
  <2>5. ByIndex(plan) => plan.key \in DOMAIN KeyColumns  BY DEF SearchInv, TypeInv, PlanOK, RangeKeys
  <2> QED  BY <2>1, <2>2, <2>3, <2>4, <2>5
<1>2. ignoring_no_key_columns =>
         \A col \in Columns : col \in UsedColumns(query) => KeyHas(active_index, col)
  BY <1>1 DEF HasKeyRead, KeyHas
<1>3. CASE record_id' = NIL  BY <1>1, <1>3 DEF Filled
<1>4. CASE record_id' # NIL /\ ignoring_no_key_columns /\ c # None
  <2>1. buf' = storage_store_fields_by_index(Head(c), buf)  BY <1>4 DEF Filled
  <2>2. Head(c).id \in Ids /\ Head(c).key = IndexKey(active_index, table[Head(c).id])
        /\ Head(c).id = record_id'
    BY <1>1, <1>4
  <2>3. active_index \in DOMAIN KeyColumns  BY <1>1, <1>4
  <2>4. /\ buf' \in Rows
        /\ \A col \in Columns : KeyHas(active_index, col) => buf'[col] = table[record_id'][col]
    BY <1>1, <2>1, <2>2, <2>3, StoreByIndex
  <2> QED  BY <1>2, <1>4, <2>4
<1>5. CASE record_id' # NIL /\ ~(ignoring_no_key_columns /\ c # None)
  <2>1. buf' = storage_store_fields(record_id', buf)  BY <1>5 DEF Filled
  <2>2. record_id' \in Ids  BY <1>5
  <2>3. /\ buf' \in Rows
        /\ \A col \in Columns : ~ignoring_no_key_columns \/ KeyHas(active_index, col) =>
                                   buf'[col] = table[record_id'][col]
    BY <1>1, <2>1, <2>2, StoreFields
  <2> QED  BY <1>2, <2>3
<1> QED  BY <1>3, <1>4, <1>5

\* A read call leaves what is of its type, the ranges, and cursors on records.
LEMMA ReadBasics ==
    ASSUME SearchInv, phase \in {"first", "next"},
           NEW key \in DOMAIN KeyColumns, ByIndex(plan) => key = plan.key,
           OpenOK(table, key, result_cursor', cursor', empty_cursor'),
           plan.access # "scan" => result_cursor' = None,
           UNCHANGED <<table, server, pushType, query, plan, pushed_cond,
                       ignoring_no_key_columns, active_index>>,
           record_id' \in Ids \cup {NIL}, buf' \in Rows,
           phase' = "next" /\ plan.access = "ft" => ListOf(table, ft'),
           Moves \/ (record_id' \in Ids /\ Judges)
    PROVE  TypeInv' /\ TodoInv' /\ CursorInv' /\ CleanInv'
<1>1. phase' \in {"first", "next", "end"} /\ (phase' = "first" => Len(todo) > 1)
  BY DEF Moves, Judges
<1>2. PlanOK(query, plan) /\ query \in Statements /\ table \in Tables
  BY DEF SearchInv, TypeInv
<1>3. TypeInv'
  <2>1. pending' \in Seq([ref : Ids', key : Int])  BY PendingStep DEF SearchInv, TypeInv
  <2>2. Ids' = Ids  BY DEF Ids
  <2> QED  BY <1>1, <1>2, <2>1, <2>2 DEF SearchInv, TypeInv, Phases
<1>4. TodoInv'
  <2>1. CASE ByIndex(plan)
    <3>1. RangesOK(plan.key, todo) /\ todo # <<>>  BY <2>1 DEF SearchInv, TodoInv
    <3>2. todo' = todo \/ (Len(todo) > 1 /\ todo' = Tail(todo))  BY DEF Moves, Judges
    <3>3. RangesOK(plan.key, todo') /\ todo' # <<>>  BY <3>1, <3>2, RangesTail
    <3>4. todo' \in Seq(KeyRanges)  BY <3>3 DEF RangesOK
    <3> QED  BY <2>1, <3>3, <3>4 DEF TodoInv
  <2>2. CASE ~ByIndex(plan)
    <3>1. todo = <<>>  BY <2>2 DEF SearchInv, TodoInv
    <3>2. ~(Len(todo) > 1)  BY <3>1
    <3>3. todo' = <<>>  BY <3>1, <3>2 DEF Moves, Judges
    <3>4. todo' \in Seq(KeyRanges)  BY <3>3
    <3> QED  BY <2>2, <3>3, <3>4 DEF TodoInv
  <2> QED  BY <2>1, <2>2
<1>5. CursorInv'  BY DEF OpenOK, CursorInv
<1>6. CleanInv'
  <2>1. phase' = "first" => plan.access # "scan"
    <3>1. SUFFICES ASSUME plan.access = "scan" PROVE ~(Len(todo) > 1)  BY <1>1
    <3>2. ~ByIndex(plan)  BY <3>1 DEF ByIndex
    <3>3. todo = <<>>  BY <3>2 DEF SearchInv, TodoInv
    <3> QED  BY <3>3
  <2>2. Filesort' <=> Filesort  BY SameSort
  <2>3. plan.access # "scan" => active_index = plan.key  BY DEF SearchInv, CleanInv
  <2>4. ignoring_no_key_columns =>
           ByIndex(plan) /\ HasKeyRead(plan.key, UsedColumns(query)) /\ ~Filesort
    BY DEF SearchInv, CleanInv
  <2> QED  BY <1>1, <2>1, <2>2, <2>3, <2>4 DEF CleanInv
<1> QED  BY <1>3, <1>4, <1>5, <1>6

\* storage_rnd_next()
LEMMA RndNextStep ==
    ASSUME SearchInv, RndNext
    PROVE  SearchInv'
<1>0. /\ phase = "next" /\ plan.access = "scan"
      /\ Got(result_cursor, cursor, empty_cursor, record_id', result_cursor', cursor', empty_cursor')
      /\ Filled(cursor) /\ Received(record_id' = NIL)
      /\ UNCHANGED <<count_skip, pushed_cond, ft, ignoring_no_key_columns, active_index>>
  BY DEF RndNext, storage_get_next_record, Got, Filled, ReadUnchanged
<1>1. table \in Tables /\ query \in Statements /\ ~ByIndex(plan) /\ ~ignoring_no_key_columns
  BY <1>0 DEF SearchInv, TypeInv, CleanInv, ByIndex
<1>2. PICK key \in DOMAIN KeyColumns : OpenOK(table, key, result_cursor, cursor, empty_cursor)
  <2>1. Primary \in DOMAIN KeyColumns  BY KeyAssumption
  <2> QED  BY <2>1 DEF SearchInv, CursorInv, OpenOK
<1>3. /\ OpenOK(table, key, result_cursor', cursor', empty_cursor')
      /\ record_id' \in Ids \cup {NIL}
      /\ record_id' # NIL =>
            /\ record_id' \in OpenIds(result_cursor, cursor, empty_cursor)
            /\ OpenIds(result_cursor', cursor', empty_cursor') =
               OpenIds(result_cursor, cursor, empty_cursor) \ {record_id'}
  BY <1>0, <1>1, <1>2, GotIs DEF Ids
<1>4. buf' \in Rows  BY <1>0, <1>1, <1>3, FilledIs
<1>5. /\ UNCHANGED <<table, server, pushType, query, plan>>
      /\ Moves \/ (record_id' # NIL /\ Judges)
  BY <1>0, <1>1, <1>3, <1>4, ReceivedRecord
<1>6. Moves \/ (record_id' \in Ids /\ Judges)  BY <1>3, <1>5
<1>7. TypeInv' /\ TodoInv' /\ CursorInv' /\ CleanInv'
  BY <1>0, <1>1, <1>3, <1>4, <1>5, <1>6, ReadBasics
<1>8. BufInv' /\ ReachInv'  BY <1>0, <1>1, <1>5 DEF BufInv, ReachInv, ByIndex
<1>9. CountInv'
  <2>0. Ahead = OpenIds(result_cursor, cursor, empty_cursor)  BY <1>0 DEF Ahead
  <2>1. CASE Moves
    <3>1. todo = <<>>  BY <1>0, <1>1 DEF SearchInv, TodoInv
    <3>2. phase' = "end" /\ n' = n  BY <2>1, <3>1 DEF Moves
    <3>3. Ahead' = {}  BY <3>2 DEF Ahead
    <3> QED  BY <1>5, <3>2, <3>3, CountSame DEF SearchInv
  <2>2. CASE record_id' # NIL /\ Judges
    <3>1. phase' \in {"next", "end"} /\ (n' = n \/ (query.count /\ n' = n + 1))  BY <2>2 DEF Judges
    <3>2. Ahead' = {} \/ Ahead' = OpenIds(result_cursor', cursor', empty_cursor')
      BY <1>0, <1>5, <3>1 DEF Ahead
    <3>3. record_id' \in Ids /\ record_id' \in Ahead /\ Ahead' \subseteq Ahead \ {record_id'}
      BY <1>3, <2>0, <2>2, <3>2
    <3> QED  BY <1>1, <1>5, <3>1, <3>3, CountRead DEF SearchInv
  <2> QED  BY <1>5, <2>1, <2>2
<1> QED  BY <1>7, <1>8, <1>9 DEF SearchInv

\* A read of an index, the first one of a range or a further one.
LEMMA IndexRead ==
    ASSUME SearchInv, phase \in {"first", "next"}, ByIndex(plan), NEW c, NEW e,
           OpenOK(table, plan.key, None, c, e),
           ~plan.desc => OpenIds(None, c, e) \subseteq Reach(table, plan.key, Head(todo)),
           query.count => OpenIds(None, c, e) \cup RangesAhead(2) \subseteq Ahead,
           Got(None, c, e, record_id', result_cursor', cursor', empty_cursor'),
           \/ Filled(c)
           \/ /\ buf' = buf /\ phase = "next"
              /\ count_skip' /\ count_skip /\ ~plan.desc /\ IsExact(Head(todo)),
           Received(record_id' = NIL),
           ~plan.desc /\ IsExact(Head(todo)) /\ count_skip' => check_count_skip(Len(Head(todo).min)),
           UNCHANGED <<pushed_cond, ft, ignoring_no_key_columns, active_index>>
    PROVE  SearchInv'
<1> DEFINE key == plan.key  r == Head(todo)
           ids == OpenIds(None, c, e)  ids2 == OpenIds(result_cursor', cursor', empty_cursor')
<1>1. /\ table \in Tables /\ query \in Statements /\ plan.access \notin {"scan", "ft"}
      /\ PlanOK(query, plan) /\ key \in DOMAIN KeyColumns /\ active_index = key /\ buf \in Rows
      /\ RangesOK(key, todo) /\ todo # <<>>
  <2>1. table \in Tables /\ query \in Statements /\ PlanOK(query, plan) /\ buf \in Rows
    BY DEF SearchInv, TypeInv
  <2>2. plan.access \notin {"scan", "ft"} /\ key \in DOMAIN KeyColumns
    BY <2>1 DEF ByIndex, PlanOK, RangeKeys
  <2> QED  BY <2>1, <2>2 DEF SearchInv, CleanInv, TodoInv
<1>2. /\ OpenOK(table, key, result_cursor', cursor', empty_cursor')
      /\ result_cursor' = None
      /\ record_id' \in Ids \cup {NIL}
      /\ record_id' # NIL => record_id' \in ids /\ ids2 = ids \ {record_id'}
      /\ record_id' # NIL /\ c # None =>
            Head(c).id = record_id' /\ Head(c).key = IndexKey(key, table[record_id'])
  BY <1>1, GotIs DEF Ids
<1>3. buf' \in Rows
  <2>1. Filled(c) => buf' \in Rows  BY <1>2, FilledIs
  <2> QED  BY <1>1, <2>1
<1>4. /\ UNCHANGED <<table, server, pushType, query, plan>>
      /\ Moves \/ (record_id' # NIL /\ Judges)
  BY <1>1, <1>2, <1>3, ReceivedRecord
<1>5. Moves \/ (record_id' \in Ids /\ Judges)  BY <1>2, <1>4
<1>6. TypeInv' /\ TodoInv' /\ CursorInv' /\ CleanInv'
  BY <1>1, <1>2, <1>3, <1>4, <1>5, ReadBasics
<1>7. phase' = "next" => record_id' # NIL /\ record_id' \in Ids /\ todo' = todo /\ Judges
  <2>1. Moves => phase' # "next"  BY DEF Moves
  <2>2. Judges => todo' = todo  BY DEF Judges
  <2> QED  BY <1>2, <1>4, <2>1, <2>2
<1>8. ReachInv'
  <2>1. SUFFICES ASSUME phase' = "next", ~plan.desc
                 PROVE  /\ ids2 \subseteq Reach(table, key, r)
                        /\ record_id' \in Reach(table, key, r)
    BY <1>4, <1>7 DEF ReachInv
  <2> QED  BY <1>2, <1>7, <2>1
<1>9. BufInv'
  <2>1. SUFFICES ASSUME phase' = "next" PROVE SameUsed' \/ SkipsBuffer'
    <3>1. check_count_skip(Len(r.min))' = check_count_skip(Len(r.min)) \/ phase' # "next"
      BY <1>4, <1>7 DEF check_count_skip, is_skippable, is_skippable_func, SkippableField
    <3> QED  BY <1>1, <1>4, <1>7, <2>1, <3>1 DEF BufInv
  <2>2. CASE Filled(c)
    <3>1. \A col \in Columns : col \in UsedColumns(query) \/ KeyHas(active_index, col) =>
                                  buf'[col] = table[record_id'][col]
      BY <1>2, <1>7, <2>1, <2>2, FilledIs
    <3>2. UsedColumns(query)' = UsedColumns(query)  BY <1>4 DEF UsedColumns
    <3> QED  BY <1>1, <1>4, <3>1, <3>2 DEF SameUsed
  <2>3. CASE ~Filled(c)
    <3>1. /\ buf' = buf /\ phase = "next" /\ count_skip' /\ count_skip /\ ~plan.desc /\ IsExact(r)
      BY <2>3
    <3>2. record_id \in Reach(table, key, r) /\ (SameUsed \/ SkipsBuffer)
      BY <3>1 DEF SearchInv, ReachInv, BufInv
    <3>3. Like(key, r.min, buf)
      <4>1. CASE SkipsBuffer  BY <4>1 DEF SkipsBuffer
      <4>2. CASE SameUsed
        <5>1. Like(key, r.min, table[record_id])  BY <3>1, <3>2 DEF Reach
        <5>2. r \in KeyRanges /\ KeyValues(key, r.min, Len(r.min))  BY <1>1, <3>1 DEF RangesOK
        <5>3. \A i \in DOMAIN r.min : i \in DOMAIN KeyColumns[key] /\ KeyColumns[key][i] \in Columns
          BY <1>1, <5>2, KeyFacts DEF KeyValues
        <5>4. \A i \in DOMAIN r.min : KeyHas(key, KeyColumns[key][i])  BY <5>3 DEF KeyHas
        <5>5. \A i \in DOMAIN r.min : buf[KeyColumns[key][i]] = table[record_id][KeyColumns[key][i]]
          BY <4>2, <5>3, <5>4 DEF SameUsed
        <5> QED  BY <5>1, <5>5 DEF Like
      <4> QED  BY <3>2, <4>1, <4>2
    <3>4. SkipsBuffer'  BY <1>4, <1>7, <2>1, <3>1, <3>3 DEF SkipsBuffer
    <3> QED  BY <3>4
  <2> QED  BY <2>2, <2>3
<1>10. CountInv'
  <2>1. Len(todo) \in Nat /\ r = todo[1] /\ Len(todo) >= 1
    <3>1. todo \in Seq(KeyRanges)  BY <1>1 DEF RangesOK
    <3> QED  BY <1>1, <3>1
  <2>2. CASE ~query.count
    <3>1. n' = n  BY <1>4, <2>2 DEF Moves, Judges
    <3> QED  BY <1>4, <2>2, <3>1 DEF SearchInv, CountInv
  <2>3. CASE query.count /\ Moves
    <3>1. n' = n  BY <2>3 DEF Moves
    <3>2. CASE Len(todo) > 1 /\ todo' = Tail(todo) /\ phase' = "first"
      <4>1. Ahead' = RangesAhead(1)'  BY <1>1, <1>4, <3>2 DEF Ahead
      <4>2. /\ Len(Tail(todo)) = Len(todo) - 1
            /\ \A i \in 1 .. Len(todo) - 1 : Tail(todo)[i] = todo[i + 1] /\ i + 1 \in 2 .. Len(todo)
        <5>1. /\ Len(Tail(todo)) = Len(todo) - 1
              /\ \A i \in 1 .. Len(todo) - 1 : Tail(todo)[i] = todo[i + 1]
          BY <1>1, <3>2, RangesTail
        <5> QED  BY <2>1, <5>1
      <4>3. RangesAhead(1)' = UNION {Reach(table, key, Tail(todo)[i]) : i \in 1 .. Len(todo) - 1}
        BY <1>4, <3>2, <4>2 DEF RangesAhead
      <4>4. RangesAhead(1)' \subseteq RangesAhead(2)
        <5>1. SUFFICES ASSUME NEW i \in 1 .. Len(todo) - 1
                       PROVE  Reach(table, key, Tail(todo)[i]) \subseteq RangesAhead(2)
          BY <4>3
        <5>2. Tail(todo)[i] = todo[i + 1] /\ i + 1 \in 2 .. Len(todo)  BY <4>2
        <5> QED  BY <5>2 DEF RangesAhead
      <4>5. Ahead' \subseteq Ahead  BY <2>3, <4>1, <4>4
      <4> QED  BY <1>4, <3>1, <4>5, CountSame DEF SearchInv
    <3>3. CASE phase' = "end"
      <4>1. Ahead' = {}  BY <3>3 DEF Ahead
      <4> QED  BY <1>4, <3>1, <4>1, CountSame DEF SearchInv
    <3> QED  BY <2>3, <3>2, <3>3 DEF Moves
  <2>4. CASE query.count /\ record_id' # NIL /\ Judges
    <3>1. /\ phase' \in {"next", "end"} /\ (n' = n \/ (query.count /\ n' = n + 1)) /\ todo' = todo
      BY <2>4 DEF Judges
    <3>2. RangesAhead(2)' = RangesAhead(2)  BY <1>4, <3>1 DEF RangesAhead
    <3>3. Ahead' \subseteq ids2 \cup RangesAhead(2)
      <4>1. CASE phase' = "end"
        <5>1. Ahead' = {}  BY <4>1 DEF Ahead
        <5> QED  BY <5>1
      <4>2. CASE phase' = "next"
        <5>1. Ahead' = ids2 \cup RangesAhead(2)'  BY <1>1, <1>4, <4>2 DEF Ahead
        <5> QED  BY <3>2, <5>1
      <4> QED  BY <3>1, <4>1, <4>2
    <3>4. record_id' \notin RangesAhead(2)
      <4>1. ~plan.desc  BY <1>1, <2>4 DEF PlanOK
      <4>2. record_id' \in Reach(table, key, todo[1])  BY <1>2, <2>1, <2>4, <4>1
      <4>3. ASSUME NEW i \in 2 .. Len(todo) PROVE record_id' \notin Reach(table, key, todo[i])
        <5>1. 1 \in 1 .. Len(todo) /\ i \in 1 .. Len(todo) /\ 1 # i  BY <2>1
        <5>2. Reach(table, key, todo[1]) \cap Reach(table, key, todo[i]) = {}
          BY <1>1, <5>1, ReachApart
        <5> QED  BY <4>2, <5>2
      <4> QED  BY <4>3 DEF RangesAhead
    <3>5. record_id' \in Ids /\ record_id' \in Ahead /\ Ahead' \subseteq Ahead \ {record_id'}
      BY <1>2, <2>4, <3>3, <3>4
    <3> QED  BY <1>1, <1>4, <3>1, <3>5, CountRead DEF SearchInv
  <2> QED  BY <1>4, <2>2, <2>3, <2>4
<1> QED  BY <1>6, <1>8, <1>9, <1>10 DEF SearchInv

\* storage_index_next(), storage_index_prev(), storage_index_next_same()
LEMMA IndexReadNextStep ==
    ASSUME SearchInv, IndexReadNext
    PROVE  SearchInv'
<1>0. /\ phase = "next" /\ ByIndex(plan)
      /\ Got(result_cursor, cursor, empty_cursor, record_id', result_cursor', cursor', empty_cursor')
      /\ \/ Filled(cursor)
         \/ buf' = buf /\ IsExact(Head(todo)) /\ ~plan.desc /\ count_skip
      /\ Received(record_id' = NIL)
      /\ UNCHANGED <<count_skip, pushed_cond, ft, ignoring_no_key_columns, active_index>>
  <2>1. /\ phase = "next" /\ ByIndex(plan)
        /\ UNCHANGED <<count_skip, pushed_cond, ft, ignoring_no_key_columns, active_index>>
    BY DEF IndexReadNext, ReadUnchanged, ByIndex
  <2>2. /\ Got(result_cursor, cursor, empty_cursor, record_id', result_cursor', cursor', empty_cursor')
        /\ Received(record_id' = NIL)
    BY DEF IndexReadNext, storage_get_next_record, Got
  <2>3. \/ Filled(cursor)
        \/ buf' = buf /\ IsExact(Head(todo)) /\ ~plan.desc /\ count_skip
    BY DEF IndexReadNext, storage_get_next_record, Filled
  <2> QED  BY <2>1, <2>2, <2>3
<1>1. result_cursor = None /\ plan.access \notin {"scan", "ft"}
  BY <1>0 DEF SearchInv, CleanInv, ByIndex
<1>2. OpenOK(table, plan.key, None, cursor, empty_cursor)
  BY <1>0 DEF SearchInv, CursorInv, OpenOK
<1>3. ~plan.desc => OpenIds(None, cursor, empty_cursor) \subseteq Reach(table, plan.key, Head(todo))
  BY <1>0, <1>1 DEF SearchInv, ReachInv
<1>4. Ahead = OpenIds(None, cursor, empty_cursor) \cup RangesAhead(2)
  BY <1>0, <1>1 DEF Ahead
<1>5. ~plan.desc /\ IsExact(Head(todo)) /\ count_skip' => check_count_skip(Len(Head(todo).min))
  BY <1>0 DEF SearchInv, BufInv
<1>6. Got(None, cursor, empty_cursor, record_id', result_cursor', cursor', empty_cursor')
  BY <1>0, <1>1
<1>7. \/ Filled(cursor)
      \/ /\ buf' = buf /\ phase = "next"
         /\ count_skip' /\ count_skip /\ ~plan.desc /\ IsExact(Head(todo))
  BY <1>0
<1> QED  BY <1>0, <1>2, <1>3, <1>4, <1>5, <1>6, <1>7, IndexRead

\* What the first read of a range asks: a cursor of the index, or the records with
\* the empty string.
LEMMA FirstOpens ==
    ASSUME SearchInv, IndexReadFirst
    PROVE  \E c, e :
              /\ Got(None, c, e, record_id', result_cursor', cursor', empty_cursor')
              /\ Filled(c)
              /\ OpenOK(table, plan.key, None, c, e)
              /\ ~plan.desc => OpenIds(None, c, e) \subseteq Reach(table, plan.key, Head(todo))
              /\ ~plan.desc /\ IsExact(Head(todo)) => count_skip' = check_count_skip(Len(Head(todo).min))
<1> DEFINE r == Head(todo)  key == plan.key
           Asks(c, e) == /\ Got(None, c, e, record_id', result_cursor', cursor', empty_cursor')
                         /\ Filled(c)
<1>0. /\ table \in Tables /\ ByIndex(plan) /\ key \in DOMAIN KeyColumns /\ active_index = key
      /\ RangesOK(key, todo) /\ todo # <<>>
      /\ empty_cursor # None => ListOf(table, empty_cursor)
  <2>1. phase = "first" /\ ByIndex(plan)  BY DEF IndexReadFirst, ByIndex
  <2>2. PlanOK(query, plan) /\ table \in Tables  BY <2>1 DEF SearchInv, TypeInv
  <2>3. key \in DOMAIN KeyColumns /\ plan.access # "scan"  BY <2>1, <2>2 DEF PlanOK, RangeKeys, ByIndex
  <2> QED  BY <2>1, <2>2, <2>3 DEF SearchInv, CleanInv, TodoInv, CursorInv
<1>1. r \in KeyRanges /\ (IsExact(r) => KeyValues(key, r.min, Len(r.min)))
  <2>1. todo \in Seq(KeyRanges) /\ 1 \in 1 .. Len(todo) /\ r = todo[1]
    <3>1. todo \in Seq(KeyRanges)  BY <1>0 DEF RangesOK
    <3> QED  BY <1>0, <3>1
  <2> QED  BY <1>0, <2>1 DEF RangesOK
<1>2. IsExact(r) => r.min # <<>>
  <2>1. ASSUME r.min = <<>>, IsExact(r) PROVE FALSE
    <3>1. DOMAIN r.min = 1 .. Len(r.min) /\ Len(r.min) \in 1 .. Len(KeyColumns[key])
      BY <1>1, <2>1 DEF KeyValues
    <3>2. Len(r.min) = 0 /\ Len(KeyColumns[key]) \in Nat  BY <1>0, <2>1, KeyFacts
    <3> QED  BY <3>1, <3>2
  <2> QED  BY <2>1
<1>3. \A min, max, flags, e :
         LET c == grn_cursor_open(key, min, max, flags)
         IN  /\ c # None /\ CursorOf(table, key, c)
             /\ OpenIds(None, c, e) = {c[i].id : i \in DOMAIN c} /\ OpenIds(None, c, e) \subseteq Ids
             /\ (e # None => ListOf(table, e)) => OpenOK(table, key, None, c, e)
  <2> SUFFICES ASSUME NEW min, NEW max, NEW flags, NEW e
               PROVE  LET c == grn_cursor_open(key, min, max, flags)
                      IN  /\ c # None /\ CursorOf(table, key, c)
                          /\ OpenIds(None, c, e) = {c[i].id : i \in DOMAIN c}
                          /\ OpenIds(None, c, e) \subseteq Ids
                          /\ (e # None => ListOf(table, e)) => OpenOK(table, key, None, c, e)
    OBVIOUS
  <2> DEFINE c == grn_cursor_open(key, min, max, flags)
  <2>1. CursorOf(table, key, c)  BY <1>0, OpenIs
  <2> HIDE DEF c
  <2>2. c # None  BY <1>0, <2>1, NoneIs
  <2>3. OpenIds(None, c, e) = {c[i].id : i \in DOMAIN c}  BY <2>2 DEF OpenIds
  <2>4. OpenOK(table, key, None, c, None)  BY <2>1 DEF OpenOK
  <2>5. OpenIds(None, c, None) \subseteq Ids  BY <1>0, <2>4, OpenLenIs DEF Ids
  <2>6. OpenIds(None, c, None) = {c[i].id : i \in DOMAIN c}  BY <2>2 DEF OpenIds
  <2>7. (e # None => ListOf(table, e)) => OpenOK(table, key, None, c, e)  BY <2>1 DEF OpenOK
  <2> QED  BY <2>1, <2>2, <2>3, <2>5, <2>6, <2>7 DEF c
<1>4. ASSUME NEW min, NEW max, NEW flags, Asks(grn_cursor_open(key, min, max, flags), empty_cursor),
             plan.desc \/ ~IsExact(r)
      PROVE  \E c, e :
              /\ Asks(c, e) /\ OpenOK(table, key, None, c, e)
              /\ ~plan.desc => OpenIds(None, c, e) \subseteq Reach(table, key, r)
              /\ ~plan.desc /\ IsExact(r) => count_skip' = check_count_skip(Len(r.min))
  <2> DEFINE c == grn_cursor_open(key, min, max, flags)
  <2>1. OpenOK(table, key, None, c, empty_cursor) /\ OpenIds(None, c, empty_cursor) \subseteq Ids
    BY <1>0, <1>3
  <2>2. Asks(c, empty_cursor)  BY <1>4
  <2>3. ~plan.desc => Reach(table, key, r) = Ids  BY <1>4 DEF Reach, Ids
  <2> HIDE DEF c, Asks, r
  <2> QED  BY <1>4, <2>1, <2>2, <2>3 DEF r
<1>5. ASSUME NEW vals, NEW flag, storage_index_read_map(vals, flag),
             plan.desc \/ (vals = r.min /\ flag = r.minflag)
      PROVE  \E c, e :
              /\ Asks(c, e) /\ OpenOK(table, key, None, c, e)
              /\ ~plan.desc => OpenIds(None, c, e) \subseteq Reach(table, key, r)
              /\ ~plan.desc /\ IsExact(r) => count_skip' = check_count_skip(Len(r.min))
  <2> DEFINE b == Bounds(key, vals, flag)
             c == grn_cursor_open(key, b.min, b.max, CursorFlags(flag))
             e == InIdOrder(EmptyValueRecords(key))
  <2>1. /\ count_skip' = check_count_skip(Len(vals))
        /\ IF EmptyValueSearch(key, vals, flag) THEN Asks(None, e) ELSE Asks(c, None)
    BY <1>0, <1>5 DEF storage_index_read_map, storage_get_next_record, Got, Filled
  <2>2. ~plan.desc /\ IsExact(r) => flag = "KEY_EXACT" /\ vals = r.min /\ KeyValues(key, vals, Len(r.min))
    BY <1>1, <1>5 DEF IsExact
  <2>3. CASE EmptyValueSearch(key, vals, flag)
    <3>1. EmptyValueRecords(key) \in SUBSET Ids  BY DEF EmptyValueRecords
    <3>2. ListOf(table, e) /\ e \in Seq(EmptyValueRecords(key)) /\ e # None
      BY <1>0, <3>1, IdsInOrder, NoneIs DEF Ids
    <3>3. OpenIds(None, None, e) = {e[i] : i \in DOMAIN e}  BY <3>2 DEF OpenIds
    <3> HIDE DEF e
    <3>4. OpenIds(None, None, e) \subseteq EmptyValueRecords(key)  BY <3>2, <3>3
    <3>5. ~plan.desc /\ IsExact(r) => \A id \in EmptyValueRecords(key) : Like(key, r.min, table[id])
      BY <1>0, <2>2, <2>3, ExactOpen
    <3>6. ~plan.desc => OpenIds(None, None, e) \subseteq Reach(table, key, r)
      BY <3>1, <3>4, <3>5 DEF Reach, Ids
    <3>7. OpenOK(table, key, None, None, e)  BY <3>2 DEF OpenOK
    <3>8. Asks(None, e)  BY <2>1, <2>3
    <3> HIDE DEF Asks, r
    <3> QED  BY <2>1, <2>2, <3>6, <3>7, <3>8
  <2>4. CASE ~EmptyValueSearch(key, vals, flag)
    <3>1. /\ OpenOK(table, key, None, c, None) /\ OpenIds(None, c, None) \subseteq Ids
          /\ OpenIds(None, c, None) = {c[i].id : i \in DOMAIN c}
      BY <1>3
    <3>2. ~plan.desc /\ IsExact(r) => \A i \in DOMAIN c : Like(key, r.min, table[c[i].id])
      BY <1>0, <2>2, <2>4, ExactOpen
    <3>3. Asks(c, None)  BY <2>1, <2>4
    <3> HIDE DEF c, Asks
    <3>4. ~plan.desc => OpenIds(None, c, None) \subseteq Reach(table, key, r)
      BY <3>1, <3>2 DEF Reach, Ids
    <3> HIDE DEF r
    <3> QED  BY <2>1, <2>2, <3>1, <3>3, <3>4
  <2> QED  BY <2>3, <2>4
<1>6. CASE ~plan.desc /\ r.min = <<>> /\ storage_index_first
  <2>1. Asks(grn_cursor_open(key, <<>>, <<>>, {}), empty_cursor)
    BY <1>0, <1>6 DEF storage_index_first, storage_get_next_record, Got, Filled
  <2>2. ~IsExact(r)  BY <1>2, <1>6
  <2> QED  BY <1>4, <2>1, <2>2
<1>7. CASE ~plan.desc /\ r.min # <<>> /\ storage_index_read_map(r.min, r.minflag)
  BY <1>5, <1>7
<1>8. CASE plan.desc /\ storage_index_last
  <2>1. Asks(grn_cursor_open(key, <<>>, <<>>, {"DESCENDING"}), empty_cursor)
    BY <1>0, <1>8 DEF storage_index_last, storage_get_next_record, Got, Filled
  <2> QED  BY <1>4, <1>8, <2>1
<1>9. CASE plan.desc /\ storage_index_read_last_map(r.max)
  <2> DEFINE k == EncodeKey(key, r.max)
  <2>1. \/ Asks(grn_cursor_open(key, k, <<>>, {"DESCENDING", "PREFIX"}), empty_cursor)
        \/ Asks(grn_cursor_open(key, k, k, {"DESCENDING"}), empty_cursor)
    BY <1>0, <1>9 DEF storage_index_read_last_map, storage_get_next_record, Got, Filled
  <2> HIDE DEF k
  <2>2. CASE Asks(grn_cursor_open(key, k, <<>>, {"DESCENDING", "PREFIX"}), empty_cursor)
    BY <1>4, <1>9, <2>2
  <2>3. CASE Asks(grn_cursor_open(key, k, k, {"DESCENDING"}), empty_cursor)
    BY <1>4, <1>9, <2>3
  <2> QED  BY <2>1, <2>2, <2>3
<1>10. CASE /\ plan.desc
            /\ storage_index_read_map(r.max, IF r.maxflag = "BEFORE_KEY" THEN "BEFORE_KEY"
                                                                        ELSE "PREFIX_LAST_OR_PREV")
  BY <1>5, <1>10
<1>11. \/ ~plan.desc /\ r.min = <<>> /\ storage_index_first
       \/ ~plan.desc /\ r.min # <<>> /\ storage_index_read_map(r.min, r.minflag)
       \/ plan.desc /\ storage_index_last
       \/ plan.desc /\ storage_index_read_last_map(r.max)
       \/ /\ plan.desc
          /\ storage_index_read_map(r.max, IF r.maxflag = "BEFORE_KEY" THEN "BEFORE_KEY"
                                                                      ELSE "PREFIX_LAST_OR_PREV")
  BY DEF IndexReadFirst
<1> QED  BY <1>6, <1>7, <1>8, <1>9, <1>10, <1>11

\* storage_index_read_map(), storage_index_read_last_map(), storage_index_first(),
\* storage_index_last()
LEMMA IndexReadFirstStep ==
    ASSUME SearchInv, IndexReadFirst
    PROVE  SearchInv'
<1>0. /\ phase = "first" /\ ByIndex(plan) /\ plan.access \notin {"scan", "ft"}
      /\ UNCHANGED <<pushed_cond, ft, ignoring_no_key_columns, active_index>>
  BY DEF IndexReadFirst, ReadUnchanged, ByIndex
<1>1. PICK c, e :
         /\ Got(None, c, e, record_id', result_cursor', cursor', empty_cursor')
         /\ Filled(c)
         /\ OpenOK(table, plan.key, None, c, e)
         /\ ~plan.desc => OpenIds(None, c, e) \subseteq Reach(table, plan.key, Head(todo))
         /\ ~plan.desc /\ IsExact(Head(todo)) => count_skip' = check_count_skip(Len(Head(todo).min))
  BY FirstOpens
<1>2. Received(record_id' = NIL)
  BY DEF IndexReadFirst, storage_index_first, storage_index_last, storage_index_read_map,
         storage_index_read_last_map, storage_get_next_record
<1>3. ASSUME query.count PROVE OpenIds(None, c, e) \cup RangesAhead(2) \subseteq Ahead
  <2>1. PlanOK(query, plan) /\ RangesOK(plan.key, todo) /\ todo # <<>>
    BY <1>0 DEF SearchInv, TypeInv, TodoInv
  <2>2. ~plan.desc  BY <1>3, <2>1 DEF PlanOK
  <2>3. Ahead = RangesAhead(1)  BY <1>0 DEF Ahead
  <2>4. Len(todo) \in Nat /\ 1 \in 1 .. Len(todo) /\ Head(todo) = todo[1]
    <3>1. todo \in Seq(KeyRanges)  BY <2>1 DEF RangesOK
    <3> QED  BY <2>1, <3>1
  <2>5. OpenIds(None, c, e) \subseteq RangesAhead(1)
    <3>1. OpenIds(None, c, e) \subseteq Reach(table, plan.key, todo[1])  BY <1>1, <2>2, <2>4
    <3> QED  BY <2>4, <3>1 DEF RangesAhead
  <2>6. RangesAhead(2) \subseteq RangesAhead(1)
    <3>1. 2 .. Len(todo) \subseteq 1 .. Len(todo)  BY <2>4
    <3> QED  BY <3>1 DEF RangesAhead
  <2> QED  BY <2>3, <2>5, <2>6
<1>4. ~plan.desc /\ IsExact(Head(todo)) /\ count_skip' => check_count_skip(Len(Head(todo).min))
  BY <1>1
<1> QED  BY <1>0, <1>1, <1>2, <1>3, <1>4, IndexRead

\* storage_ft_read()
LEMMA FtReadStep ==
    ASSUME SearchInv, FtRead
    PROVE  SearchInv'
<1>0. /\ phase = "next" /\ plan.access = "ft" /\ Received(ft = <<>>)
      /\ UNCHANGED <<pushed_cond, cursors, count_skip, ignoring_no_key_columns, active_index>>
  BY DEF FtRead
<1>1. /\ table \in Tables /\ query \in Statements /\ PlanOK(query, plan) /\ ~ByIndex(plan)
      /\ ~ignoring_no_key_columns /\ ListOf(table, ft) /\ buf \in Rows /\ record_id \in Ids \cup {NIL}
      /\ "ft" \in DOMAIN KeyColumns
  BY <1>0, KeyAssumption DEF SearchInv, TypeInv, CleanInv, CursorInv, ByIndex
<1>2. \/ ft = <<>> /\ UNCHANGED <<record_id, buf, ft>>
      \/ ft # <<>> /\ ft' = Tail(ft) /\ record_id # NIL /\ UNCHANGED <<record_id, buf>>
      \/ /\ ft # <<>> /\ ft' = Tail(ft) /\ record_id' = Head(ft)
         /\ buf' = storage_store_fields(record_id', buf)
  BY DEF FtRead
<1>3. ft # <<>> => /\ ListOf(table, Tail(ft)) /\ Head(ft) \in Ids
                   /\ Head(ft) \in {ft[i] : i \in DOMAIN ft}
                   /\ {Tail(ft)[i] : i \in DOMAIN Tail(ft)} = {ft[i] : i \in DOMAIN ft} \ {Head(ft)}
  BY <1>1, ListTail DEF Ids
<1>4. /\ record_id' \in Ids \cup {NIL} /\ (ft # <<>> => record_id' \in Ids)
      /\ ListOf(table, ft') /\ (ft # <<>> => ft' = Tail(ft))
  <2>1. NIL \notin Ids  BY <1>1, TableFacts DEF Ids
  <2> QED  BY <1>1, <1>2, <1>3, <2>1
<1>5. buf' \in Rows /\ (ft # <<>> => \A c \in Columns : buf'[c] = table[record_id'][c])
  <2>1. CASE UNCHANGED <<record_id, buf>> /\ (ft # <<>> => record_id # NIL)
    <3>1. record_id # NIL => \A c \in Columns : buf[c] = table[record_id][c]
      BY <1>0 DEF SearchInv, BufInv
    <3> QED  BY <1>1, <2>1, <3>1
  <2>2. CASE record_id' \in Ids /\ buf' = storage_store_fields(record_id', buf)
    BY <1>1, <2>2, StoreFields
  <2> QED  BY <1>2, <1>4, <2>1, <2>2
<1>6. /\ UNCHANGED <<table, server, pushType, query, plan>>
      /\ Moves \/ (ft # <<>> /\ Judges)
  BY <1>0, <1>1, <1>4, <1>5, ReceivedMatch
<1>7. TypeInv' /\ TodoInv' /\ CursorInv' /\ CleanInv'
  <2>1. OpenOK(table, "ft", result_cursor', cursor', empty_cursor') \/ cursor # None
    BY <1>0 DEF SearchInv, CursorInv, OpenOK, cursors
  <2>2. PICK key \in DOMAIN KeyColumns : OpenOK(table, key, result_cursor', cursor', empty_cursor')
    BY <1>0, <1>1, <2>1 DEF SearchInv, CursorInv, OpenOK, cursors
  <2>3. result_cursor' = None  BY <1>0 DEF SearchInv, CleanInv, cursors
  <2>4. Moves \/ (record_id' \in Ids /\ Judges)  BY <1>4, <1>6
  <2> QED  BY <1>0, <1>1, <1>4, <1>5, <1>6, <2>2, <2>3, <2>4, ReadBasics
<1>8. todo = <<>> /\ (Moves => phase' = "end" /\ n' = n)
  <2>1. todo = <<>>  BY <1>0, <1>1 DEF SearchInv, TodoInv
  <2> QED  BY <2>1 DEF Moves
<1>9. BufInv' /\ ReachInv'
  <2>1. phase' = "next" => ft # <<>>  BY <1>6, <1>8
  <2> QED  BY <1>0, <1>1, <1>5, <1>6, <2>1 DEF BufInv, ReachInv, ByIndex
<1>10. CountInv'
  <2>0. Ahead = {ft[i] : i \in DOMAIN ft}  BY <1>0 DEF Ahead
  <2>1. CASE Moves
    <3>1. phase' = "end" /\ n' = n  BY <1>8, <2>1
    <3>2. Ahead' = {}  BY <3>1 DEF Ahead
    <3> QED  BY <1>6, <3>1, <3>2, CountSame DEF SearchInv
  <2>2. CASE ft # <<>> /\ Judges
    <3>1. phase' \in {"next", "end"} /\ (n' = n \/ (query.count /\ n' = n + 1))  BY <2>2 DEF Judges
    <3>2. Ahead' = {} \/ Ahead' = {ft'[i] : i \in DOMAIN ft'}  BY <1>0, <1>6, <3>1 DEF Ahead
    <3>3. {ft'[i] : i \in DOMAIN ft'} = {ft[i] : i \in DOMAIN ft} \ {Head(ft)}  BY <1>3, <1>4, <2>2
    <3>4. Head(ft) \in Ids /\ Head(ft) \in Ahead /\ Ahead' \subseteq Ahead \ {Head(ft)}
      BY <1>3, <2>0, <2>2, <3>2, <3>3
    <3> QED  BY <1>1, <1>6, <3>1, <3>4, CountRead DEF SearchInv
  <2> QED  BY <1>6, <2>1, <2>2
<1> QED  BY <1>7, <1>9, <1>10 DEF SearchInv

-----------------------------------------------------------------------------
(* The theorems. *)

\* Each step keeps the invariant.
LEMMA SearchStep ==
    ASSUME SearchInv, [Next]_vars
    PROVE  SearchInv'
<1>1. ASSUME NEW q \in Statements, NEW p \in Paths(q), Start(q, p) PROVE SearchInv'
  BY <1>1, StartStep
<1>2. CASE CondPush  BY <1>2, CondPushStep
<1>3. CASE RndInit  BY <1>3, RndInitStep
<1>4. ASSUME NEW k \in BOOLEAN, IndexInit(k) PROVE SearchInv'  BY <1>4, IndexInitStep
<1>5. CASE RndNext  BY <1>5, RndNextStep
<1>6. CASE IndexReadFirst  BY <1>6, IndexReadFirstStep
<1>7. CASE IndexReadNext  BY <1>7, IndexReadNextStep
<1>8. CASE FtInit  BY <1>8, FtInitStep
<1>9. CASE FtRead  BY <1>9, FtReadStep
<1>10. CASE End  BY <1>10, EndStep
<1>11. CASE SortInit  BY <1>11, SortInitStep
<1>12. CASE RndPos  BY <1>12, RndPosStep
<1>13. CASE RndEnd  BY <1>13, RndEndStep
<1>14. CASE Reset  BY <1>14, ResetStep
<1>15. CASE Answered  BY <1>15, AnsweredStep
<1>16. CASE UNCHANGED vars
  <2>1. /\ UNCHANGED <<table, query, plan, phase, todo, pending, n, server>>
        /\ UNCHANGED <<pushed_cond, cursor, result_cursor, empty_cursor, ft, record_id, count_skip,
                       ignoring_no_key_columns, active_index, buf>>
    BY <1>16 DEF vars, serverVars, handlerVars
  <2>2. TypeInv'  BY <2>1 DEF SearchInv, TypeInv, Ids
  <2>3. TodoInv' /\ CursorInv'  BY <2>1 DEF SearchInv, TodoInv, CursorInv
  <2>4. CleanInv'
    <3>1. Filesort' <=> Filesort  BY <2>1 DEF Filesort, InOrder
    <3> QED  BY <2>1, <3>1 DEF SearchInv, CleanInv
  <2>5. UsedColumns(query)' = UsedColumns(query)
        /\ (\A m : check_count_skip(m)' <=> check_count_skip(m))
    BY <2>1 DEF UsedColumns, check_count_skip, is_skippable, is_skippable_func, SkippableField
  <2>6. BufInv'
    <3>1. (SameUsed' <=> SameUsed) /\ (SkipsBuffer' <=> SkipsBuffer)
      BY <2>1, <2>5 DEF SameUsed, SkipsBuffer
    <3> QED  BY <2>1, <2>5, <3>1 DEF SearchInv, BufInv
  <2>7. ReachInv'  BY <2>1 DEF SearchInv, ReachInv
  <2>8. CountInv'
    <3>1. Ahead' = Ahead  BY <2>1 DEF Ahead, RangesAhead, Ids
    <3> QED  BY <2>1, <3>1, CountSame DEF SearchInv
  <2> QED  BY <2>2, <2>3, <2>4, <2>6, <2>7, <2>8 DEF SearchInv
<1> QED
  BY <1>1, <1>2, <1>3, <1>4, <1>5, <1>6, <1>7, <1>8, <1>9, <1>10, <1>11, <1>12, <1>13, <1>14,
     <1>15, <1>16 DEF Next

\* The read calls, the buffer, the cursors and the counter of a statement keep to
\* one another: what the other theorems rest on.
THEOREM SearchInvariant == Spec => []SearchInv
<1>1. Init => SearchInv  BY InitStep
<1>2. SearchInv /\ [Next]_vars => SearchInv'  BY SearchStep
<1> QED  BY <1>1, <1>2, PTL DEF Spec

\* The handler's variables have their types; the cursors, sorted or cut by Groonga
\* or not, are on records of the table, and COUNT counts no record twice.
THEOREM SearchTypeCorrect == Spec => []SearchTypeOK
<1>1. SearchInv => SearchTypeOK
  <2> SUFFICES ASSUME SearchInv PROVE SearchTypeOK  OBVIOUS
  <2>1. /\ phase \in Phases /\ pushed_cond \in {NoWhere, query.where}
        /\ record_id \in Ids \cup {NIL} /\ active_index \in DOMAIN KeyColumns \cup {None}
        /\ table \in Tables
    BY DEF SearchInv, TypeInv
  <2>2. ASSUME cursor # None PROVE \A i \in DOMAIN cursor : cursor[i].id \in Ids
    <3> DEFINE E == [id : DOMAIN table, key : Seq(Int)]
    <3>1. cursor \in Seq(E)  BY <2>2 DEF SearchInv, CursorInv, CursorOf
    <3>2. \A x \in E : x.id \in Ids  BY DEF Ids
    <3> HIDE DEF E
    <3> QED  BY <3>1, <3>2
  <2>3. ASSUME result_cursor # None PROVE \A i \in DOMAIN result_cursor : result_cursor[i] \in Ids
    <3>1. result_cursor \in Seq(Ids)  BY <2>3 DEF SearchInv, CursorInv, ListOf, Ids
    <3> QED  BY <3>1
  <2>4. n \in 0 .. Cardinality(Ids)
    <3>1. IsFiniteSet(Ids) /\ Cardinality(Ids) \in Nat  BY <2>1, TableFacts DEF Ids
    <3>2. CASE ~query.count  BY <3>1, <3>2 DEF SearchInv, CountInv
    <3>3. CASE query.count
      <4>1. PICK C \in SUBSET Ids : n = Cardinality(C)  BY <3>3 DEF SearchInv, CountInv
      <4>2. IsFiniteSet(C) /\ Cardinality(C) <= Cardinality(Ids)  BY <3>1, FS_Subset
      <4>3. Cardinality(C) \in Nat  BY <4>2, FS_CardinalityType
      <4> QED  BY <3>1, <4>1, <4>2, <4>3
    <3> QED  BY <3>2, <3>3
  <2> QED  BY <2>1, <2>2, <2>3, <2>4 DEF SearchTypeOK, Phases
<1> QED  BY <1>1, SearchInvariant, PTL

\* clear_cursor(), clear_empty_value_records(), clear_search_result() and reset()
\* between them let go of all that a statement has opened, on every access path.
THEOREM HandlerStaysClean == Spec => []HandlerIsClean
<1>1. SearchInv => HandlerIsClean  BY DEF SearchInv, CleanInv, HandlerIsClean
<1> QED  BY <1>1, SearchInvariant, PTL

\* Where storage_index_next_same() and storage_ft_read() leave the record buffer
\* alone, CountSkipChecker has made sure that WHERE says of what is in it what it
\* says of the record.
THEOREM SkippedAlike == Spec => []SkippedIsAlike
<1>1. SearchInv => SkippedIsAlike
  <2> SUFFICES ASSUME SearchInv, phase = "next", record_id # NIL, query.count,
                      query.where # NoWhere, plan.access # "scan"
               PROVE  Accepts(buf, record_id) <=> SqlHolds(query.where, table[record_id])
    BY DEF SkippedIsAlike
  <2>1. /\ table \in Tables /\ query \in Statements /\ PlanOK(query, plan)
        /\ record_id \in Ids /\ buf \in Rows
    BY DEF SearchInv, TypeInv
  <2>2. SUFFICES \A c \in ReadColumns(query.where) : Weight(c, buf[c]) = Weight(c, table[record_id][c])
    <3>1. SqlHolds(query.where, [buf EXCEPT ![FullText] = Relevance(record_id)])
             = SqlHolds(query.where, table[record_id])
      BY <2>1, <2>2, BufferJudged
    <3> QED  BY <3>1 DEF Accepts
  <2>3. ReadColumns(query.where) \subseteq Columns
        /\ ReadColumns(query.where) \subseteq UsedColumns(query)
    BY <2>1, UsedAre
  <2>4. CASE plan.access = "ft"
    <3>1. \A c \in Columns : buf[c] = table[record_id][c]  BY <2>4 DEF SearchInv, BufInv
    <3> QED  BY <2>3, <3>1
  <2>5. CASE plan.access # "ft"
    <3>1. /\ ByIndex(plan) /\ ~plan.desc /\ plan.access \in {"ref", "range"}
          /\ query.where.functype # "MATCH" /\ plan.key \in DOMAIN KeyColumns
      BY <2>1, <2>5 DEF PlanOK, ByIndex, RangeKeys
    <3>2. SameUsed \/ SkipsBuffer  BY <3>1 DEF SearchInv, BufInv
    <3>3. CASE SameUsed  BY <2>3, <3>3 DEF SameUsed
    <3>4. CASE SkipsBuffer
      <4> DEFINE r == Head(todo)
      <4>1. count_skip /\ IsExact(r) /\ Like(plan.key, r.min, buf)  BY <3>4 DEF SkipsBuffer
      <4>2. check_count_skip(Len(r.min))  BY <3>1, <4>1 DEF SearchInv, BufInv
      <4>3. Like(plan.key, r.min, table[record_id])
        <5>1. record_id \in Reach(table, plan.key, r)  BY <3>1 DEF SearchInv, ReachInv
        <5> QED  BY <4>1, <5>1 DEF Reach
      <4>4. KeyValues(plan.key, r.min, Len(r.min))
        <5>1. RangesOK(plan.key, todo) /\ todo # <<>>  BY <3>1 DEF SearchInv, TodoInv
        <5>2. todo \in Seq(KeyRanges)  BY <5>1 DEF RangesOK
        <5>3. 1 \in 1 .. Len(todo) /\ r = todo[1]  BY <5>1, <5>2
        <5> QED  BY <4>1, <5>1, <5>3 DEF RangesOK
      <4>5. active_index = plan.key  BY DEF SearchInv, CleanInv
      <4> HIDE DEF r
      <4> QED  BY <2>1, <3>1, <4>1, <4>2, <4>3, <4>4, <4>5, SkippedAgree
    <3> QED  BY <3>2, <3>3, <3>4
  <2> QED  BY <2>4, <2>5
<1> QED  BY <1>1, SearchInvariant, PTL

-----------------------------------------------------------------------------
(* What a read call leaves in the record buffer. *)

\* The record buffer has what the statement uses of the record.
BufferHas == record_id' # NIL => \A c \in UsedColumns(query) : buf'[c] = table[record_id'][c]

\* A read that fills the buffer fills it with what the statement uses.
LEMMA ReadFills ==
    ASSUME SearchInv, phase \in {"first", "next"}, NEW key, NEW rc, NEW c, NEW e,
           ByIndex(plan) => key = plan.key, OpenOK(table, key, rc, c, e),
           ByIndex(plan) => rc = None,
           Got(rc, c, e, record_id', result_cursor', cursor', empty_cursor'), Filled(c)
    PROVE  BufferHas
<1>1. table \in Tables /\ query \in Statements  BY DEF SearchInv, TypeInv
<1>2. /\ record_id' \in Ids \cup {NIL}
      /\ record_id' # NIL /\ rc = None /\ c # None =>
            Head(c).id = record_id' /\ Head(c).key = IndexKey(key, table[record_id'])
  BY <1>1, GotIs DEF Ids
<1>3. ignoring_no_key_columns => ByIndex(plan)  BY DEF SearchInv, CleanInv
<1>4. record_id' # NIL =>
         \A col \in Columns : col \in UsedColumns(query) \/ KeyHas(active_index, col) =>
                                 buf'[col] = table[record_id'][col]
  BY <1>2, <1>3, FilledIs
<1>5. UsedColumns(query) \subseteq Columns  BY <1>1, UsedAre
<1> QED  BY <1>4, <1>5 DEF BufferHas

\* storage_rnd_next() fills the buffer from the row.
LEMMA RndNextFills ==
    ASSUME SearchInv, RndNext
    PROVE  BufferHas
<1>0. /\ phase = "next" /\ plan.access = "scan"
      /\ Got(result_cursor, cursor, empty_cursor, record_id', result_cursor', cursor', empty_cursor')
      /\ Filled(cursor)
  BY DEF RndNext, storage_get_next_record, Got, Filled
<1>1. ~ByIndex(plan)  BY <1>0 DEF ByIndex
<1>2. PICK key \in DOMAIN KeyColumns : OpenOK(table, key, result_cursor, cursor, empty_cursor)
  <2>1. Primary \in DOMAIN KeyColumns  BY KeyAssumption
  <2> QED  BY <2>1 DEF SearchInv, CursorInv, OpenOK
<1> QED  BY <1>0, <1>1, <1>2, ReadFills

\* So does the first read of a range, from the row or from the index key.
LEMMA IndexReadFirstFills ==
    ASSUME SearchInv, IndexReadFirst
    PROVE  BufferHas
<1>0. phase = "first"  BY DEF IndexReadFirst
<1>1. PICK c, e : /\ Got(None, c, e, record_id', result_cursor', cursor', empty_cursor')
                  /\ Filled(c) /\ OpenOK(table, plan.key, None, c, e)
  BY FirstOpens
<1> QED  BY <1>0, <1>1, ReadFills

\* storage_index_next_same() may leave the buffer alone only with count skip.
LEMMA IndexReadNextFills ==
    ASSUME SearchInv, IndexReadNext, ~count_skip'
    PROVE  BufferHas
<1>0. /\ phase = "next" /\ ByIndex(plan)
      /\ Got(result_cursor, cursor, empty_cursor, record_id', result_cursor', cursor', empty_cursor')
  BY DEF IndexReadNext, storage_get_next_record, Got, ByIndex
<1>1. Filled(cursor)
  <2>1. \/ Filled(cursor)
        \/ count_skip /\ count_skip' = count_skip
    BY DEF IndexReadNext, storage_get_next_record, Filled
  <2> QED  BY <2>1
<1>2. result_cursor = None  BY <1>0 DEF SearchInv, CleanInv, ByIndex
<1>3. OpenOK(table, plan.key, result_cursor, cursor, empty_cursor)
  BY <1>0 DEF SearchInv, CursorInv, OpenOK
<1> QED  BY <1>0, <1>1, <1>2, <1>3, ReadFills

\* storage_ft_read() reads the row, or stays with the row it has read.
LEMMA FtReadFills ==
    ASSUME SearchInv, FtRead
    PROVE  BufferHas
<1>0. phase = "next" /\ plan.access = "ft" /\ ~ignoring_no_key_columns
  BY DEF FtRead, SearchInv, CleanInv, ByIndex
<1>1. /\ table \in Tables /\ query \in Statements /\ ListOf(table, ft) /\ buf \in Rows
      /\ UsedColumns(query) \subseteq Columns
  BY <1>0, UsedAre DEF SearchInv, TypeInv, CursorInv
<1>2. \/ UNCHANGED <<record_id, buf>>
      \/ ft # <<>> /\ record_id' = Head(ft) /\ buf' = storage_store_fields(record_id', buf)
  BY DEF FtRead
<1>3. CASE UNCHANGED <<record_id, buf>>
  BY <1>0, <1>1, <1>3 DEF SearchInv, BufInv, BufferHas
<1>4. CASE ft # <<>> /\ record_id' = Head(ft) /\ buf' = storage_store_fields(record_id', buf)
  <2>1. record_id' \in Ids  BY <1>1, <1>4, ListTail DEF Ids
  <2>2. \A c \in Columns : buf'[c] = table[record_id'][c]  BY <1>0, <1>1, <1>4, <2>1, StoreFields
  <2> QED  BY <1>1, <2>2 DEF BufferHas
<1> QED  BY <1>2, <1>3, <1>4

\* storage_store_fields(), storage_store_fields_for_primary_key() and
\* storage_store_fields_by_index(), index only reads included, deliver what the
\* server asked for: no read call leaves a column of an earlier record in the
\* buffer that the statement uses, unless count skip says it may.
THEOREM BufferHoldsRecord == Spec => BufferIsRecord
<1> DEFINE A == (phase \in {"first", "next"} /\ record_id' # NIL /\ ~count_skip') =>
                   \A c \in UsedColumns(query) : buf'[c] = table[record_id'][c]
<1>1. SearchInv /\ [Next]_vars => [A]_vars
  <2> SUFFICES ASSUME SearchInv, Next, phase \in {"first", "next"}, record_id' # NIL, ~count_skip'
               PROVE  BufferHas
    BY DEF BufferHas
  <2>1. RndNext \/ IndexReadFirst \/ IndexReadNext \/ FtInit \/ FtRead \/ phase \notin {"first", "next"}
    BY DEF Next, CondPush, RndInit, IndexInit, End, SortInit, RndPos, RndEnd, Reset, Answered
  <2>2. ~FtInit  BY DEF FtInit
  <2> QED  BY <2>1, <2>2, RndNextFills, IndexReadFirstFills, IndexReadNextFills, FtReadFills
<1> QED  BY <1>1, SearchInvariant, PTL DEF Spec, BufferIsRecord

-----------------------------------------------------------------------------
(* A statement comes to its end. *)

\* A step leaves less to do.
Ends ==
    \/ Rank[phase'] < Rank[phase]
    \/ Rank[phase'] = Rank[phase] /\ Left' < Left

\* The ranks of the phases.
LEMMA RankIs ==
    \A p :
       /\ p = "push" => Rank[p] = 8
       /\ p = "init" => Rank[p] = 7
       /\ p \in {"first", "next"} => Rank[p] = 6
       /\ p = "end" => Rank[p] = 5
       /\ p = "sort" => Rank[p] = 4
       /\ p = "fetch" => Rank[p] = 3
       /\ p = "reset" => Rank[p] = 2
       /\ p = "answered" => Rank[p] = 1
       /\ p = "idle" => Rank[p] = 0
BY DEF Rank

\* What is left to do, in the phases that read.
LEMMA LeftIs ==
    ASSUME SearchInv
    PROVE  /\ Cardinality(Ids) \in Nat /\ Len(todo) \in Nat
           /\ phase = "first" => Left = (Cardinality(Ids) + 2) * Len(todo) + Cardinality(Ids) + 1
           /\ phase = "next" => Left = (Cardinality(Ids) + 2) * Len(todo) + Len(OpenCursor)
           /\ phase = "fetch" => Left = Len(pending)
           /\ plan.access # "ft" => Len(OpenCursor) = OpenLen(result_cursor, cursor, empty_cursor)
           /\ plan.access = "ft" => OpenCursor = ft
<1>1. Cardinality(Ids) \in Nat  BY TableFacts DEF SearchInv, TypeInv, Ids
<1>2. Len(todo) \in Nat
  <2>1. todo \in Seq(KeyRanges)  BY DEF SearchInv, TodoInv
  <2> QED  BY <2>1
<1>3. /\ phase = "first" => Left = (Cardinality(Ids) + 2) * Len(todo) + Cardinality(Ids) + 1
      /\ phase = "next" => Left = (Cardinality(Ids) + 2) * Len(todo) + Len(OpenCursor)
      /\ phase = "fetch" => Left = Len(pending)
  BY DEF Left
<1>4. plan.access # "ft" => Len(OpenCursor) = OpenLen(result_cursor, cursor, empty_cursor)
  BY DEF OpenCursor, OpenLen
<1>5. plan.access = "ft" => OpenCursor = ft  BY DEF OpenCursor
<1> QED  BY <1>1, <1>2, <1>3, <1>4, <1>5

\* A record less, or a range less and any number of records more.
LEMMA LeftLess ==
    ASSUME NEW N \in Nat, NEW l \in Nat, NEW k \in Nat
    PROVE  /\ k <= N => (N + 2) * l + k < (N + 2) * l + N + 1
           /\ l > 1 => /\ (N + 2) * (l - 1) + N + 1 < (N + 2) * l + N + 1
                       /\ (N + 2) * (l - 1) + N + 1 < (N + 2) * l + k
           /\ k > 0 => (N + 2) * l + (k - 1) < (N + 2) * l + k
<1>1. (N + 2) * l \in Int /\ (N + 2) * (l - 1) = (N + 2) * l - (N + 2)
  <2>1. \A a, b \in Int : a * b \in Int /\ a * (b - 1) = a * b - a  OBVIOUS
  <2>2. N + 2 \in Int /\ l \in Int  OBVIOUS
  <2> QED  BY <2>1, <2>2
<1> DEFINE x == (N + 2) * l  y == (N + 2) * (l - 1)
<1>2. x \in Int /\ y = x - (N + 2)  BY <1>1
<1> HIDE DEF x, y
<1>3. /\ k <= N => x + k < x + N + 1
      /\ l > 1 => y + N + 1 < x + N + 1 /\ y + N + 1 < x + k
      /\ k > 0 => x + (k - 1) < x + k
  BY <1>2
<1> QED  BY <1>3 DEF x, y

\* A read call that goes by the cursors.
LEMMA ReadEnds ==
    ASSUME SearchInv, SearchInv', plan.access # "ft", UNCHANGED <<table, plan>>,
           NEW key, NEW rc, NEW c, NEW e, OpenOK(table, key, rc, c, e),
           \/ phase = "first"
           \/ phase = "next" /\ rc = result_cursor /\ c = cursor /\ e = empty_cursor,
           Got(rc, c, e, record_id', result_cursor', cursor', empty_cursor'),
           Moves \/ (record_id' # NIL /\ Judges)
    PROVE  Ends
<1> DEFINE N == Cardinality(Ids)  l == Len(todo)  k == OpenLen(rc, c, e)
           k2 == OpenLen(result_cursor', cursor', empty_cursor')
<1>1. table \in Tables  BY DEF SearchInv, TypeInv
<1>2. /\ N \in Nat /\ l \in Nat
      /\ phase = "first" => Left = (N + 2) * l + N + 1
      /\ phase = "next" => Left = (N + 2) * l + k
  <2>1. phase = "next" => Len(OpenCursor) = k  BY LeftIs
  <2> QED  BY <2>1, LeftIs
<1>3. /\ phase' = "first" => Left' = (N + 2) * Len(todo') + N + 1
      /\ phase' = "next" => Left' = (N + 2) * Len(todo') + k2
  <2>1. /\ phase' = "first" => Left' = (Cardinality(Ids') + 2) * Len(todo') + Cardinality(Ids') + 1
        /\ phase' = "next" => Left' = (Cardinality(Ids') + 2) * Len(todo') + Len(OpenCursor')
    BY DEF Left
  <2>2. Len(OpenCursor') = k2  BY DEF OpenCursor, OpenLen
  <2>3. Ids' = Ids  BY DEF Ids
  <2> QED  BY <2>1, <2>2, <2>3
<1>4. /\ k \in Nat /\ k <= N
      /\ record_id' # NIL => k \in Nat \ {0} /\ k2 = k - 1
  BY <1>1, OpenLenIs, GotIs DEF Ids
<1>5. phase' = "end" => Ends
  BY RankIs DEF Ends
<1>6. CASE Moves /\ phase' = "first"
  <2>1. l > 1 /\ Len(todo') = l - 1
    <3>1. l > 1 /\ todo' = Tail(todo) /\ todo \in Seq(KeyRanges)
      BY <1>6 DEF Moves, SearchInv, TodoInv
    <3> QED  BY <3>1
  <2>2. Left' = (N + 2) * (l - 1) + N + 1  BY <1>3, <1>6, <2>1
  <2> HIDE DEF N, l, k
  <2>3. Left' < Left  BY <1>2, <1>4, <2>1, <2>2, LeftLess
  <2> QED  BY <1>6, <2>3, RankIs DEF Ends
<1>7. CASE record_id' # NIL /\ Judges /\ phase' = "next"
  <2>1. Len(todo') = l  BY <1>7 DEF Judges
  <2>2. Left' = (N + 2) * l + (k - 1) /\ k > 0  BY <1>3, <1>4, <1>7, <2>1
  <2> HIDE DEF N, l, k
  <2>3. CASE phase = "next"
    <3>1. Left' < Left  BY <1>2, <1>4, <2>2, <2>3, LeftLess
    <3> QED  BY <1>7, <2>3, <3>1, RankIs DEF Ends
  <2>4. CASE phase = "first"
    <3>1. k - 1 \in Nat /\ k - 1 <= N  BY <1>2, <1>4, <2>2
    <3>2. (N + 2) * l + (k - 1) < (N + 2) * l + N + 1  BY <1>2, <3>1, LeftLess
    <3>3. Left' < Left  BY <1>2, <2>2, <2>4, <3>2
    <3> QED  BY <1>7, <2>4, <3>3, RankIs DEF Ends
  <2> QED  BY <2>3, <2>4
<1>8. phase' \in {"first", "next", "end"} /\ (Moves => phase' # "next") /\ (Judges => phase' # "first")
  BY DEF Moves, Judges
<1> QED  BY <1>5, <1>6, <1>7, <1>8

\* storage_rnd_next()
LEMMA RndNextEnds ==
    ASSUME SearchInv, SearchInv', RndNext
    PROVE  Ends
<1>0. /\ phase = "next" /\ plan.access = "scan"
      /\ Got(result_cursor, cursor, empty_cursor, record_id', result_cursor', cursor', empty_cursor')
      /\ Received(record_id' = NIL)
  BY DEF RndNext, storage_get_next_record, Got
<1>1. table \in Tables /\ query \in Statements  BY <1>0 DEF SearchInv, TypeInv
<1>2. UNCHANGED <<table, plan>>  BY <1>0 DEF Received
<1>3. record_id' \in Ids \cup {NIL} /\ buf' \in Rows
  BY <1>2 DEF SearchInv, TypeInv, Ids
<1>4. Moves \/ (record_id' # NIL /\ Judges)  BY <1>0, <1>1, <1>3, ReceivedRecord
<1>5. PICK key \in DOMAIN KeyColumns : OpenOK(table, key, result_cursor, cursor, empty_cursor)
  <2>1. Primary \in DOMAIN KeyColumns  BY KeyAssumption
  <2> QED  BY <2>1 DEF SearchInv, CursorInv, OpenOK
<1> QED  BY <1>0, <1>2, <1>4, <1>5, ReadEnds

\* The first read of a range takes a record from what it has opened.
LEMMA IndexReadFirstEnds ==
    ASSUME SearchInv, SearchInv', IndexReadFirst
    PROVE  Ends
<1>0. phase = "first" /\ plan.access # "ft"  BY DEF IndexReadFirst
<1>1. PICK c, e : /\ Got(None, c, e, record_id', result_cursor', cursor', empty_cursor')
                  /\ OpenOK(table, plan.key, None, c, e)
  BY FirstOpens
<1>2. Received(record_id' = NIL)
  BY DEF IndexReadFirst, storage_index_first, storage_index_last, storage_index_read_map,
         storage_index_read_last_map, storage_get_next_record
<1>3. table \in Tables /\ query \in Statements  BY <1>0 DEF SearchInv, TypeInv
<1>4. UNCHANGED <<table, plan>>  BY <1>2 DEF Received
<1>5. record_id' \in Ids \cup {NIL} /\ buf' \in Rows
  BY <1>4 DEF SearchInv, TypeInv, Ids
<1>6. Moves \/ (record_id' # NIL /\ Judges)  BY <1>2, <1>3, <1>5, ReceivedRecord
<1> QED  BY <1>0, <1>1, <1>4, <1>6, ReadEnds

\* storage_index_next(), storage_index_prev(), storage_index_next_same()
LEMMA IndexReadNextEnds ==
    ASSUME SearchInv, SearchInv', IndexReadNext
    PROVE  Ends
<1>0. /\ phase = "next" /\ ByIndex(plan)
      /\ Got(result_cursor, cursor, empty_cursor, record_id', result_cursor', cursor', empty_cursor')
      /\ Received(record_id' = NIL)
  BY DEF IndexReadNext, storage_get_next_record, Got, ByIndex
<1>1. table \in Tables /\ query \in Statements /\ plan.access # "ft"
  BY <1>0 DEF SearchInv, TypeInv, ByIndex
<1>2. UNCHANGED <<table, plan>>  BY <1>0 DEF Received
<1>3. record_id' \in Ids \cup {NIL} /\ buf' \in Rows
  BY <1>2 DEF SearchInv, TypeInv, Ids
<1>4. Moves \/ (record_id' # NIL /\ Judges)  BY <1>0, <1>1, <1>3, ReceivedRecord
<1>5. OpenOK(table, plan.key, result_cursor, cursor, empty_cursor)
  BY <1>0 DEF SearchInv, CursorInv, OpenOK
<1> QED  BY <1>0, <1>1, <1>2, <1>4, <1>5, ReadEnds

\* storage_ft_init() and storage_ft_read() go by the list of the matches.
LEMMA FtEnds ==
    ASSUME SearchInv, SearchInv', FtInit \/ FtRead
    PROVE  Ends
<1> DEFINE N == Cardinality(Ids)
<1>0. plan.access = "ft" /\ UNCHANGED <<table, plan>> /\ phase \in {"first", "next"}
  BY DEF FtInit, FtRead, Received, serverVars
<1>1. ~ByIndex(plan) /\ table \in Tables /\ query \in Statements
  BY <1>0 DEF SearchInv, TypeInv, ByIndex
<1>2. todo = <<>>  BY <1>0, <1>1 DEF SearchInv, TodoInv
<1>3. N \in Nat  BY LeftIs
<1>4. (N + 2) * Len(todo) = 0  BY <1>2, <1>3
<1>5. /\ phase = "first" => Left = N + 1
      /\ phase = "next" => Left = Len(ft)
  <2>1. /\ phase = "first" => Left = (N + 2) * Len(todo) + N + 1
        /\ phase = "next" => Left = (N + 2) * Len(todo) + Len(ft)
    BY <1>0, LeftIs
  <2>2. phase = "next" => Len(ft) \in Nat  BY <1>0, <1>1, ListLen DEF SearchInv, CursorInv
  <2> HIDE DEF N
  <2> QED  BY <1>3, <1>4, <2>1, <2>2
<1>6. ASSUME phase' = "next" PROVE Left' = Len(ft') /\ Len(ft') \in Nat /\ Len(ft') <= N
  <2>1. ListOf(table, ft')  BY <1>0, <1>6 DEF SearchInv, CursorInv
  <2>2. Len(ft') \in Nat /\ Len(ft') <= N  BY <1>1, <2>1, ListLen DEF Ids
  <2>3. todo' = <<>>
    <3>1. ~ByIndex(plan')  BY <1>0, <1>1
    <3> QED  BY <1>6, <3>1 DEF SearchInv, TodoInv
  <2>4. Left' = (Cardinality(Ids') + 2) * Len(todo') + Len(ft')
    BY <1>0, <1>6 DEF Left, OpenCursor
  <2>5. Ids' = Ids  BY <1>0 DEF Ids
  <2>6. (N + 2) * Len(todo') = 0  BY <1>3, <2>3
  <2>7. Left' = (N + 2) * Len(todo') + Len(ft')  BY <2>4, <2>5
  <2> HIDE DEF N
  <2> QED  BY <2>2, <2>6, <2>7
<1>7. CASE FtInit
  <2>1. phase = "first" /\ phase' = "next"  BY <1>7 DEF FtInit
  <2>2. Left' < Left  BY <1>3, <1>5, <1>6, <2>1
  <2> QED  BY <2>1, <2>2, RankIs DEF Ends
<1>8. CASE FtRead
  <2>1. phase = "next" /\ Received(ft = <<>>)  BY <1>8 DEF FtRead
  <2>2. ListOf(table, ft)  BY <1>0, <2>1 DEF SearchInv, CursorInv
  <2>3. record_id' \in Ids \cup {NIL} /\ buf' \in Rows  BY <1>0 DEF SearchInv, TypeInv, Ids
  <2>4. Moves \/ (ft # <<>> /\ Judges)  BY <1>1, <2>1, <2>3, ReceivedMatch
  <2>5. ~(Len(todo) > 1)  BY <1>2
  <2>6. phase' = "end" \/ (phase' = "next" /\ ft # <<>>)  BY <2>4, <2>5 DEF Moves, Judges
  <2>7. CASE phase' = "end"  BY <2>1, <2>7, RankIs DEF Ends
  <2>8. CASE phase' = "next" /\ ft # <<>>
    <3>1. ft' = Tail(ft)  BY <1>8, <2>8 DEF FtRead
    <3>2. Len(ft) \in Nat \ {0} /\ Len(Tail(ft)) = Len(ft) - 1  BY <2>2, <2>8, ListTail
    <3>3. Left' < Left  BY <1>5, <1>6, <2>1, <2>8, <3>1, <3>2
    <3> QED  BY <2>1, <2>8, <3>3, RankIs DEF Ends
  <2> QED  BY <2>6, <2>7, <2>8
<1> QED  BY <1>7, <1>8

\* rnd_pos() takes the rows of the filesort one by one.
LEMMA RndPosEnds ==
    ASSUME SearchInv, RndPos
    PROVE  Ends
<1>1. phase = "fetch" /\ phase' = "fetch" /\ pending # <<>> /\ pending' = Tail(pending)
  BY DEF RndPos
<1>2. Left = Len(pending) /\ Left' = Len(pending')  BY <1>1 DEF Left
<1>3. Len(pending) \in Nat \ {0} /\ Len(Tail(pending)) = Len(pending) - 1
  <2> DEFINE E == [ref : Ids, key : Int]
  <2>1. pending \in Seq(E)  BY DEF SearchInv, TypeInv
  <2> HIDE DEF E
  <2> QED  BY <1>1, <2>1
<1>4. Left' < Left  BY <1>1, <1>2, <1>3
<1> QED  BY <1>1, <1>4 DEF Ends

\* No read call returns a record without having moved on, whichever cursor is
\* open: storage_get_next_record() and storage_ft_read() take one record from what
\* is open, and the first read of a range opens no more than the table has.
THEOREM StatementsEnd == Spec => StatementEnds
<1> DEFINE A == phase # "idle" => \/ Rank[phase'] < Rank[phase]
                                  \/ Rank[phase'] = Rank[phase] /\ Left' < Left
<1>1. SearchInv /\ SearchInv' /\ [Next]_vars => [A]_vars
  <2> SUFFICES ASSUME SearchInv, SearchInv', Next, phase # "idle" PROVE Ends  BY DEF Ends
  <2>1. CASE RndNext  BY <2>1, RndNextEnds
  <2>2. CASE IndexReadFirst  BY <2>2, IndexReadFirstEnds
  <2>3. CASE IndexReadNext  BY <2>3, IndexReadNextEnds
  <2>4. CASE FtInit \/ FtRead  BY <2>4, FtEnds
  <2>5. CASE RndPos  BY <2>5, RndPosEnds
  <2>6. CASE CondPush \/ RndInit \/ \E k \in BOOLEAN : IndexInit(k)
    <3>1. \/ phase = "push" /\ phase' = "init"
          \/ phase = "init" /\ phase' \in {"first", "next"}
      BY <2>6 DEF CondPush, RndInit, IndexInit
    <3> QED  BY <3>1, RankIs DEF Ends
  <2>7. CASE End \/ SortInit \/ RndEnd \/ Reset \/ Answered
    <3>1. \/ phase = "end" /\ phase' \in {"sort", "reset"}
          \/ phase = "sort" /\ phase' = "fetch"
          \/ phase = "fetch" /\ phase' = "reset"
          \/ phase = "reset" /\ phase' = "answered"
          \/ phase = "answered" /\ phase' = "idle"
      BY <2>7 DEF End, SortInit, RndEnd, Reset, Answered
    <3> QED  BY <3>1, RankIs DEF Ends
  <2> QED  BY <2>1, <2>2, <2>3, <2>4, <2>5, <2>6, <2>7 DEF Next
<1> QED  BY <1>1, SearchInvariant, PTL DEF Spec, StatementEnds
=============================================================================
