-------------------------- MODULE FieldValuesProofs --------------------------
(***************************************************************************)
(* Proofs about FieldValues, for every column (type, sign, length and      *)
(* precision), every set of values the server can hold in it, every time   *)
(* zone whose offset is constant between its changes, and any number of    *)
(* records:                                                                *)
(*   FieldTypeCorrect   what is stored has the type of the Groonga column; *)
(*   ColumnsReadBack    a column reads as the value written last, a        *)
(*                      geometry to the millisecond of arc;                *)
(*   LookupsFind        an index lookup finds what a table scan would;     *)
(*   ColumnsKeepOrder   Groonga's order of a column is the server's;       *)
(*   CodecKeepsOrder    the order of the encoded keys is the server's.     *)
(*                                                                         *)
(* The values are taken type by type: integers (with ENUM, SET and BIT),   *)
(* FLOAT and DOUBLE, TIMESTAMP, TIME, DATE and DATETIME, YEAR, CHAR,       *)
(* VARCHAR and BLOB, LIKE prefixes, geometries.  For each there is what is *)
(* stored, what is read, when a lookup finds it, and the two orders.  The  *)
(* section on all the columns joins them, and the inductive invariant      *)
(* FieldInv carries them through the statements.                           *)
(***************************************************************************)
EXTENDS FieldValues, CodecProofs

-----------------------------------------------------------------------------
(* What a record holds and how it reads, by the value written. *)

\* What INSERT makes of a value, and what SELECT makes of that.
Stored(v) == IF v = Null /\ SkipsNull(field) THEN GrnDefault(field)
                                             ELSE generic_store_bulk(field, v).value
Read(v) == storage_store_field(field, Stored(v))

\* The column and the zone are among those looked at.
Column == field \in Fields /\ zone \in Zones

\* The column and the time zone are of the kinds the model admits.
LEMMA FieldFacts ==
    ASSUME Column
    PROVE  IsField(field) /\ IsZone(zone)
BY FieldAssumption, ZoneAssumption DEF Column, IsZone

\* A value written is one that the server can hold in the column.
LEMMA SampleFacts ==
    ASSUME Column, NEW v \in Samples(field), v # Null
    PROVE  v \in SqlValues(field)
BY SampleAssumption DEF Column

\* More bytes hold more values.
LEMMA PowerMono ==
    ASSUME NEW n \in 0 .. 8, NEW i \in 0 .. n
    PROVE  Base ^ i <= Base ^ n
<1>1. Base ^ n = Base ^ (n - i) * Base ^ i  BY PowerSplit
<1>2. Base ^ (n - i) \in Nat \ {0} /\ Base ^ i \in Nat \ {0} /\ Base ^ n \in Nat  BY PowerNat
<1> DEFINE k == Base ^ (n - i)  p == Base ^ i
<1>3. p * 1 <= p * k
  <2> HIDE DEF k, p
  <2>1. 1 <= k /\ 1 \in Int /\ p \in Nat /\ k \in Int  BY <1>2 DEF k, p
  <2> QED  BY <2>1, MulMono
<1>4. k * p = p * k /\ p * 1 = p
  <2> HIDE DEF k, p
  <2> QED  BY <1>2 DEF k, p
<1> QED  BY <1>1, <1>3, <1>4

-----------------------------------------------------------------------------
(* Whole numbers. *)

Numbers == IntegerTypes \cup UnsignedTypes
NumberOf(v) == IF v = Null THEN 0 ELSE v
UnsignedColumn == field.type \in UnsignedTypes \/ field.unsigned

\* The bytes of a number are as wide as its column, or wider.
LEMMA NumberWidth ==
    ASSUME Column, field.type \in Numbers
    PROVE  /\ field.length \in 1 .. 8 /\ Width(field.length) \in 1 .. 8
           /\ field.length <= Width(field.length)
<1>1. IsField(field)  BY FieldFacts
<1>2. field.length \in 1 .. 8
  <2>1. CASE field.type \in IntegerTypes
    <3>1. field.length = IntegerLength[field.type]  BY <1>1, <2>1 DEF IsField
    <3> QED  BY <2>1, <3>1 DEF IntegerTypes, IntegerLength
  <2>2. CASE field.type \in UnsignedTypes
    BY <1>1, <2>2 DEF IsField, UnsignedTypes
  <2> QED  BY <2>1, <2>2 DEF Numbers
<1> DEFINE n == field.length
<1> HIDE DEF n
<1>3. n \in 1 .. 8  BY <1>2 DEF n
<1>4. Width(n) \in 1 .. 8 /\ n <= Width(n)
  <2>1. n = 1 \/ n = 2 \/ n \in 3 .. 4 \/ n \in 5 .. 8  BY <1>3
  <2> QED  BY <2>1 DEF Width
<1> QED  BY <1>3, <1>4 DEF n

\* The value of a numeric column is in the range of its width.
LEMMA NumberRange ==
    ASSUME Column, field.type \in Numbers, NEW v \in Samples(field)
    PROVE  /\ NumberOf(v) \in Int
           /\ UnsignedColumn => NumberOf(v) \in 0 .. Base ^ Width(field.length) - 1
           /\ ~UnsignedColumn => NumberOf(v) \in SignedRange(Width(field.length))
<1> DEFINE n == field.length  w == Width(n)
<1>1. n \in 1 .. 8 /\ w \in 1 .. 8 /\ n <= w  BY NumberWidth
<1> HIDE DEF n, w
<1>2. /\ n \in 0 .. w /\ w \in 0 .. 8 /\ n - 1 \in 0 .. w - 1 /\ w - 1 \in 0 .. 8
      /\ n \in 0 .. 8 /\ n - 1 \in 0 .. 8
  BY <1>1
<1>3. Base ^ n <= Base ^ w /\ Base ^ (n - 1) <= Base ^ (w - 1)  BY <1>2, PowerMono
<1>4. /\ Base ^ n \in Nat \ {0} /\ Base ^ w \in Nat \ {0} /\ Base ^ (n - 1) \in Nat \ {0}
      /\ Base ^ (w - 1) \in Nat \ {0}
  BY <1>2, PowerNat
<1>5. Half * Base ^ (n - 1) <= Half * Base ^ (w - 1)  BY <1>3, <1>4, MulMono, BaseFacts
<1>6. Half * Base ^ (n - 1) \in Nat \ {0} /\ Half * Base ^ (w - 1) \in Nat \ {0}  BY <1>4, BaseFacts
<1>7. CASE v = Null  BY <1>4, <1>6, <1>7 DEF NumberOf, SignedRange, n, w
<1>8. CASE v # Null
  <2>1. v \in SqlValues(field)  BY <1>8, SampleFacts
  <2>2. CASE UnsignedColumn
    <3>1. v \in 0 .. Base ^ n - 1
      BY <2>1, <2>2 DEF SqlValues, UnsignedColumn, Numbers, n, IntegerTypes, UnsignedTypes, Floats,
                        Timestamps, Times, Datetimes, Texts
    <3> QED  BY <1>3, <1>4, <1>8, <2>2, <3>1 DEF NumberOf, n, w
  <2>3. CASE ~UnsignedColumn
    <3>1. v \in -(Half * Base ^ (n - 1)) .. Half * Base ^ (n - 1) - 1
      BY <2>1, <2>3 DEF SqlValues, UnsignedColumn, Numbers, n, IntegerTypes, UnsignedTypes, Floats,
                        Timestamps, Times, Datetimes, Texts
    <3> QED  BY <1>5, <1>6, <1>8, <2>3, <3>1 DEF NumberOf, SignedRange, n, w
  <2> QED  BY <2>2, <2>3
<1> QED  BY <1>7, <1>8

\* A numeric column holds the bytes of the value and reads as the value.
LEMMA NumberStored ==
    ASSUME Column, field.type \in Numbers, NEW v \in Samples(field)
    PROVE  /\ Stored(v) = HostBytes(NumberOf(v), Width(field.length))
           /\ Stored(v) \in [1 .. Width(field.length) -> 0 .. MaxByte]
           /\ Read(v) = NumberOf(v)
<1> DEFINE w == Width(field.length)  b == HostBytes(NumberOf(v), w)
<1>1. w \in 1 .. 8 /\ w \in 0 .. 8 /\ NumberOf(v) \in Int
  BY NumberWidth, NumberRange
<1>2. Stored(v) = b
  <2>1. CASE v = Null /\ SkipsNull(field)
    BY <2>1 DEF Stored, GrnDefault, mrn_grn_type_from_field, Numbers, NumberOf, IntegerTypes,
                UnsignedTypes, Floats, Timestamps, Times, Datetimes, Texts
  <2>2. CASE ~(v = Null /\ SkipsNull(field))
    BY <2>2 DEF Stored, generic_store_bulk, generic_store_bulk_integer, Sound, Bulk,
                generic_store_bulk_unsigned_integer, Numbers, NumberOf, IntegerTypes,
                UnsignedTypes, Floats, Timestamps, Times, Datetimes, Texts
  <2> QED  BY <2>1, <2>2
<1>3. Stored(v) \in [1 .. w -> 0 .. MaxByte]  BY <1>1, <1>2, HostBytesAt, ZenonT(60)
<1>4. CASE UnsignedColumn
  <2>1. HostUnsigned(b) = NumberOf(v)  BY <1>1, <1>4, NumberRange, HostUnsignedBytes
  <2>2. Read(v) = HostUnsigned(Stored(v))
    BY <1>4 DEF Read, storage_store_field, storage_store_field_integer, UnsignedColumn,
                storage_store_field_unsigned_integer, Numbers, IntegerTypes, UnsignedTypes,
                Floats, Timestamps, Times, Datetimes, Texts
  <2> QED  BY <1>2, <1>3, <2>1, <2>2
<1>5. CASE ~UnsignedColumn
  <2>1. HostSigned(b) = NumberOf(v)  BY <1>1, <1>5, NumberRange, HostSignedBytes
  <2>2. Read(v) = HostSigned(Stored(v))
    BY <1>5 DEF Read, storage_store_field, storage_store_field_integer, UnsignedColumn, Numbers,
                IntegerTypes, UnsignedTypes, Floats, Timestamps, Times, Datetimes, Texts
  <2> QED  BY <1>2, <1>3, <2>1, <2>2
<1> QED  BY <1>4, <1>5

\* A lookup finds the numbers that read as the value looked up, and no others.
LEMMA NumberLookUp ==
    ASSUME Column, field.type \in Numbers, NEW v \in Samples(field), NEW u \in Samples(field),
           u # Null, ~LookupDiffers(field, u)
    PROVE  Stored(v) = storage_encode_key(field, u) <=> Read(v) = u
<1> USE DEF IntegerTypes, UnsignedTypes, Floats, Timestamps, Times, Datetimes, Texts
<1> DEFINE w == Width(field.length)
<1>1. NumberOf(u) = u /\ u \in Int  BY NumberRange DEF NumberOf
<1>2. Stored(u) = HostBytes(u, w) /\ Read(u) = u  BY <1>1, NumberStored
<1>3. storage_encode_key(field, u) = HostBytes(u, w)
  <2>1. IsField(field)  BY FieldFacts
  <2>2. CASE field.type = "INT24"
    <3>1. field.length = 3 /\ w = 4  BY <2>1, <2>2 DEF IsField, IntegerLength, Width
    <3>2. u \in 0 .. Base ^ 3 - 1
      <4>1. u \in SqlValues(field)  BY SampleFacts
      <4>2. CASE field.unsigned  BY <2>2, <3>1, <4>1, <4>2 DEF SqlValues
      <4>3. CASE ~field.unsigned
        <5>1. u \in -(Half * Base ^ (3 - 1)) .. Half * Base ^ (3 - 1) - 1
          BY <2>2, <3>1, <4>1, <4>3 DEF SqlValues
        <5>2. ~(u < 0)  BY <2>2, <4>3 DEF LookupDiffers
        <5>3. Base ^ 3 = 2 * (Half * Base ^ (3 - 1)) /\ Half * Base ^ (3 - 1) \in Nat
          <6>1. 3 \in 1 .. 8  OBVIOUS
          <6> QED  BY <6>1, SignedRangeFacts
        <5> DEFINE h == Half * Base ^ (3 - 1)
        <5> HIDE DEF h
        <5>4. u \in -h .. h - 1 /\ Base ^ 3 = 2 * h /\ h \in Nat  BY <5>1, <5>3 DEF h
        <5> QED  BY <5>2, <5>4
      <4> QED  BY <4>2, <4>3
    <3> DEFINE b == HostBytes(u, 3)  c == HostBytes(u, 4)
    <3>3. b \in Seq(Int) /\ Len(b) = 3 /\ \A i \in 1 .. 3 : b[i] = (u \div Base ^ (i - 1)) % Base
      BY <1>1, HostBytesAt
    <3>4. c \in Seq(Int) /\ Len(c) = 4 /\ \A i \in 1 .. 4 : c[i] = (u \div Base ^ (i - 1)) % Base
      BY <1>1, HostBytesAt
    <3>5. c[4] = 0
      <4>1. Base ^ 3 \in Nat \ {0} /\ 4 - 1 = 3 /\ 4 \in 1 .. 4  BY PowerNat
      <4>2. u \div Base ^ 3 = 0  BY <3>2, <4>1, DivSmall
      <4>3. 0 % Base = 0
        <5>1. 0 \in 0 .. Base - 1 /\ Base \in Nat \ {0}  BY BaseFacts
        <5> QED  BY <5>1, DivSmall
      <4> QED  BY <3>4, <4>1, <4>2, <4>3
    <3>6. \A i \in 1 .. 3 : c[i] = b[i]  BY <3>3, <3>4
    <3> HIDE DEF b, c
    <3>7. b \o <<0>> = c
      <4> DEFINE d == b \o <<0>>  z == <<0>>
      <4>1. z \in Seq(Int) /\ Len(z) = 1 /\ z[1] = 0  OBVIOUS
      <4> HIDE DEF z
      <4>2. /\ b \o z \in Seq(Int) /\ Len(b \o z) = Len(b) + Len(z)
            /\ \A i \in 1 .. Len(b) + Len(z) :
                  (b \o z)[i] = IF i <= Len(b) THEN b[i] ELSE z[i - Len(b)]
        BY <3>3, <4>1, ConcatProperties
      <4>3. (b \o z)[4] = z[1] /\ \A i \in 1 .. 3 : (b \o z)[i] = b[i]
        BY <3>3, <4>1, <4>2
      <4>4. d \in Seq(Int) /\ Len(d) = 4 /\ d[4] = 0 /\ \A i \in 1 .. 3 : d[i] = b[i]
        BY <3>3, <4>1, <4>2, <4>3 DEF z
      <4> HIDE DEF d
      <4>5. \A i \in 1 .. Len(d) : d[i] = c[i]
        <5>1. TAKE i \in 1 .. Len(d)
        <5>2. i \in 1 .. 3 \/ i = 4  BY <4>4
        <5> QED  BY <3>5, <3>6, <4>4, <5>2
      <4>6. d = c  BY <3>4, <4>4, <4>5, SeqEqual
      <4> QED  BY <4>6 DEF d
    <3>8. storage_encode_key(field, u) = b \o <<0>>
      BY <2>2 DEF storage_encode_key, storage_encode_key_int, b
    <3> QED  BY <3>1, <3>7, <3>8 DEF c
  <2>3. CASE field.type \in IntegerTypes /\ field.type # "INT24"
    <3>1. w = field.length  BY <2>1, <2>3 DEF IsField, IntegerLength, Width
    <3> QED  BY <2>3, <3>1 DEF storage_encode_key, storage_encode_key_int
  <2>4. CASE field.type = "ENUM"
    <3>1. w = IF field.length = 1 THEN 1 ELSE 2  BY <2>1, <2>4 DEF IsField, Width
    <3> QED  BY <2>4, <3>1 DEF storage_encode_key, storage_encode_key_enum
  <2>5. CASE field.type \in {"BIT", "SET"}
    BY <2>5 DEF storage_encode_key, storage_encode_key_bit, storage_encode_key_set
  <2> QED  BY <2>2, <2>3, <2>4, <2>5 DEF Numbers
<1>4. Stored(v) = Stored(u) => Read(v) = Read(u)  BY DEF Read
<1>5. Read(v) = u => Stored(v) = Stored(u)  BY <1>1, <1>2, NumberStored
<1> QED  BY <1>2, <1>3, <1>4, <1>5

\* Groonga orders the stored numbers as the server does.
LEMMA NumberKeyOrder ==
    ASSUME Column, field.type \in Numbers, NEW v, NEW w
    PROVE  GrnLess(field, Stored(v), Stored(w)) <=> SqlLess(field, Read(v), Read(w))
<1> USE DEF IntegerTypes, UnsignedTypes, Floats, Timestamps, Times, Datetimes, Texts
<1>1. CASE UnsignedColumn
  <2>1. ASSUME NEW g PROVE storage_store_field(field, g) = HostUnsigned(g)
    BY <1>1 DEF storage_store_field, storage_store_field_integer, UnsignedColumn, Numbers,
                storage_store_field_unsigned_integer
  <2>2. mrn_grn_type_from_field(field).base = "UInt"
    BY <1>1 DEF mrn_grn_type_from_field, UnsignedColumn, Numbers
  <2> QED  BY <2>1, <2>2 DEF GrnLess, SqlLess, SqlRank, Read, Numbers, Dated
<1>2. CASE ~UnsignedColumn
  <2>1. ASSUME NEW g PROVE storage_store_field(field, g) = HostSigned(g)
    BY <1>2 DEF storage_store_field, storage_store_field_integer, UnsignedColumn, Numbers
  <2>2. mrn_grn_type_from_field(field).base = "Int"
    BY <1>2 DEF mrn_grn_type_from_field, UnsignedColumn, Numbers
  <2> QED  BY <2>1, <2>2 DEF GrnLess, SqlLess, SqlRank, Read, Numbers, Dated
<1> QED  BY <1>1, <1>2

\* The column as a key of one part.
Encoded(v) == encode(<<KeyPart(field)>>, <<KeyImage(field, v)>>)

\* The key of an index over one column is the encoding of its part.
LEMMA EncodedIs ==
    ASSUME NEW v
    PROVE  Encoded(v) = EncodePart(KeyPart(field), KeyImage(field, v))
BY EncodeOne DEF Encoded

\* Bytes in reverse order: TIMESTAMP and NEWDATE.
LEMMA ReverseCodec ==
    ASSUME Column, KeyPart(field).type = "BYTE_REVERSE", KeyPart(field).size = 8,
           KeyPart(field).nullable = field.nullable, NEW v, NEW w,
           KeyImage(field, v) \in 0 .. Base ^ 8 - 1, KeyImage(field, w) \in 0 .. Base ^ 8 - 1,
           KeyImage(field, v) # Null, KeyImage(field, w) # Null
    PROVE  ByteLess(Encoded(v), Encoded(w)) <=> KeyImage(field, v) < KeyImage(field, w)
<1> DEFINE x == KeyImage(field, v)  y == KeyImage(field, w)  part == KeyPart(field)
           pre == IF field.nullable THEN <<0>> ELSE <<>>
<1>1. x \in 0 .. Base ^ 8 - 1 /\ y \in 0 .. Base ^ 8 - 1 /\ x # Null /\ y # Null  OBVIOUS
<1>2. part.type = "BYTE_REVERSE" /\ part.size = 8 /\ part.nullable = field.nullable  OBVIOUS
<1>3. Encoded(v) = EncodePart(part, x) /\ Encoded(w) = EncodePart(part, y)  BY EncodedIs
<1>4. x \in Int /\ y \in Int
  <2>1. Base ^ 8 \in Nat \ {0}  BY PowerNat
  <2> HIDE DEF x, y
  <2> QED  BY <1>1, <2>1
<1> HIDE DEF x, y, part
<1>5. Encoded(v) = pre \o NetworkBytes(x, 8) /\ Encoded(w) = pre \o NetworkBytes(y, 8)
  BY <1>1, <1>2, <1>3 DEF EncodePart, NetworkBytes, host_to_network
<1>6. NetworkBytes(x, 8) \in Seq(Int) /\ NetworkBytes(y, 8) \in Seq(Int)  BY <1>4, NetworkBytesAt
<1>7. field.nullable \in BOOLEAN  BY FieldFacts DEF IsField
<1>8. ByteLess(pre \o NetworkBytes(x, 8), pre \o NetworkBytes(y, 8))
         <=> ByteLess(NetworkBytes(x, 8), NetworkBytes(y, 8))
  BY <1>6, <1>7, NullableOrder
<1>9. ByteLess(NetworkBytes(x, 8), NetworkBytes(y, 8)) <=> x < y
  <2>1. 8 \in 0 .. 8  OBVIOUS
  <2> QED  BY <1>1, <2>1, NetworkOrder
<1> HIDE DEF pre
<1> QED  BY <1>5, <1>8, <1>9 DEF x, y

\* The codec keeps the order of integers.
LEMMA NumberCodec ==
    ASSUME Column, field.type \in IntegerTypes, NEW v \in Samples(field), NEW w \in Samples(field),
           v # Null, w # Null
    PROVE  ByteLess(Encoded(v), Encoded(w)) <=> SqlLess(field, v, w)
<1> USE DEF IntegerTypes, UnsignedTypes, Floats, Timestamps, Times, Datetimes, Texts
<1> DEFINE n == field.length  part == KeyPart(field)
           pre == IF field.nullable THEN <<0>> ELSE <<>>
           E(u) == encode_number(u, n, ~field.unsigned)
<1>0. IsField(field) /\ n \in 1 .. 8 /\ n \in 0 .. 8  BY FieldFacts, NumberWidth DEF Numbers
<1>1. part = [type |-> "NUMBER", size |-> n, signed |-> ~field.unsigned,
              nullable |-> field.nullable]
  BY <1>0 DEF KeyPart, get_key_info, IsField, IntegerLength
<1>2. KeyImage(field, v) = v /\ KeyImage(field, w) = w  BY DEF KeyImage
<1> HIDE DEF part
<1>3. Encoded(v) = pre \o E(v) /\ Encoded(w) = pre \o E(w)
  BY <1>1, <1>2, EncodedIs DEF EncodePart, part
<1>4. SqlLess(field, v, w) <=> v < w  BY DEF SqlLess, SqlRank, Dated
<1> HIDE DEF n
<1>5. (ByteLess(E(v), E(w)) <=> v < w) /\ E(v) \in Seq(Int) /\ E(w) \in Seq(Int)
  <2>1. CASE field.unsigned
    <3>1. v \in 0 .. Base ^ n - 1 /\ w \in 0 .. Base ^ n - 1
      BY <2>1, SampleFacts DEF SqlValues, n
    <3>2. E(v) = NetworkBytes(v, n) /\ E(w) = NetworkBytes(w, n)
      BY <2>1 DEF encode_number, NetworkBytes
    <3>3. v \in Int /\ w \in Int  BY <1>0, <3>1, PowerNat
    <3>4. NetworkBytes(v, n) \in Seq(Int) /\ NetworkBytes(w, n) \in Seq(Int)
      BY <1>0, <3>3, NetworkBytesAt
    <3>5. ByteLess(NetworkBytes(v, n), NetworkBytes(w, n)) <=> v < w  BY <1>0, <3>1, NetworkOrder
    <3> HIDE DEF E
    <3> QED  BY <3>2, <3>4, <3>5
  <2>2. CASE ~field.unsigned
    <3>1. v \in SignedRange(n) /\ w \in SignedRange(n)
      BY <2>2, SampleFacts DEF SqlValues, SignedRange, n
    <3>2. v \in Int /\ w \in Int /\ v + Half * Base ^ (n - 1) \in Int /\ w + Half * Base ^ (n - 1) \in Int
      BY <1>0, <3>1, SignedRangeFacts
    <3>3. E(v) = FlipTop(NetworkBytes(v, n)) /\ E(w) = FlipTop(NetworkBytes(w, n))
      BY <2>2 DEF encode_number, NetworkBytes
    <3>4. E(v) \in Seq(Int) /\ E(w) \in Seq(Int)
      <4>1. /\ FlipTop(NetworkBytes(v, n)) = NetworkBytes(v + Half * Base ^ (n - 1), n)
            /\ FlipTop(NetworkBytes(w, n)) = NetworkBytes(w + Half * Base ^ (n - 1), n)
        BY <1>0, <3>2, FlipTopNetwork
      <4>2. /\ NetworkBytes(v + Half * Base ^ (n - 1), n) \in Seq(Int)
            /\ NetworkBytes(w + Half * Base ^ (n - 1), n) \in Seq(Int)
        BY <1>0, <3>2, NetworkBytesAt
      <4> HIDE DEF E
      <4> QED  BY <3>3, <4>1, <4>2
    <3>5. E(v) = encode_number(v, n, TRUE) /\ E(w) = encode_number(w, n, TRUE)  BY <2>2
    <3> QED  BY <1>0, <3>1, <3>4, <3>5, NumberOrder
  <2> QED  BY <2>1, <2>2
<1> HIDE DEF E
<1>6. field.nullable \in BOOLEAN  BY <1>0 DEF IsField
<1>7. ByteLess(pre \o E(v), pre \o E(w)) <=> ByteLess(E(v), E(w))
  BY <1>5, <1>6, NullableOrder
<1> QED  BY <1>3, <1>4, <1>5, <1>7

-----------------------------------------------------------------------------
(* Floats. *)

FloatOf(v) == IF v = Null THEN [neg |-> FALSE, mag |-> 0] ELSE v

\* The value of a FLOAT or DOUBLE is in the range of its width.
LEMMA FloatValue ==
    ASSUME Column, field.type \in Floats, NEW v \in Samples(field)
    PROVE  FloatOf(v) \in FloatRange(Bytes(field)) /\ Bytes(field) \in {4, 8}
<1> USE DEF IntegerTypes, UnsignedTypes, Floats, Timestamps, Times, Datetimes, Texts
<1>1. Bytes(field) \in {4, 8}  BY DEF Bytes
<1>2. CASE v = Null
  <2>1. Half * Base ^ (Bytes(field) - 1) \in Nat \ {0}
    <3>1. Bytes(field) \in 1 .. 8  BY <1>1
    <3> QED  BY <3>1, SignedRangeFacts
  <2> DEFINE h == Half * Base ^ (Bytes(field) - 1)
  <2> HIDE DEF h
  <2>2. 0 \in 0 .. h - 1  BY <2>1 DEF h
  <2> QED  BY <1>1, <1>2, <2>2 DEF FloatOf, FloatRange, h
<1>3. CASE v # Null
  <2>1. v \in SqlValues(field)  BY <1>3, SampleFacts
  <2> QED  BY <1>1, <1>3, <2>1 DEF SqlValues, FloatOf, FloatRange
<1> QED  BY <1>2, <1>3

\* A FLOAT moves up by four bytes, its order and its value stay.
LEMMA FloatStored ==
    ASSUME Column, field.type \in Floats, NEW v \in Samples(field)
    PROVE  /\ Stored(v) = Widened(field, FloatOf(v))
           /\ DOMAIN Stored(v) = {"neg", "mag"}
           /\ Stored(v).neg = FloatOf(v).neg
           /\ Stored(v).mag = FloatOf(v).mag * (IF field.type = "FLOAT" THEN Base ^ 4 ELSE 1)
           /\ FloatOf(v).mag \in Nat
           /\ Read(v) = FloatOf(v)
<1> USE DEF IntegerTypes, UnsignedTypes, Floats, Timestamps, Times, Datetimes, Texts
<1> DEFINE x == FloatOf(v)  p == Base ^ 4
<1>1. Stored(v) = Widened(field, x)
  BY DEF Stored, SkipsNull, generic_store_bulk, generic_store_bulk_float, Sound, Bulk, FloatOf
<1>2. x \in [neg : BOOLEAN, mag : Nat]
  <2>1. x \in FloatRange(Bytes(field))  BY FloatValue
  <2> HIDE DEF x
  <2> QED  BY <2>1 DEF FloatRange
<1>3. p \in Nat \ {0}  BY PowerNat
<1> HIDE DEF x, p
<1>4. CASE field.type = "FLOAT"
  <2>1. Stored(v) = [neg |-> x.neg, mag |-> x.mag * p]
    BY <1>1, <1>2, <1>4 DEF Widened, p
  <2>2. Read(v) = [neg |-> x.neg, mag |-> (x.mag * p) \div p]
    BY <1>4, <2>1 DEF Read, storage_store_field, storage_store_field_float, p
  <2>3. (x.mag * p) \div p = x.mag
    <3> DEFINE m == x.mag
    <3>1. m \in Int /\ 0 \in 0 .. p - 1  BY <1>2, <1>3
    <3> HIDE DEF m
    <3>2. (p * m + 0) \div p = m  BY <1>3, <3>1, DivUnique
    <3>3. p * m + 0 = m * p  BY <1>3, <3>1
    <3> QED  BY <3>2, <3>3 DEF m
  <2>4. Read(v) = x  BY <1>2, <2>2, <2>3
  <2> QED  BY <1>1, <1>2, <1>4, <2>1, <2>4 DEF x, p
<1>5. CASE field.type = "DOUBLE"
  <2>1. Stored(v) = x  BY <1>1, <1>5 DEF Widened
  <2>2. Read(v) = x  BY <1>5, <2>1 DEF Read, storage_store_field, storage_store_field_float
  <2>3. x.mag * 1 = x.mag  BY <1>2
  <2>4. DOMAIN x = {"neg", "mag"}  BY <1>2
  <2> QED  BY <1>1, <1>2, <1>5, <2>1, <2>2, <2>3, <2>4 DEF x
<1> QED  BY <1>4, <1>5

\* A lookup finds the floats that read as the value looked up, and no others.
LEMMA FloatLookUp ==
    ASSUME Column, field.type \in Floats, NEW v \in Samples(field), NEW u \in Samples(field),
           u # Null
    PROVE  Stored(v) = storage_encode_key(field, u) <=> Read(v) = u
<1> USE DEF IntegerTypes, UnsignedTypes, Floats, Timestamps, Times, Datetimes, Texts
<1>1. FloatOf(u) = u  BY DEF FloatOf
<1>2. storage_encode_key(field, u) = Stored(u) /\ Read(u) = u
  BY <1>1, FloatStored DEF storage_encode_key, storage_encode_key_float
<1>3. Stored(v) = Stored(u) => Read(v) = Read(u)  BY DEF Read
<1>4. Read(v) = Read(u) => Stored(v) = Stored(u)
  <2>1. Stored(v) = Widened(field, Read(v)) /\ Stored(u) = Widened(field, Read(u))
    BY FloatStored
  <2> QED  BY <2>1
<1> QED  BY <1>2, <1>3, <1>4

\* A factor keeps the order.
LEMMA FactorOrder ==
    ASSUME NEW x \in Int, NEW y \in Int, NEW p \in Nat \ {0}
    PROVE  x * p < y * p <=> x < y
<1>0. x * p = p * x /\ y * p = p * y /\ p * x \in Int /\ p * y \in Int  OBVIOUS
<1>1. CASE x < y
  <2>1. p * (x + 1) <= p * y  BY <1>1, MulMono
  <2>2. p * (x + 1) = p * x + p  OBVIOUS
  <2> QED  BY <1>0, <1>1, <2>1, <2>2
<1>2. CASE ~(x < y)
  <2>1. p * y <= p * x  BY <1>2, MulMono
  <2> QED  BY <1>0, <1>2, <2>1
<1> QED  BY <1>1, <1>2

\* The same for sign and magnitude.
LEMMA SignedOrder ==
    ASSUME NEW a \in Nat, NEW b \in Nat, NEW p \in Nat \ {0}, NEW s, NEW t
    PROVE  Signed(s, a * p) < Signed(t, b * p) <=> Signed(s, a) < Signed(t, b)
<1> DEFINE x == Signed(s, a)  y == Signed(t, b)
<1>1. x \in Int /\ y \in Int  BY DEF Signed
<1>2. Signed(s, a * p) = x * p /\ Signed(t, b * p) = y * p  BY DEF Signed
<1> HIDE DEF x, y
<1>3. x * p < y * p <=> x < y  BY <1>1, FactorOrder
<1> QED  BY <1>2, <1>3 DEF x, y

\* All but texts are ordered by rank.
LEMMA RankLess ==
    ASSUME field.type \notin Texts, NEW v, NEW w
    PROVE  SqlLess(field, v, w) <=> SqlRank(field, v) < SqlRank(field, w)
BY DEF SqlLess, Texts

\* The server orders floats by sign and magnitude.
LEMMA FloatLess ==
    ASSUME field.type \in Floats, NEW v, NEW w
    PROVE  SqlLess(field, v, w) <=> Signed(v.neg, v.mag) < Signed(w.neg, w.mag)
<1>1. ASSUME NEW u PROVE SqlRank(field, u) = Signed(u.neg, u.mag)
  BY DEF SqlRank, Floats, Timestamps, Times, Dated, Datetimes
<1>2. SqlRank(field, v) = Signed(v.neg, v.mag) /\ SqlRank(field, w) = Signed(w.neg, w.mag)
  BY <1>1
<1>3. field.type \notin Texts  BY DEF Floats, Texts
<1> QED  BY <1>2, <1>3, RankLess

\* Groonga orders the stored floats as the server does.
LEMMA FloatKeyOrder ==
    ASSUME Column, field.type \in Floats, NEW v \in Samples(field), NEW w \in Samples(field)
    PROVE  GrnLess(field, Stored(v), Stored(w)) <=> SqlLess(field, Read(v), Read(w))
<1> USE DEF IntegerTypes, UnsignedTypes, Floats, Timestamps, Times, Datetimes, Texts
<1> DEFINE p == IF field.type = "FLOAT" THEN Base ^ 4 ELSE 1
           x == FloatOf(v)  y == FloatOf(w)
<1>1. p \in Nat \ {0}
  <2>1. Base ^ 4 \in Nat \ {0}  BY PowerNat
  <2> QED  BY <2>1
<1>2. GrnLess(field, Stored(v), Stored(w)) <=>
          Signed(Stored(v).neg, Stored(v).mag) < Signed(Stored(w).neg, Stored(w).mag)
  BY DEF GrnLess, mrn_grn_type_from_field
<1>3. SqlLess(field, Read(v), Read(w)) <=>
          Signed(Read(v).neg, Read(v).mag) < Signed(Read(w).neg, Read(w).mag)
  BY FloatLess
<1>4. /\ Stored(v).neg = x.neg /\ Stored(v).mag = x.mag * p /\ x.mag \in Nat /\ Read(v) = x
      /\ Stored(w).neg = y.neg /\ Stored(w).mag = y.mag * p /\ y.mag \in Nat /\ Read(w) = y
  BY FloatStored
<1> HIDE DEF p, x, y
<1> DEFINE a == x.mag  b == y.mag
<1>5. a \in Nat /\ b \in Nat  BY <1>4
<1> HIDE DEF a, b
<1>6. Signed(x.neg, a * p) < Signed(y.neg, b * p) <=> Signed(x.neg, a) < Signed(y.neg, b)
  BY <1>1, <1>5, SignedOrder
<1> QED  BY <1>2, <1>3, <1>4, <1>6 DEF a, b

\* The codec keeps the order of floats.
LEMMA FloatCodec ==
    ASSUME Column, field.type \in Floats, NEW v \in Samples(field), NEW w \in Samples(field),
           v # Null, w # Null
    PROVE  ByteLess(Encoded(v), Encoded(w)) <=> SqlLess(field, v, w)
<1> USE DEF IntegerTypes, UnsignedTypes, Floats, Timestamps, Times, Datetimes, Texts
<1> DEFINE n == Bytes(field)  part == KeyPart(field)
           pre == IF field.nullable THEN <<0>> ELSE <<>>
<1>0. n \in 1 .. 8 /\ n \in 0 .. 8  BY DEF Bytes
<1>1. part.type = field.type /\ part.size = n /\ part.nullable = field.nullable
  BY DEF KeyPart, get_key_info, Bytes
<1>2. KeyImage(field, v) = v /\ KeyImage(field, w) = w  BY DEF KeyImage
<1> HIDE DEF part
<1>3. Encoded(v) = pre \o encode_float(v, n) /\ Encoded(w) = pre \o encode_float(w, n)
  BY <1>1, <1>2, EncodedIs DEF EncodePart, part
<1>4. v \in FloatRange(n) /\ w \in FloatRange(n)  BY FloatValue DEF FloatOf
<1> HIDE DEF n
<1>5. ByteLess(encode_float(v, n), encode_float(w, n)) <=> FloatRank(v) < FloatRank(w)
  BY <1>0, <1>4, FloatOrder
<1>6. ASSUME NEW x \in FloatRange(n) PROVE encode_float(x, n) \in Seq(Int)
  <2>1. x.mag \in Int  BY <1>6 DEF FloatRange
  <2>2. encode_float(x, n) = IF x.neg THEN FlipAll(FlipTop(NetworkBytes(x.mag, n)))
                                      ELSE FlipTop(NetworkBytes(x.mag, n))
    BY DEF encode_float, NetworkBytes
  <2> QED  BY <1>0, <2>1, <2>2, FlippedBytes
<1>7. encode_float(v, n) \in Seq(Int) /\ encode_float(w, n) \in Seq(Int)  BY <1>4, <1>6
<1>8. SqlLess(field, v, w) <=> FloatRank(v) < FloatRank(w)
  <2>1. Signed(v.neg, v.mag) = FloatRank(v) /\ Signed(w.neg, w.mag) = FloatRank(w)
    BY DEF Signed, FloatRank
  <2> QED  BY <2>1, FloatLess
<1>9. field.nullable \in BOOLEAN  BY FieldFacts DEF IsField
<1>10. ByteLess(pre \o encode_float(v, n), pre \o encode_float(w, n))
           <=> ByteLess(encode_float(v, n), encode_float(w, n))
  BY <1>7, <1>9, NullableOrder
<1> HIDE DEF pre
<1> QED  BY <1>3, <1>5, <1>8, <1>10

-----------------------------------------------------------------------------
(* Times. *)

TimeTypes == Timestamps \cup Times \cup Datetimes \cup {"NEWDATE", "YEAR"}

\* Groonga orders its Times as numbers.
LEMMA TimeLess ==
    ASSUME field.type \in TimeTypes, NEW g, NEW h
    PROVE  mrn_grn_type_from_field(field).base = "Time" /\ (GrnLess(field, g, h) <=> g < h)
BY DEF GrnLess, mrn_grn_type_from_field, TimeTypes, IntegerTypes, UnsignedTypes, Floats,
       Timestamps, Times, Datetimes

\* A Groonga time is an integer.
LEMMA PackInt ==
    ASSUME NEW s \in Int, NEW u \in Int
    PROVE  GRN_TIME_PACK(s, u) \in Int
BY ClockFacts DEF GRN_TIME_PACK

\* Seconds count before fractions.
LEMMA PackOrder ==
    ASSUME NEW s \in Int, NEW t \in Int
    PROVE  GRN_TIME_PACK(s, 0) < GRN_TIME_PACK(t, 0) <=> s < t
<1> DEFINE p == UsecPerSec
<1>1. p \in Nat \ {0}  BY ClockFacts
<1>2. GRN_TIME_PACK(s, 0) = s * p /\ GRN_TIME_PACK(t, 0) = t * p  BY <1>1 DEF GRN_TIME_PACK
<1> HIDE DEF p
<1> QED  BY <1>1, <1>2, FactorOrder

\* A fraction of a second is less than a second.
LEMMA UsecFacts ==
    ASSUME NEW type
    PROVE  Usecs(type) \subseteq 0 .. UsecPerSec - 1 /\ 0 \in 0 .. UsecPerSec - 1
BY ClockFacts DEF Usecs

-----------------------------------------------------------------------------
(* TIMESTAMP. *)

TimestampOf(v) == IF v = Null THEN [sec |-> 0, usec |-> 0] ELSE v

\* The value of a TIMESTAMP is a number of seconds from the epoch on and a
\* fraction.
LEMMA TimestampValue ==
    ASSUME Column, field.type \in Timestamps, NEW v \in Samples(field)
    PROVE  /\ TimestampOf(v) \in [sec : 0 .. Base ^ 8 - 1, usec : 0 .. UsecPerSec - 1]
           /\ TimestampOf(v).sec \in Nat
           /\ field.type = "TIMESTAMP" => TimestampOf(v).usec = 0
<1> USE DEF IntegerTypes, UnsignedTypes, Floats, Timestamps, Times, Datetimes, Texts
<1>1. Base ^ 8 \in Nat \ {0}  BY PowerNat
<1>2. CASE v = Null
  <2>1. 0 \in 0 .. Base ^ 8 - 1  BY <1>1
  <2> QED  BY <1>2, <2>1, UsecFacts DEF TimestampOf
<1>3. CASE v # Null
  <2>1. v \in SqlValues(field)  BY <1>3, SampleFacts
  <2>2. v \in [sec : 0 .. Base ^ 8 - 1, usec : Usecs(field.type)]  BY <2>1 DEF SqlValues
  <2>3. field.type = "TIMESTAMP" => v.usec = 0  BY <2>2 DEF Usecs
  <2>4. v.usec \in 0 .. UsecPerSec - 1  BY <2>2, UsecFacts
  <2>5. v.sec \in 0 .. Base ^ 8 - 1 /\ v = [sec |-> v.sec, usec |-> v.usec]  BY <2>2
  <2>6. v.sec \in Nat  BY <1>1, <2>5
  <2> QED  BY <1>3, <2>3, <2>4, <2>5, <2>6 DEF TimestampOf
<1> QED  BY <1>2, <1>3

\* A TIMESTAMP is stored as a Groonga time and reads as what was written.
LEMMA TimestampStored ==
    ASSUME Column, field.type \in Timestamps, NEW v \in Samples(field)
    PROVE  /\ Stored(v) = GRN_TIME_PACK(TimestampOf(v).sec, TimestampOf(v).usec)
           /\ Stored(v) \in Int
           /\ Read(v) = TimestampOf(v)
<1> USE DEF IntegerTypes, UnsignedTypes, Floats, Timestamps, Times, Datetimes, Texts
<1> DEFINE s == TimestampOf(v).sec  u == TimestampOf(v).usec
<1>1. s \in Nat /\ u \in 0 .. UsecPerSec - 1 /\ TimestampOf(v) = [sec |-> s, usec |-> u]
  BY TimestampValue
<1>2. Stored(v) = GRN_TIME_PACK(s, u)
  <2>1. CASE v = Null
    <3>1. Stored(v) = 0
      BY <2>1 DEF Stored, SkipsNull, generic_store_bulk, generic_store_bulk_timestamp, Sound, Bulk
    <3>2. GRN_TIME_PACK(0, 0) = 0  BY ClockFacts DEF GRN_TIME_PACK
    <3> QED  BY <2>1, <3>1, <3>2 DEF TimestampOf
  <2>2. CASE v # Null
    BY <2>2 DEF Stored, SkipsNull, generic_store_bulk, generic_store_bulk_timestamp, Sound, Bulk,
                ConvertTimestamp, TimestampOf
  <2> QED  BY <2>1, <2>2
<1>3. Read(v) = GRN_TIME_UNPACK(Stored(v))
  BY DEF Read, storage_store_field, storage_store_field_timestamp
<1> HIDE DEF s, u
<1>4. s \in Int /\ s >= 0 /\ u \in Int  BY <1>1
<1>5. GRN_TIME_UNPACK(GRN_TIME_PACK(s, u)) = [sec |-> s, usec |-> u]  BY <1>1, <1>4, UnpackPack
<1>6. Stored(v) \in Int  BY <1>2, <1>4, PackInt
<1> QED  BY <1>1, <1>2, <1>3, <1>5, <1>6 DEF s, u

\* A broken-down time is read as it was, if the time zone does not skip it.
LEMMA MysqlTimeOfTm ==
    ASSUME Column, NEW tm, IsTm(tm), ~InGap(zone, Clock(tm)), NEW u
    PROVE  mysql_time_to_grn_time(zone,
               MysqlTime("DATETIME", FALSE, tm.year + TM_YEAR_BASE, tm.mon + 1, tm.mday,
                         tm.hour, tm.sec, u)).time = GRN_TIME_PACK(Clock(tm), u)
<1> DEFINE t == MysqlTime("DATETIME", FALSE, tm.year + TM_YEAR_BASE, tm.mon + 1, tm.mday,
                          tm.hour, tm.sec, u)
<1>1. /\ tm.year \in Int /\ tm.mon \in 0 .. 11 /\ tm.mday \in 1 .. 30
      /\ tm = Tm(tm.year, tm.mon, tm.mday, tm.hour, tm.sec)
  BY DEF IsTm, Tm
<1>2. /\ (tm.year + TM_YEAR_BASE) - TM_YEAR_BASE = tm.year /\ tm.mon + 1 > 0
      /\ (tm.mon + 1) - 1 = tm.mon /\ tm.mday > 0
  BY <1>1 DEF TM_YEAR_BASE
<1>3. CorrectedTm(t) = tm
  <2>1. /\ t.year = tm.year + TM_YEAR_BASE /\ t.month = tm.mon + 1 /\ t.day = tm.mday
        /\ t.hour = tm.hour /\ t.second = tm.sec /\ t.type = "DATETIME"
    BY DEF MysqlTime
  <2> HIDE DEF t
  <2>2. CorrectedTm(t) = Tm(tm.year, tm.mon, tm.mday, tm.hour, tm.sec)
    BY <1>2, <2>1 DEF CorrectedTm
  <2> QED  BY <1>1, <2>2
<1>4. t.usec = u /\ t.type = "DATETIME"  BY DEF MysqlTime
<1> HIDE DEF t
<1>5. mysql_time_to_grn_time(zone, t).time = tm_to_grn_time(zone, tm, u)
  BY <1>3, <1>4 DEF mysql_time_to_grn_time
<1>6. IsZone(zone)  BY FieldFacts
<1>7. tm_to_time_gm(zone, tm) = Clock(tm)  BY <1>6, TmToTimeGm
<1> QED  BY <1>5, <1>7 DEF tm_to_grn_time, t

\* A lookup finds the timestamps that read as the value looked up, and no
\* others.
LEMMA TimestampLookUp ==
    ASSUME Column, field.type \in Timestamps, NEW v \in Samples(field), NEW u \in Samples(field),
           u # Null, ~LookupDiffers(field, u)
    PROVE  Stored(v) = storage_encode_key(field, u) <=> Read(v) = u
<1> USE DEF IntegerTypes, UnsignedTypes, Floats, Timestamps, Times, Datetimes, Texts
<1>1. TimestampOf(u) = u  BY DEF TimestampOf
<1>2. Stored(u) = GRN_TIME_PACK(u.sec, u.usec) /\ Read(u) = u  BY <1>1, TimestampStored
<1>3. u.sec \in Int  BY <1>1, TimestampValue
<1>4. ~InGap(zone, u.sec)  BY DEF LookupDiffers, Skipped
<1> DEFINE tm == gmtime(u.sec)
<1>5. IsTm(tm) /\ Clock(tm) = u.sec  BY <1>3, ClockGmtime
<1>6. storage_encode_key(field, u) =
        mysql_time_to_grn_time(zone,
            MysqlTime("DATETIME", FALSE, tm.year + TM_YEAR_BASE, tm.mon + 1, tm.mday,
                      tm.hour, tm.sec, u.usec)).time
  BY DEF storage_encode_key, storage_encode_key_timestamp, storage_encode_key_timestamp2
<1> HIDE DEF tm
<1>7. storage_encode_key(field, u) = GRN_TIME_PACK(u.sec, u.usec)
  BY <1>4, <1>5, <1>6, MysqlTimeOfTm
<1>8. Stored(v) = Stored(u) => Read(v) = Read(u)  BY DEF Read
<1>9. Read(v) = u => Stored(v) = Stored(u)  BY <1>1, TimestampStored
<1> QED  BY <1>2, <1>7, <1>8, <1>9

\* Groonga orders the stored timestamps as the server does.
LEMMA TimestampKeyOrder ==
    ASSUME Column, field.type \in Timestamps, NEW v \in Samples(field), NEW w \in Samples(field)
    PROVE  GrnLess(field, Stored(v), Stored(w)) <=> SqlLess(field, Read(v), Read(w))
<1>1. ASSUME NEW x \in Samples(field) PROVE SqlRank(field, Read(x)) = Stored(x)
  <2>1. SqlRank(field, Read(x)) = GRN_TIME_PACK(Read(x).sec, Read(x).usec)
    BY DEF SqlRank, Floats, Timestamps, Times, Datetimes, Dated
  <2> QED  BY <1>1, <2>1, TimestampStored
<1>2. field.type \notin Texts /\ field.type \in TimeTypes  BY DEF Timestamps, Texts, TimeTypes
<1> QED  BY <1>1, <1>2, RankLess, TimeLess

\* The codec keeps the order of TIMESTAMP columns.
LEMMA TimestampCodec ==
    ASSUME Column, field.type = "TIMESTAMP", NEW v \in Samples(field), NEW w \in Samples(field),
           v # Null, w # Null
    PROVE  ByteLess(Encoded(v), Encoded(w)) <=> SqlLess(field, v, w)
<1> USE DEF IntegerTypes, UnsignedTypes, Floats, Timestamps, Times, Datetimes, Texts
<1>1. /\ TimestampOf(v) = v /\ TimestampOf(w) = w
      /\ v.sec \in 0 .. Base ^ 8 - 1 /\ w.sec \in 0 .. Base ^ 8 - 1
      /\ v.sec \in Int /\ w.sec \in Int /\ v.usec = 0 /\ w.usec = 0
  <2>1. TimestampOf(v) = v /\ TimestampOf(w) = w  BY DEF TimestampOf
  <2> QED  BY <2>1, TimestampValue
<1>2. SqlRank(field, v) = GRN_TIME_PACK(v.sec, 0) /\ SqlRank(field, w) = GRN_TIME_PACK(w.sec, 0)
  BY <1>1 DEF SqlRank, Dated
<1>3. SqlLess(field, v, w) <=> v.sec < w.sec
  <2>1. GRN_TIME_PACK(v.sec, 0) < GRN_TIME_PACK(w.sec, 0) <=> v.sec < w.sec  BY <1>1, PackOrder
  <2> QED  BY <1>2, <2>1, RankLess
<1>4. KeyImage(field, v) = v.sec /\ KeyImage(field, w) = w.sec  BY DEF KeyImage
<1>5. KeyPart(field).type = "BYTE_REVERSE"  BY DEF KeyPart, get_key_info
<1>6. KeyPart(field).size = 8 /\ KeyPart(field).nullable = field.nullable
  BY DEF KeyPart, get_key_info
<1>7. v.sec # Null /\ w.sec # Null  BY <1>1, NullAssumption
<1> QED  BY <1>1, <1>3, <1>4, <1>5, <1>6, <1>7, ReverseCodec

-----------------------------------------------------------------------------
(* TIME. *)

TimeOf(v) == IF v = Null THEN MysqlTime("TIME", FALSE, 0, 0, 0, 0, 0, 0) ELSE v
TimeSeconds(t) == t.hour * SecPerHour + t.second

\* The value of a TIME is a sign, hours, seconds and a fraction.
LEMMA TimeValue ==
    ASSUME Column, field.type \in Times, NEW v \in Samples(field)
    PROVE  /\ TimeOf(v) = MysqlTime("TIME", TimeOf(v).neg, 0, 0, 0, TimeOf(v).hour,
                                    TimeOf(v).second, TimeOf(v).usec)
           /\ TimeOf(v).type = "TIME" /\ TimeOf(v).neg \in BOOLEAN
           /\ TimeOf(v).hour \in Nat /\ TimeOf(v).second \in 0 .. SecPerHour - 1
           /\ TimeOf(v).usec \in 0 .. UsecPerSec - 1
           /\ TimeOf(v).neg =>
                  TimeOf(v).hour # 0 \/ TimeOf(v).second # 0 \/ TimeOf(v).usec # 0
           /\ field.type = "TIME" => TimeOf(v).usec = 0
           /\ TimeSeconds(TimeOf(v)) \in Nat
           /\ TimeOf(v).hour # 0 \/ TimeOf(v).second # 0 => TimeSeconds(TimeOf(v)) > 0
<1> USE DEF IntegerTypes, UnsignedTypes, Floats, Timestamps, Times, Datetimes, Texts
<1> DEFINE t == TimeOf(v)
<1>1. /\ t = MysqlTime("TIME", t.neg, 0, 0, 0, t.hour, t.second, t.usec)
      /\ t.type = "TIME" /\ t.neg \in BOOLEAN
      /\ t.hour \in 0 .. 838 /\ t.second \in 0 .. SecPerHour - 1
      /\ t.usec \in 0 .. UsecPerSec - 1
      /\ t.neg => t.hour # 0 \/ t.second # 0 \/ t.usec # 0
      /\ field.type = "TIME" => t.usec = 0
  <2>1. CASE v = Null
    <3>1. t = MysqlTime("TIME", FALSE, 0, 0, 0, 0, 0, 0)  BY <2>1 DEF TimeOf
    <3>2. 0 \in 0 .. SecPerHour - 1 /\ 0 \in 0 .. UsecPerSec - 1  BY ClockFacts
    <3> HIDE DEF t
    <3> QED  BY <3>1, <3>2 DEF MysqlTime
  <2>2. CASE v # Null
    <3>1. v \in SqlValues(field)  BY <2>2, SampleFacts
    <3>2. t = v  BY <2>2 DEF TimeOf
    <3> HIDE DEF t
    <3>3. /\ t \in MysqlTimes("TIME", BOOLEAN, {0}, {0}, {0}, 0 .. 838, 0 .. SecPerHour - 1,
                              Usecs(field.type))
          /\ t.neg => t.hour # 0 \/ t.second # 0 \/ t.usec # 0
      BY <3>1, <3>2 DEF SqlValues
    <3>4. t \in [type : {"TIME"}, neg : BOOLEAN, year : {0}, month : {0}, day : {0},
                 hour : 0 .. 838, second : 0 .. SecPerHour - 1, usec : Usecs(field.type)]
      BY <3>3 DEF MysqlTimes
    <3>5. t.usec \in Usecs(field.type)  BY <3>4
    <3>6. t.usec \in 0 .. UsecPerSec - 1  BY <3>5, UsecFacts
    <3>7. field.type = "TIME" => t.usec = 0  BY <3>5 DEF Usecs
    <3>8. t = [type |-> t.type, neg |-> t.neg, year |-> t.year, month |-> t.month, day |-> t.day,
               hour |-> t.hour, second |-> t.second, usec |-> t.usec]
      BY <3>4
    <3>9. t.type = "TIME" /\ t.year = 0 /\ t.month = 0 /\ t.day = 0 /\ t.neg \in BOOLEAN
          /\ t.hour \in 0 .. 838 /\ t.second \in 0 .. SecPerHour - 1
      BY <3>4
    <3>10. t = MysqlTime("TIME", t.neg, 0, 0, 0, t.hour, t.second, t.usec)
      BY <3>8, <3>9 DEF MysqlTime
    <3> QED  BY <3>3, <3>6, <3>7, <3>9, <3>10
  <2> QED  BY <2>1, <2>2
<1> HIDE DEF t
<1> DEFINE h == t.hour  r == t.second  p == SecPerHour
<1>2. h \in Nat /\ r \in 0 .. p - 1 /\ p \in Nat \ {0}  BY <1>1, ClockFacts
<1>3. TimeSeconds(t) = h * p + r  BY DEF TimeSeconds
<1> HIDE DEF h, r, p
<1>4. h * p \in Nat /\ (h # 0 => h * p > 0)
  <2>1. h * p \in Nat  BY <1>2
  <2>2. CASE h # 0
    <3>1. p * 1 <= p * h  BY <1>2, <2>2, MulMono
    <3>2. p * 1 = p /\ p * h = h * p  BY <1>2
    <3> QED  BY <1>2, <3>1, <3>2, <2>1
  <2> QED  BY <2>1, <2>2
<1>5. TimeSeconds(t) \in Nat /\ (h # 0 \/ r # 0 => TimeSeconds(t) > 0)  BY <1>2, <1>3, <1>4
<1> QED  BY <1>1, <1>2, <1>5 DEF t, h, r

\* The converter keeps a TIME as a number of fractions, negative or not.
LEMMA TimeStored ==
    ASSUME Column, field.type \in Times, NEW v \in Samples(field)
    PROVE  /\ Stored(v) = Signed(TimeOf(v).neg, GRN_TIME_PACK(TimeSeconds(TimeOf(v)), TimeOf(v).usec))
           /\ Stored(v) \in Int
<1> USE DEF IntegerTypes, UnsignedTypes, Floats, Timestamps, Times, Datetimes, Texts
<1> DEFINE t == TimeOf(v)
<1>1. Stored(v) = Signed(t.neg, GRN_TIME_PACK(TimeSeconds(t), t.usec))
  <2>1. CASE v = Null
    <3>1. Stored(v) = 0
      BY <2>1 DEF Stored, SkipsNull, generic_store_bulk, StoreBulkMysqlTime, Sound, Bulk
    <3>2. t.neg = FALSE /\ t.hour = 0 /\ t.second = 0 /\ t.usec = 0
      BY <2>1 DEF TimeOf, MysqlTime
    <3> HIDE DEF t
    <3>3. TimeSeconds(t) = 0  BY <3>2, ClockFacts DEF TimeSeconds
    <3>4. GRN_TIME_PACK(0, 0) = 0  BY ClockFacts DEF GRN_TIME_PACK
    <3> QED  BY <3>1, <3>2, <3>3, <3>4 DEF Signed
  <2>2. CASE v # Null
    <3>1. Stored(v) = mysql_time_to_grn_time(zone, v).time
      BY <2>2 DEF Stored, SkipsNull, generic_store_bulk, StoreBulkMysqlTime, Bulk
    <3>2. t = v  BY <2>2 DEF TimeOf
    <3>3. t.type = "TIME"  BY TimeValue
    <3> HIDE DEF t
    <3> QED  BY <3>1, <3>2, <3>3 DEF mysql_time_to_grn_time, TimeSeconds, Signed
  <2> QED  BY <2>1, <2>2
<1>2. TimeSeconds(t) \in Int /\ t.usec \in Int  BY TimeValue
<1>3. GRN_TIME_PACK(TimeSeconds(t), t.usec) \in Int  BY <1>2, PackInt
<1>4. Stored(v) \in Int
  <2> HIDE DEF t
  <2> QED  BY <1>1, <1>3 DEF Signed
<1> QED  BY <1>1, <1>4

\* A TIME reads as what was written, unless it is negative and has a fraction.
LEMMA TimeRead ==
    ASSUME Column, field.type \in Times, NEW v \in Samples(field)
    PROVE  IF NegativeFraction(field, v) THEN Read(v).usec < 0 ELSE Read(v) = TimeOf(v)
<1> USE DEF IntegerTypes, UnsignedTypes, Floats, Timestamps, Times, Datetimes, Texts
<1> DEFINE t == TimeOf(v)  s == TimeSeconds(t)  u == t.usec  x == GRN_TIME_UNPACK(Stored(v))
           q == IF x.sec < 0 THEN -x.sec ELSE x.sec
<1>1. Read(v) = MysqlTime("TIME", x.sec < 0, 0, 0, 0, q \div SecPerHour, q % SecPerHour, x.usec)
  BY DEF Read, storage_store_field, storage_store_field_time, grn_time_to_mysql_time
<1>2. /\ t = MysqlTime("TIME", t.neg, 0, 0, 0, t.hour, t.second, u)
      /\ t.neg \in BOOLEAN /\ t.hour \in Nat /\ t.second \in 0 .. SecPerHour - 1
      /\ u \in 0 .. UsecPerSec - 1 /\ (t.neg => t.hour # 0 \/ t.second # 0 \/ u # 0)
      /\ (field.type = "TIME" => u = 0) /\ s \in Nat
      /\ (t.hour # 0 \/ t.second # 0 => s > 0)
  BY TimeValue
<1>3. Stored(v) = Signed(t.neg, GRN_TIME_PACK(s, u))  BY TimeStored
<1>4. NegativeFraction(field, v) <=> t.neg /\ u # 0
  BY <1>2 DEF NegativeFraction, TimeOf, MysqlTime
<1>5. s \div SecPerHour = t.hour /\ s % SecPerHour = t.second
  <2> DEFINE h == t.hour  r == t.second  p == SecPerHour
  <2>1. h \in Int /\ r \in 0 .. p - 1 /\ p \in Nat \ {0}  BY <1>2, ClockFacts
  <2>2. s = h * p + r  BY DEF TimeSeconds
  <2> HIDE DEF h, r, p, s
  <2>3. s = p * h + r  BY <2>1, <2>2
  <2>4. s \div p = h /\ s % p = r  BY <2>1, <2>3, DivUnique
  <2> QED  BY <2>4 DEF h, r, p
<1> HIDE DEF t, s, u
<1>6. CASE t.neg /\ u # 0
  <2>1. Stored(v) = -GRN_TIME_PACK(s, u)  BY <1>3, <1>6 DEF Signed
  <2>2. u \in 1 .. UsecPerSec - 1  BY <1>2, <1>6
  <2>3. x = [sec |-> -s, usec |-> -u]  BY <1>2, <2>1, <2>2, UnpackNegative
  <2>4. x.usec < 0  BY <2>2, <2>3
  <2> HIDE DEF x, q
  <2>5. Read(v).usec = x.usec  BY <1>1 DEF MysqlTime
  <2> QED  BY <1>4, <1>6, <2>4, <2>5
<1>7. CASE t.neg /\ u = 0
  <2>1. GRN_TIME_PACK(s, 0) \in Int /\ -s \in Int /\ s > 0 /\ s \in Int  BY <1>2, <1>7, PackInt
  <2>2. Stored(v) = GRN_TIME_PACK(-s, 0)
    <3>1. -GRN_TIME_PACK(s, 0) = GRN_TIME_PACK(-s, 0)  BY <1>2, ClockFacts DEF GRN_TIME_PACK
    <3> QED  BY <1>3, <1>7, <3>1 DEF Signed
  <2>3. x = [sec |-> -s, usec |-> 0]
    <3>1. 0 \in 0 .. UsecPerSec - 1  BY UsecFacts
    <3>2. GRN_TIME_UNPACK(GRN_TIME_PACK(-s, 0)) = [sec |-> -s, usec |-> 0]
      BY <2>1, <3>1, UnpackPack
    <3> QED  BY <2>2, <3>2
  <2>4. x.sec = -s /\ x.usec = 0 /\ x.sec < 0 /\ q = s  BY <2>1, <2>3
  <2> HIDE DEF x, q
  <2>5. Read(v) = MysqlTime("TIME", TRUE, 0, 0, 0, t.hour, t.second, 0)
    BY <1>1, <1>5, <2>4
  <2> QED  BY <1>2, <1>4, <1>7, <2>5 DEF t
<1>8. CASE ~t.neg
  <2>1. s \in Int /\ s >= 0 /\ u \in Int  BY <1>2
  <2>2. Stored(v) = GRN_TIME_PACK(s, u)  BY <1>3, <1>8 DEF Signed
  <2>3. x = [sec |-> s, usec |-> u]  BY <1>2, <2>1, <2>2, UnpackPack
  <2>4. x.sec = s /\ x.usec = u /\ ~(x.sec < 0) /\ q = s  BY <2>1, <2>3
  <2> HIDE DEF x, q
  <2>5. (x.sec < 0) = FALSE  BY <2>4
  <2>6. Read(v) = MysqlTime("TIME", FALSE, 0, 0, 0, t.hour, t.second, u)
    BY <1>1, <1>5, <2>4, <2>5
  <2> QED  BY <1>2, <1>4, <1>8, <2>6 DEF t
<1> QED  BY <1>2, <1>6, <1>7, <1>8

\* A lookup finds the TIMEs that read as the value looked up, and no others.
LEMMA TimeLookUp ==
    ASSUME Column, field.type \in Times, NEW v \in Samples(field), NEW u \in Samples(field),
           u # Null, ~LookupDiffers(field, u)
    PROVE  Stored(v) = storage_encode_key(field, u) <=> Read(v) = u
<1> USE DEF IntegerTypes, UnsignedTypes, Floats, Timestamps, Times, Datetimes, Texts
<1>1. TimeOf(u) = u /\ ~NegativeFraction(field, u)  BY DEF TimeOf, LookupDiffers
<1>2. Read(u) = u  BY <1>1, TimeRead
<1>3. /\ u = MysqlTime("TIME", u.neg, 0, 0, 0, u.hour, u.second, u.usec)
      /\ u.type = "TIME" /\ u.neg \in BOOLEAN /\ u.hour \in Nat
      /\ u.second \in 0 .. SecPerHour - 1 /\ u.usec \in 0 .. UsecPerSec - 1
      /\ u.neg => u.hour # 0 \/ u.second # 0 \/ u.usec # 0
      /\ field.type = "TIME" => u.usec = 0
  BY <1>1, TimeValue
<1>4. Stored(u) = mysql_time_to_grn_time(zone, u).time
  BY DEF Stored, SkipsNull, generic_store_bulk, StoreBulkMysqlTime, Bulk
<1>5. storage_encode_key(field, u) = Stored(u)
  <2>1. CASE field.type = "TIME2"
    BY <1>4, <2>1 DEF storage_encode_key, storage_encode_key_time2
  <2>2. CASE field.type = "TIME"
    <3> DEFINE h == u.hour  r == u.second  digits == h * 100 + r
               packed == IF u.neg THEN -digits ELSE digits
               p == IF packed < 0 THEN -packed ELSE packed
    <3>1. h \in Nat /\ r \in 0 .. 99 /\ u.neg \in BOOLEAN /\ (u.neg => h # 0 \/ r # 0)
      BY <1>3, <2>2, ClockFacts
    <3>2. storage_encode_key(field, u) =
            mysql_time_to_grn_time(zone,
                MysqlTime("TIME", packed < 0, 0, 0, 0, p \div 100, p % 100, 0)).time
      BY <2>2 DEF storage_encode_key, storage_encode_key_time
    <3> HIDE DEF h, r
    <3>3. (packed < 0) = u.neg
      <4>1. CASE u.neg
        <5>1. packed < 0  BY <3>1, <4>1
        <5> HIDE DEF packed
        <5> QED  BY <3>1, <4>1, <5>1
      <4>2. CASE ~u.neg
        <5>1. ~(packed < 0)  BY <3>1, <4>2
        <5> HIDE DEF packed
        <5> QED  BY <3>1, <4>2, <5>1
      <4> QED  BY <3>1, <4>1, <4>2
    <3>4. p = digits
      <4>1. CASE u.neg  BY <3>1, <4>1
      <4>2. CASE ~u.neg  BY <3>1, <4>2
      <4> QED  BY <4>1, <4>2
    <3>5. digits \div 100 = h /\ digits % 100 = r  BY <3>1
    <3> HIDE DEF digits, packed, p
    <3>6. MysqlTime("TIME", packed < 0, 0, 0, 0, p \div 100, p % 100, 0) = u
      BY <1>3, <2>2, <3>3, <3>4, <3>5 DEF h, r
    <3> QED  BY <1>4, <3>2, <3>6
  <2> QED  BY <2>1, <2>2
<1>6. Stored(v) = Stored(u) => Read(v) = Read(u)  BY DEF Read
<1>7. ASSUME Read(v) = u PROVE Stored(v) = Stored(u)
  <2>1. ~NegativeFraction(field, v)
    <3>1. ~(u.usec < 0)  BY <1>3
    <3> QED  BY <1>7, <3>1, TimeRead
  <2>2. TimeOf(v) = TimeOf(u)  BY <1>1, <1>7, <2>1, TimeRead
  <2> QED  BY <2>2, TimeStored
<1> QED  BY <1>2, <1>5, <1>6, <1>7

\* Groonga orders the stored TIMEs as the server does, negative fractions
\* apart.
LEMMA TimeKeyOrder ==
    ASSUME Column, field.type \in Times, NEW v \in Samples(field), NEW w \in Samples(field),
           ~NegativeFraction(field, v), ~NegativeFraction(field, w)
    PROVE  GrnLess(field, Stored(v), Stored(w)) <=> SqlLess(field, Read(v), Read(w))
<1>1. ASSUME NEW x \in Samples(field), ~NegativeFraction(field, x)
      PROVE  SqlRank(field, Read(x)) = Stored(x)
  <2>1. SqlRank(field, TimeOf(x)) =
            Signed(TimeOf(x).neg, GRN_TIME_PACK(TimeSeconds(TimeOf(x)), TimeOf(x).usec))
    BY DEF SqlRank, Floats, Timestamps, Times, Datetimes, Dated, TimeSeconds
  <2> QED  BY <1>1, <2>1, TimeStored, TimeRead
<1>2. field.type \notin Texts /\ field.type \in TimeTypes  BY DEF Times, Texts, TimeTypes
<1> QED  BY <1>1, <1>2, RankLess, TimeLess

-----------------------------------------------------------------------------
(* DATETIME and DATE. *)

DatedTypes == Datetimes \cup {"NEWDATE"}
DatedType == IF field.type = "NEWDATE" THEN "DATE" ELSE "DATETIME"
DatedOf(v) == IF v = Null THEN MysqlTime(DatedType, FALSE, 1970, 1, 1, 0, 0, 0) ELSE v

\* A date whose zero month or day has become 1.
Corrected(t) ==
    MysqlTime(DatedType, FALSE, t.year, IF t.month > 0 THEN t.month ELSE 1,
              IF t.day > 0 THEN t.day ELSE 1, t.hour, t.second, t.usec)

Years == 0 .. MaxYear
Months == 0 .. 12
Days == 0 .. 30
Hours == 0 .. 23
Seconds == 0 .. SecPerHour - 1
Fractions == 0 .. UsecPerSec - 1

\* The years of a column are within those of a broken-down time.
LEMMA YearFacts == MaxYear \in Nat /\ MaxYear >= 1970 /\ MaxYear < 10000
BY DEF MaxYear

IsDated(t) ==
    /\ t = MysqlTime(DatedType, FALSE, t.year, t.month, t.day, t.hour, t.second, t.usec)
    /\ t.type = DatedType
    /\ t.year \in Years /\ t.month \in Months /\ t.day \in Days
    /\ t.hour \in Hours /\ t.second \in Seconds /\ t.usec \in Fractions
    /\ field.type # "DATETIME2" => t.usec = 0
    /\ DatedType = "DATE" => t.hour = 0 /\ t.second = 0

\* The value of a DATE or a DATETIME has the parts of a date.
LEMMA DatedValue ==
    ASSUME Column, field.type \in DatedTypes, NEW v \in Samples(field)
    PROVE  IsDated(DatedOf(v))
<1> USE DEF IntegerTypes, UnsignedTypes, Floats, Timestamps, Times, Datetimes, Texts, DatedTypes
<1> DEFINE t == DatedOf(v)
<1>0. 0 \in Seconds /\ 0 \in Fractions  BY ClockFacts DEF Seconds, Fractions
<1>1. CASE v = Null
  <2>1. t = MysqlTime(DatedType, FALSE, 1970, 1, 1, 0, 0, 0)  BY <1>1 DEF DatedOf
  <2> HIDE DEF t
  <2>2. /\ t.type = DatedType /\ t.year = 1970 /\ t.month = 1 /\ t.day = 1 /\ t.hour = 0
        /\ t.second = 0 /\ t.usec = 0
    BY <2>1 DEF MysqlTime
  <2>3. 1970 \in Years /\ 1 \in Months /\ 1 \in Days /\ 0 \in Hours
    BY YearFacts DEF Years, Months, Days, Hours
  <2>4. t = MysqlTime(DatedType, FALSE, t.year, t.month, t.day, t.hour, t.second, t.usec)
    BY <2>1 DEF MysqlTime
  <2>5. /\ t.year \in Years /\ t.month \in Months /\ t.day \in Days
        /\ t.hour \in Hours /\ t.second \in Seconds /\ t.usec \in Fractions
    BY <1>0, <2>2, <2>3
  <2>6. IsDated(t)  BY <2>2, <2>4, <2>5 DEF IsDated
  <2> QED  BY <2>6 DEF t
<1>2. CASE v # Null
  <2>1. v \in SqlValues(field) /\ t = v  BY <1>2, SampleFacts DEF DatedOf
  <2> HIDE DEF t
  <2>2. Usecs(field.type) \subseteq Fractions /\ (field.type # "DATETIME2" => Usecs(field.type) = {0})
    BY UsecFacts DEF Usecs, Fractions
  <2>3. CASE field.type = "NEWDATE"
    <3>1. t \in MysqlTimes("DATE", {FALSE}, Years, Months, Days, {0}, {0}, {0})
      BY <2>1, <2>3 DEF SqlValues, Years, Months, Days
    <3>2. /\ t = MysqlTime(t.type, t.neg, t.year, t.month, t.day, t.hour, t.second, t.usec)
          /\ t.type = "DATE" /\ t.neg \in {FALSE} /\ t.year \in Years /\ t.month \in Months
          /\ t.day \in Days /\ t.hour \in {0} /\ t.second \in {0} /\ t.usec \in {0}
      BY <3>1 DEF MysqlTimes, MysqlTime
    <3>3. t.neg = FALSE /\ t.hour = 0 /\ t.second = 0 /\ t.usec = 0  BY <3>2
    <3>5. 0 \in Hours /\ DatedType = "DATE"  BY <2>3 DEF Hours, DatedType
    <3>4. IsDated(t)  BY <1>0, <3>2, <3>3, <3>5 DEF IsDated
    <3> QED  BY <3>4 DEF t
  <2>4. CASE field.type # "NEWDATE"
    <3>1. t \in MysqlTimes("DATETIME", {FALSE}, Years, Months, Days, Hours, Seconds,
                           Usecs(field.type))
      BY <2>1, <2>4 DEF SqlValues, Years, Months, Days, Hours, Seconds
    <3>2. /\ t = MysqlTime(t.type, t.neg, t.year, t.month, t.day, t.hour, t.second, t.usec)
          /\ t.type = "DATETIME" /\ t.neg \in {FALSE} /\ t.year \in Years /\ t.month \in Months
          /\ t.day \in Days /\ t.hour \in Hours /\ t.second \in Seconds
          /\ t.usec \in Usecs(field.type)
      BY <3>1 DEF MysqlTimes, MysqlTime
    <3>3. t.neg = FALSE /\ t.usec \in Fractions /\ (field.type # "DATETIME2" => t.usec = 0)
          /\ DatedType = "DATETIME"
      BY <2>2, <2>4, <3>2 DEF DatedType
    <3>4. IsDated(t)  BY <3>2, <3>3 DEF IsDated
    <3> QED  BY <3>4 DEF t
  <2> QED  BY <2>3, <2>4
<1> QED  BY <1>1, <1>2

\* The broken-down time of a date.
LEMMA DatedTm ==
    ASSUME NEW t, IsDated(t)
    PROVE  /\ IsTm(CorrectedTm(t))
           /\ CorrectedTm(t) = Tm(t.year - TM_YEAR_BASE, IF t.month > 0 THEN t.month - 1 ELSE 0,
                                  IF t.day > 0 THEN t.day ELSE 1, t.hour, t.second)
<1> DEFINE c == CorrectedTm(t)
<1>1. c = Tm(t.year - TM_YEAR_BASE, IF t.month > 0 THEN t.month - 1 ELSE 0,
             IF t.day > 0 THEN t.day ELSE 1, t.hour, t.second)
  BY DEF CorrectedTm, IsDated, DatedType
<1>2. t.year - TM_YEAR_BASE \in Int  BY YearFacts DEF IsDated, TM_YEAR_BASE, Years
<1>3. (IF t.month > 0 THEN t.month - 1 ELSE 0) \in 0 .. 11  BY DEF IsDated, Months
<1>4. (IF t.day > 0 THEN t.day ELSE 1) \in 1 .. 30  BY DEF IsDated, Days
<1>5. t.hour \in 0 .. 23 /\ t.second \in 0 .. SecPerHour - 1  BY DEF IsDated, Hours, Seconds
<1> HIDE DEF c
<1>6. IsTm(c)  BY <1>1, <1>2, <1>3, <1>4, <1>5 DEF IsTm, Tm
<1> QED  BY <1>1, <1>6 DEF c

\* Years from 1970 on are not before the epoch, and no others.
LEMMA ClockSign ==
    ASSUME NEW tm, IsTm(tm)
    PROVE  IF tm.year >= 70 THEN Clock(tm) >= 0 ELSE Clock(tm) < 0
<1> DEFINE y == tm.year  m == tm.mon  e == tm.mday  h == tm.hour  r == tm.sec  p == SecPerHour
           d == ((y + TM_YEAR_BASE - 1970) * 12 + m) * 30 + e - 1
<1>1. y \in Int /\ m \in 0 .. 11 /\ e \in 1 .. 30 /\ h \in 0 .. 23 /\ r \in 0 .. p - 1
  BY DEF IsTm
<1>2. p \in Nat \ {0}  BY ClockFacts
<1>3. Clock(tm) = d * (24 * p) + h * p + r  BY DEF Clock, SecPerDay
<1> HIDE DEF y, m, e, h, r, p
<1>4. d \in Int /\ (IF y >= 70 THEN d >= 0 ELSE d <= -1)  BY <1>1 DEF TM_YEAR_BASE
<1> HIDE DEF d
<1>5. h * p \in Int /\ 0 <= h * p /\ h * p <= 23 * p
  <2>1. p * 0 <= p * h /\ p * h <= p * 23  BY <1>1, <1>2, MulMono
  <2>2. p * 0 = 0 /\ p * h = h * p /\ p * 23 = 23 * p  BY <1>1, <1>2
  <2>3. h * p \in Int  BY <1>1, <1>2
  <2> QED  BY <2>1, <2>2, <2>3
<1> DEFINE k == 24 * p
<1>6. k \in Nat \ {0} /\ k = 24 * p  BY <1>2
<1> HIDE DEF k
<1>7. CASE y >= 70
  <2>1. k * 0 <= k * d  BY <1>4, <1>6, <1>7, MulMono
  <2>2. k * 0 = 0 /\ k * d = d * k /\ d * k \in Int  BY <1>4, <1>6
  <2>3. Clock(tm) = d * k + h * p + r  BY <1>3, <1>6
  <2> QED  BY <1>1, <1>2, <1>5, <1>7, <2>1, <2>2, <2>3 DEF y
<1>8. CASE ~(y >= 70)
  <2>1. k * d <= k * (-1)  BY <1>4, <1>6, <1>8, MulMono
  <2>2. k * (-1) = -k /\ k * d = d * k /\ d * k \in Int  BY <1>4, <1>6
  <2>3. Clock(tm) = d * k + h * p + r  BY <1>3, <1>6
  <2> DEFINE X == d * k  Y == h * p
  <2>4. X \in Int /\ Y \in Int /\ X <= -k /\ Y <= 23 * p /\ Clock(tm) = X + Y + r
    BY <1>5, <2>1, <2>2, <2>3
  <2> HIDE DEF X, Y
  <2>5. Clock(tm) < 0  BY <1>1, <1>2, <1>6, <2>4
  <2> QED  BY <1>8, <2>5 DEF y
<1> QED  BY <1>7, <1>8

\* A date is stored as the Groonga time of its corrected parts.
LEMMA DatedStored ==
    ASSUME Column, field.type \in DatedTypes, NEW v \in Samples(field), ~Shifted(field, v)
    PROVE  /\ Stored(v) = GRN_TIME_PACK(Clock(CorrectedTm(DatedOf(v))), DatedOf(v).usec)
           /\ Clock(CorrectedTm(DatedOf(v))) \in Int
           /\ Stored(v) \in Int
<1> USE DEF IntegerTypes, UnsignedTypes, Floats, Timestamps, Times, Datetimes, Texts, DatedTypes
<1> DEFINE t == DatedOf(v)  c == CorrectedTm(t)
<1>1. IsDated(t)  BY DatedValue
<1>2. IsTm(c)  BY <1>1, DatedTm
<1>3. Clock(c) \in Int  BY <1>2, GmtimeClock
<1>4. t.usec \in Int  BY <1>1, ClockFacts DEF IsDated, Fractions
<1>5. Stored(v) = GRN_TIME_PACK(Clock(c), t.usec)
  <2>1. CASE v = Null
    <3>1. Stored(v) = 0
      BY <2>1 DEF Stored, SkipsNull, generic_store_bulk, StoreBulkMysqlTime, Sound, Bulk
    <3>2. t.year = 1970 /\ t.month = 1 /\ t.day = 1 /\ t.hour = 0 /\ t.second = 0 /\ t.usec = 0
      BY <2>1 DEF DatedOf, MysqlTime
    <3>3. c = Tm(t.year - TM_YEAR_BASE, IF t.month > 0 THEN t.month - 1 ELSE 0,
                 IF t.day > 0 THEN t.day ELSE 1, t.hour, t.second)
      BY <1>1, DatedTm
    <3> HIDE DEF t, c
    <3>4. c.year + TM_YEAR_BASE - 1970 = 0 /\ c.mon = 0 /\ c.mday = 1 /\ c.hour = 0 /\ c.sec = 0
      BY <3>2, <3>3 DEF Tm, TM_YEAR_BASE
    <3>5. SecPerDay \in Nat /\ SecPerHour \in Nat  BY ClockFacts DEF SecPerDay
    <3>6. Clock(c) = ((0 * 12 + 0) * 30 + 1 - 1) * SecPerDay + 0 * SecPerHour + 0
      BY <3>4 DEF Clock
    <3>7. Clock(c) = 0  BY <3>5, <3>6
    <3>8. GRN_TIME_PACK(0, 0) = 0  BY ClockFacts DEF GRN_TIME_PACK
    <3> QED  BY <3>1, <3>2, <3>7, <3>8
  <2>2. CASE v # Null
    <3>1. Stored(v) = mysql_time_to_grn_time(zone, v).time
      BY <2>2 DEF Stored, SkipsNull, generic_store_bulk, StoreBulkMysqlTime, Bulk
    <3>2. t = v  BY <2>2 DEF DatedOf
    <3>3. t.type # "TIME"  BY <1>1 DEF IsDated, DatedType
    <3>4. ~InGap(zone, Clock(c))  BY <2>2, <3>2 DEF Shifted, Dated
    <3>5. IsZone(zone)  BY FieldFacts
    <3> HIDE DEF t, c
    <3>6. tm_to_time_gm(zone, c) = Clock(c)  BY <1>2, <3>4, <3>5, TmToTimeGm
    <3> QED  BY <3>1, <3>2, <3>3, <3>6 DEF mysql_time_to_grn_time, tm_to_grn_time, c
  <2> QED  BY <2>1, <2>2
<1>6. Stored(v) \in Int
  <2> HIDE DEF t, c
  <2> QED  BY <1>3, <1>4, <1>5, PackInt
<1> QED  BY <1>3, <1>5, <1>6

\* A date reads as its corrected parts, unless a fraction lies before 1970.
LEMMA DatedRead ==
    ASSUME Column, field.type \in DatedTypes, NEW v \in Samples(field), ~Shifted(field, v)
    PROVE  IF NegativeFraction(field, v) THEN Read(v).usec < 0
                                         ELSE Read(v) = Corrected(DatedOf(v))
<1> USE DEF IntegerTypes, UnsignedTypes, Floats, Timestamps, Times, Datetimes, Texts, DatedTypes
<1> DEFINE t == DatedOf(v)  c == CorrectedTm(t)  s == Clock(c)  u == t.usec
           x == GRN_TIME_UNPACK(Stored(v))  tm == gmtime(x.sec)
<1>1. IsDated(t)  BY DatedValue
<1>2. /\ IsTm(c)
      /\ c = Tm(t.year - TM_YEAR_BASE, IF t.month > 0 THEN t.month - 1 ELSE 0,
                IF t.day > 0 THEN t.day ELSE 1, t.hour, t.second)
  BY <1>1, DatedTm
<1>3. Stored(v) = GRN_TIME_PACK(s, u) /\ s \in Int  BY DatedStored
<1>4. /\ field.type # "NEWDATE" =>
            Read(v) = MysqlTime("DATETIME", FALSE, tm.year + TM_YEAR_BASE, tm.mon + 1, tm.mday,
                                tm.hour, tm.sec, x.usec)
      /\ field.type = "NEWDATE" =>
            Read(v) = MysqlTime("DATE", FALSE, tm.year + TM_YEAR_BASE, tm.mon + 1, tm.mday, 0, 0, 0)
  BY DEF Read, storage_store_field, storage_store_field_datetime, storage_store_field_new_date,
         grn_time_to_mysql_time
<1>5. u \in 0 .. UsecPerSec - 1 /\ (field.type # "DATETIME2" => u = 0)
  BY <1>1 DEF IsDated, Fractions
<1>6. NegativeFraction(field, v) <=> t.year < 1970 /\ u # 0
  <2>1. CASE v = Null
    <3>1. t.year = 1970  BY <2>1 DEF DatedOf, MysqlTime
    <3> HIDE DEF t, u
    <3> QED  BY <2>1, <3>1 DEF NegativeFraction
  <2>2. CASE v # Null
    BY <1>5, <2>2 DEF NegativeFraction, DatedOf
  <2> QED  BY <2>1, <2>2
<1>7. c.year = t.year - TM_YEAR_BASE /\ t.year \in Int  BY <1>1, <1>2, YearFacts DEF Tm, IsDated, Years
<1> HIDE DEF t, c, u
<1>8. IF c.year >= 70 THEN s >= 0 ELSE s < 0  BY <1>2, ClockSign
<1>9. gmtime(s) = c  BY <1>2, GmtimeClock
<1> HIDE DEF s
<1>10. CASE t.year < 1970 /\ u # 0
  <2>1. s < 0  BY <1>7, <1>8, <1>10 DEF TM_YEAR_BASE
  <2>2. u \in 1 .. UsecPerSec - 1  BY <1>5, <1>10
  <2>3. x.usec < 0  BY <1>3, <2>1, <2>2, UnpackBefore
  <2>4. field.type = "DATETIME2"  BY <1>5, <1>10
  <2>5. Read(v).usec = x.usec  BY <1>4, <2>4 DEF MysqlTime
  <2> QED  BY <1>6, <1>10, <2>3, <2>5
<1>11. CASE ~(t.year < 1970 /\ u # 0)
  <2>1. s >= 0 \/ u = 0  BY <1>7, <1>8, <1>11 DEF TM_YEAR_BASE
  <2>2. x = [sec |-> s, usec |-> u]  BY <1>3, <1>5, <2>1, UnpackPack
  <2>3. tm = c /\ x.usec = u  BY <1>9, <2>2
  <2> HIDE DEF tm, x
  <2>4. /\ tm.year + TM_YEAR_BASE = t.year
        /\ tm.mon + 1 = IF t.month > 0 THEN t.month ELSE 1
        /\ tm.mday = IF t.day > 0 THEN t.day ELSE 1
        /\ tm.hour = t.hour /\ tm.sec = t.second
    <3>1. /\ c.mon = IF t.month > 0 THEN t.month - 1 ELSE 0
          /\ c.mday = IF t.day > 0 THEN t.day ELSE 1
          /\ c.hour = t.hour /\ c.sec = t.second
      BY <1>2 DEF Tm
    <3>2. t.month \in Int  BY <1>1 DEF IsDated, Months
    <3> QED  BY <1>7, <2>3, <3>1, <3>2 DEF TM_YEAR_BASE
  <2>5. CASE field.type = "NEWDATE"
    <3>1. t.hour = 0 /\ t.second = 0 /\ t.usec = 0  BY <1>1, <2>5 DEF IsDated, DatedType
    <3> QED  BY <1>4, <1>6, <1>11, <2>4, <2>5, <3>1 DEF Corrected, DatedType, t
  <2>6. CASE field.type # "NEWDATE"
    BY <1>4, <1>6, <1>11, <2>3, <2>4, <2>6 DEF Corrected, DatedType, t, u
  <2> QED  BY <2>5, <2>6
<1> QED  BY <1>10, <1>11

\* Correcting a date changes only a month or a day that is zero.
LEMMA CorrectedFacts ==
    ASSUME NEW t, IsDated(t)
    PROVE  /\ Corrected(t).usec = t.usec
           /\ Tm(Corrected(t).year - TM_YEAR_BASE, Corrected(t).month - 1, Corrected(t).day,
                 Corrected(t).hour, Corrected(t).second) = CorrectedTm(t)
           /\ CorrectedTm(Corrected(t)) = CorrectedTm(t)
           /\ t.month # 0 /\ t.day # 0 => Corrected(t) = t
<1> DEFINE c == Corrected(t)
<1>1. /\ c.type = DatedType /\ c.year = t.year
      /\ c.month = (IF t.month > 0 THEN t.month ELSE 1) /\ c.day = (IF t.day > 0 THEN t.day ELSE 1)
      /\ c.hour = t.hour /\ c.second = t.second /\ c.usec = t.usec
  BY DEF Corrected, MysqlTime
<1>2. CorrectedTm(t) = Tm(t.year - TM_YEAR_BASE, IF t.month > 0 THEN t.month - 1 ELSE 0,
                          IF t.day > 0 THEN t.day ELSE 1, t.hour, t.second)
  BY DatedTm
<1>3. t.type = DatedType  BY DEF IsDated
<1>4. t.month \in Nat  BY DEF IsDated, Months
<1>5. t.day \in Nat  BY DEF IsDated, Days
<1>6. t.month # 0 /\ t.day # 0 => c = t
  <2>1. SUFFICES ASSUME t.month # 0, t.day # 0 PROVE c = t  OBVIOUS
  <2>2. t.month > 0 /\ t.day > 0  BY <1>4, <1>5, <2>1
  <2>3. c = MysqlTime(DatedType, FALSE, t.year, t.month, t.day, t.hour, t.second, t.usec)
    BY <2>2 DEF Corrected
  <2> HIDE DEF c
  <2> QED  BY <2>3 DEF IsDated
<1> HIDE DEF c
<1>7. c.month - 1 = IF t.month > 0 THEN t.month - 1 ELSE 0  BY <1>1, <1>4
<1>8. Tm(c.year - TM_YEAR_BASE, c.month - 1, c.day, c.hour, c.second) = CorrectedTm(t)
  BY <1>1, <1>2, <1>7
<1>9. CorrectedTm(c) = CorrectedTm(t)
  <2>1. c.month > 0 /\ c.day > 0  BY <1>1, <1>4, <1>5
  <2>2. DatedType # "DATETIME" => t.hour = 0 /\ t.second = 0  BY DEF IsDated, DatedType
  <2>3. CorrectedTm(c) = Tm(c.year - TM_YEAR_BASE, c.month - 1, c.day, c.hour, c.second)
    BY <1>1, <2>1, <2>2 DEF CorrectedTm
  <2> QED  BY <1>8, <2>3
<1> QED  BY <1>1, <1>6, <1>8, <1>9 DEF c

\* The server orders dates by their seconds and microseconds.
LEMMA DatedRank ==
    ASSUME field.type \in DatedTypes, NEW t
    PROVE  SqlRank(field, t) =
               GRN_TIME_PACK(Clock(Tm(t.year - TM_YEAR_BASE, t.month - 1, t.day, t.hour, t.second)),
                             t.usec)
BY DEF SqlRank, Dated, DatedTypes, Floats, Timestamps, Times, Datetimes

\* A date without a zero month or day, as it was written.
LEMMA DatedExact ==
    ASSUME Column, field.type \in DatedTypes, NEW u \in Samples(field), u # Null,
           ~ZeroDate(field, u)
    PROVE  DatedOf(u) = u /\ IsDated(u) /\ u.month # 0 /\ u.day # 0 /\ Corrected(u) = u
<1>1. DatedOf(u) = u  BY DEF DatedOf
<1>2. IsDated(u)  BY <1>1, DatedValue
<1>3. u.month # 0 /\ u.day # 0  BY DEF ZeroDate, Dated, DatedTypes
<1> QED  BY <1>1, <1>2, <1>3, CorrectedFacts

\* The digits of the key of a DATETIME, and the bits of a DATE's.
LEMMA DatedDigits ==
    ASSUME NEW y \in Int, NEW m \in Nat, m < 16, NEW d \in Nat, d < 32,
           NEW h \in Nat, h < 100, NEW s \in Nat, s < 100
    PROVE  /\ (y * 10000 + m * 100 + d) \div 10000 = y
           /\ ((y * 10000 + m * 100 + d) \div 100) % 100 = m
           /\ (y * 10000 + m * 100 + d) % 100 = d
           /\ (h * 100 + s) \div 100 = h /\ ((h * 100 + s) \div 100) % 100 = h
           /\ (h * 100 + s) % 100 = s
           /\ (y * (16 * 32) + m * 32 + d) \div (16 * 32) = y
           /\ ((y * (16 * 32) + m * 32 + d) \div 32) % 16 = m
           /\ (y * (16 * 32) + m * 32 + d) % 32 = d
<1> DEFINE x == y * 10000 + m * 100 + d  t == h * 100 + s  b == y * (16 * 32) + m * 32 + d
<1>1. x \div 10000 = y
  <2>1. m * 100 + d \in 0 .. 10000 - 1 /\ x = 10000 * y + (m * 100 + d)  OBVIOUS
  <2> QED  BY <2>1
<1>2. x \div 100 = y * 100 + m /\ x % 100 = d  OBVIOUS
<1>3. (y * 100 + m) % 100 = m  OBVIOUS
<1>4. t \div 100 = h /\ t % 100 = s  OBVIOUS
<1>5. h % 100 = h  OBVIOUS
<1>6. b \div (16 * 32) = y
  <2>1. m * 32 + d \in 0 .. 512 - 1 /\ b = 512 * y + (m * 32 + d) /\ 16 * 32 = 512  OBVIOUS
  <2> QED  BY <2>1
<1>7. b \div 32 = y * 16 + m /\ b % 32 = d  OBVIOUS
<1>8. (y * 16 + m) % 16 = m  OBVIOUS
<1> QED  BY <1>1, <1>2, <1>3, <1>4, <1>5, <1>6, <1>7, <1>8

\* The key of a date that is looked up is the value stored for it.
LEMMA DatedKey ==
    ASSUME Column, field.type \in DatedTypes, NEW u \in Samples(field), u # Null,
           ~ZeroDate(field, u)
    PROVE  storage_encode_key(field, u) = Stored(u)
<1> USE DEF IntegerTypes, UnsignedTypes, Floats, Timestamps, Times, Datetimes, Texts, DatedTypes
<1>1. DatedOf(u) = u /\ IsDated(u) /\ u.month # 0 /\ u.day # 0  BY DatedExact
<1>2. Stored(u) = mysql_time_to_grn_time(zone, u).time
  BY DEF Stored, SkipsNull, generic_store_bulk, StoreBulkMysqlTime, Bulk
<1>3. u.type # "TIME"  BY <1>1 DEF IsDated, DatedType
<1>4. Stored(u) = tm_to_grn_time(zone, CorrectedTm(u), u.usec)
  BY <1>2, <1>3 DEF mysql_time_to_grn_time
<1>5. u.month \in Nat /\ u.month < 16  BY <1>1 DEF IsDated, Months
<1>6. u.day \in Nat /\ u.day < 32  BY <1>1 DEF IsDated, Days
<1>7. CorrectedTm(u) = Tm(u.year - TM_YEAR_BASE, u.month - 1, u.day, u.hour, u.second)
  <2>1. u.month > 0 /\ u.day > 0  BY <1>1, <1>5, <1>6
  <2> QED  BY <1>1, <2>1, DatedTm
<1>8. CASE field.type = "DATETIME2"
  BY <1>2, <1>8 DEF storage_encode_key, storage_encode_key_datetime2
<1> DEFINE y == u.year  m == u.month  d == u.day  h == u.hour  s == u.second
<1>9. y \in Int  BY <1>1, YearFacts DEF IsDated, Years
<1>10. h \in Nat /\ h < 100  BY <1>1 DEF IsDated, Hours
<1>11. s \in Nat /\ s < 100
  <2>1. s \in 0 .. SecPerHour - 1  BY <1>1 DEF IsDated, Seconds
  <2> HIDE DEF s
  <2> QED  BY <2>1, ClockFacts
<1>12. CASE field.type = "DATETIME"
  <2>1. storage_encode_key(field, u) =
          tm_to_grn_time(zone,
              Tm((y * 10000 + m * 100 + d) \div 10000 - TM_YEAR_BASE,
                 (((y * 10000 + m * 100 + d) \div 100) % 100) - 1,
                 (y * 10000 + m * 100 + d) % 100, (h * 100 + s) \div 100, (h * 100 + s) % 100), 0)
    <3>1. storage_encode_key(field, u) = storage_encode_key_datetime(u)
      BY <1>12 DEF storage_encode_key
    <3> QED  BY <3>1 DEF storage_encode_key_datetime, y, m, d, h, s
  <2>2. u.usec = 0  BY <1>1, <1>12 DEF IsDated
  <2>3. m \in Nat /\ m < 16 /\ d \in Nat /\ d < 32  BY <1>5, <1>6
  <2> HIDE DEF y, m, d, h, s
  <2>4. storage_encode_key(field, u) = tm_to_grn_time(zone, Tm(y - TM_YEAR_BASE, m - 1, d, h, s), 0)
    BY <1>9, <1>10, <1>11, <2>1, <2>3, DatedDigits
  <2> QED  BY <1>4, <1>7, <2>2, <2>4 DEF y, m, d, h, s
<1>13. CASE field.type = "NEWDATE"
  <2>1. storage_encode_key(field, u) =
          tm_to_grn_time(zone,
              Tm((y * (16 * 32) + m * 32 + d) \div (16 * 32) - TM_YEAR_BASE,
                 (((y * (16 * 32) + m * 32 + d) \div 32) % 16) - 1,
                 (y * (16 * 32) + m * 32 + d) % 32, 0, 0), 0)
    <3>1. storage_encode_key(field, u) = storage_encode_key_new_date(u)
      BY <1>13 DEF storage_encode_key
    <3> QED  BY <3>1, Zenon DEF storage_encode_key_new_date, PackedDate
  <2>2. u.usec = 0 /\ u.hour = 0 /\ u.second = 0  BY <1>1, <1>13 DEF IsDated, DatedType
  <2>3. m \in Nat /\ m < 16 /\ d \in Nat /\ d < 32  BY <1>5, <1>6
  <2> HIDE DEF y, m, d, h, s
  <2>4. storage_encode_key(field, u) = tm_to_grn_time(zone, Tm(y - TM_YEAR_BASE, m - 1, d, 0, 0), 0)
    BY <1>9, <1>10, <1>11, <2>1, <2>3, DatedDigits
  <2> QED  BY <1>4, <1>7, <2>2, <2>4 DEF y, m, d
<1> QED  BY <1>8, <1>12, <1>13

\* A lookup finds the dates that read as the value looked up, and no others.
LEMMA DatedLookUp ==
    ASSUME Column, field.type \in DatedTypes, NEW v \in Samples(field), ~Shifted(field, v),
           NEW u \in Samples(field), u # Null, ~LookupDiffers(field, u)
    PROVE  Stored(v) = storage_encode_key(field, u) <=> Read(v) = u
<1>1. ~ZeroDate(field, u) /\ ~Shifted(field, u) /\ ~NegativeFraction(field, u)
  BY DEF LookupDiffers, Skipped
<1>2. DatedOf(u) = u /\ IsDated(u) /\ Corrected(u) = u  BY <1>1, DatedExact
<1>3. Read(u) = u  BY <1>1, <1>2, DatedRead
<1>4. storage_encode_key(field, u) = Stored(u)  BY <1>1, DatedKey
<1>5. Stored(v) = Stored(u) => Read(v) = Read(u)  BY DEF Read
<1>6. ASSUME Read(v) = u PROVE Stored(v) = Stored(u)
  <2>1. ~NegativeFraction(field, v)
    <3>1. ~(u.usec < 0)  BY <1>2, ClockFacts DEF IsDated, Fractions
    <3> QED  BY <1>6, <3>1, DatedRead
  <2>2. Corrected(DatedOf(v)) = u  BY <1>6, <2>1, DatedRead
  <2>3. IsDated(DatedOf(v))  BY DatedValue
  <2>4. DatedOf(v).usec = u.usec /\ CorrectedTm(DatedOf(v)) = CorrectedTm(u)
    BY <2>2, <2>3, CorrectedFacts
  <2> QED  BY <1>1, <1>2, <2>4, DatedStored
<1> QED  BY <1>3, <1>4, <1>5, <1>6

\* Groonga orders the stored dates as the server does.
LEMMA DatedKeyOrder ==
    ASSUME Column, field.type \in DatedTypes,
           NEW v \in Samples(field), ~Shifted(field, v), ~NegativeFraction(field, v),
           NEW w \in Samples(field), ~Shifted(field, w), ~NegativeFraction(field, w)
    PROVE  GrnLess(field, Stored(v), Stored(w)) <=> SqlLess(field, Read(v), Read(w))
<1>1. ASSUME NEW x \in Samples(field), ~Shifted(field, x), ~NegativeFraction(field, x)
      PROVE  SqlRank(field, Read(x)) = Stored(x)
  <2>1. Read(x) = Corrected(DatedOf(x))  BY <1>1, DatedRead
  <2>2. IsDated(DatedOf(x))  BY DatedValue
  <2>3. SqlRank(field, Read(x)) = GRN_TIME_PACK(Clock(CorrectedTm(DatedOf(x))), DatedOf(x).usec)
    BY <2>1, <2>2, DatedRank, CorrectedFacts
  <2> QED  BY <1>1, <2>3, DatedStored
<1>2. field.type \notin Texts /\ field.type \in TimeTypes
  BY DEF Datetimes, DatedTypes, Texts, TimeTypes
<1> QED  BY <1>1, <1>2, RankLess, TimeLess

\* Groonga's time of a DATETIME as eight bytes in a key.
LEMMA LongLongCodec ==
    ASSUME Column, KeyPart(field).type \in {"DATETIME", "DATETIME2"}, KeyPart(field).size = 8,
           KeyPart(field).nullable = field.nullable, NEW v, NEW w,
           KeyImage(field, v) \in SignedRange(8), KeyImage(field, w) \in SignedRange(8),
           KeyImage(field, v) # Null, KeyImage(field, w) # Null
    PROVE  ByteLess(Encoded(v), Encoded(w)) <=> KeyImage(field, v) < KeyImage(field, w)
<1> DEFINE x == KeyImage(field, v)  y == KeyImage(field, w)  part == KeyPart(field)
           pre == IF field.nullable THEN <<0>> ELSE <<>>
           E(z) == encode_long_long_int(z, 8)
<1>1. x \in SignedRange(8) /\ y \in SignedRange(8) /\ x # Null /\ y # Null  OBVIOUS
<1>2. part.type \in {"DATETIME", "DATETIME2"} /\ part.size = 8 /\ part.nullable = field.nullable
  OBVIOUS
<1>3. Encoded(v) = EncodePart(part, x) /\ Encoded(w) = EncodePart(part, y)  BY EncodedIs
<1>4. x \in Int /\ y \in Int
  <2>1. SignedRange(8) \subseteq Int  BY SignedRangeFacts
  <2> QED  BY <1>1, <2>1
<1> HIDE DEF x, y, part
<1>5. Encoded(v) = pre \o E(x) /\ Encoded(w) = pre \o E(y)
  BY <1>1, <1>2, <1>3 DEF EncodePart
<1>0. 8 \in 1 .. 8  OBVIOUS
<1>6. E(x) \in Seq(Int) /\ E(y) \in Seq(Int)
  <2>1. E(x) = FlipTop(NetworkBytes(x, 8)) /\ E(y) = FlipTop(NetworkBytes(y, 8))
    BY DEF encode_long_long_int, NetworkBytes
  <2> HIDE DEF E
  <2> QED  BY <1>0, <1>4, <2>1, FlippedBytes
<1>7. field.nullable \in BOOLEAN  BY FieldFacts DEF IsField
<1>8. ByteLess(E(x), E(y)) <=> x < y  BY <1>0, <1>1, NumberOrder
<1> HIDE DEF E
<1>9. ByteLess(pre \o E(x), pre \o E(y)) <=> ByteLess(E(x), E(y))
  BY <1>6, <1>7, NullableOrder
<1> HIDE DEF pre
<1> QED  BY <1>5, <1>8, <1>9 DEF x, y

\* The codec keeps the order of DATETIME columns.
LEMMA DatetimeCodec ==
    ASSUME Column, field.type \in Datetimes,
           NEW v \in Samples(field), v # Null, ~ZeroDate(field, v), ~Shifted(field, v),
           NEW w \in Samples(field), w # Null, ~ZeroDate(field, w), ~Shifted(field, w)
    PROVE  ByteLess(Encoded(v), Encoded(w)) <=> SqlLess(field, v, w)
<1> USE DEF IntegerTypes, UnsignedTypes, Floats, Timestamps, Times, Datetimes, Texts, DatedTypes
<1>1. ASSUME NEW u \in Samples(field), u # Null, ~ZeroDate(field, u), ~Shifted(field, u)
      PROVE  /\ KeyImage(field, u) = Stored(u)
             /\ SqlRank(field, u) = Stored(u)
             /\ Stored(u) \in SignedRange(8)
             /\ Stored(u) # Null
  <2>1. /\ DatedOf(u) = u /\ IsDated(u) /\ u.month # 0 /\ u.day # 0 /\ Corrected(u) = u
    BY <1>1, DatedExact
  <2>2. Stored(u) = GRN_TIME_PACK(Clock(CorrectedTm(u)), u.usec) /\ Stored(u) \in Int
    BY <1>1, <2>1, DatedStored
  <2>3. SqlRank(field, u) = Stored(u)  BY <2>1, <2>2, DatedRank, CorrectedFacts
  <2>4. Stored(u) \in SignedRange(8)
    <3>1. u \in SqlValues(field)  BY <1>1, SampleFacts
    <3>2. InRange(GRN_TIME_PACK(Clock(CorrectedTm(u)), u.usec))  BY <3>1 DEF SqlValues
    <3>3. 8 - 1 = 7  OBVIOUS
    <3> QED  BY <2>2, <3>2, <3>3 DEF InRange, SignedRange
  <2>5. Stored(u) # Null  BY <2>2, NullAssumption
  <2>6. Stored(u) = mysql_time_to_grn_time(zone, u).time
    BY <1>1 DEF Stored, SkipsNull, generic_store_bulk, StoreBulkMysqlTime, Bulk
  <2>7. CASE field.type = "DATETIME2"
    <3>1. KeyImage(field, u) = mysql_time_to_grn_time(zone, u).time  BY <2>7 DEF KeyImage
    <3> QED  BY <2>3, <2>4, <2>5, <2>6, <3>1
  <2>8. CASE field.type = "DATETIME"
    <3> DEFINE y == u.year  m == u.month  d == u.day  h == u.hour  s == u.second
               a == y * 10000 + m * 100 + d  b == h * 100 + s
               y1 == (a \div 10000) % 10000  m1 == (a \div 100) % 100  d1 == a % 100
               h1 == (b \div 100) % 100  s1 == b % 100
               t == MysqlTime("DATETIME", FALSE, y1, m1, d1, h1, s1, 0)
    <3>1. KeyImage(field, u) = mysql_datetime_to_grn_time(zone, a, b).time
      BY <2>8 DEF KeyImage
    <3>2. mysql_datetime_to_grn_time(zone, a, b) = mysql_time_to_grn_time(zone, t)
      <4> HIDE DEF a, b
      <4> QED  BY DEF mysql_datetime_to_grn_time
    <3>3. y \in Nat /\ y < 10000  BY <2>1, YearFacts DEF IsDated, Years
    <3>4. m \in Nat /\ m < 16  BY <2>1 DEF IsDated, Months
    <3>5. d \in Nat /\ d < 32  BY <2>1 DEF IsDated, Days
    <3>6. h \in Nat /\ h < 100  BY <2>1 DEF IsDated, Hours
    <3>7. s \in Nat /\ s < 100
      <4>1. s \in 0 .. SecPerHour - 1  BY <2>1 DEF IsDated, Seconds
      <4> HIDE DEF s
      <4> QED  BY <4>1, ClockFacts
    <3> HIDE DEF y, m, d, h, s
    <3>8. /\ a \div 10000 = y /\ (a \div 100) % 100 = m /\ a % 100 = d
          /\ (b \div 100) % 100 = h /\ b % 100 = s
      BY <3>3, <3>4, <3>5, <3>6, <3>7, DatedDigits
    <3>9. y % 10000 = y  BY <3>3
    <3> HIDE DEF a, b
    <3>14. y1 = y /\ m1 = m /\ d1 = d /\ h1 = h /\ s1 = s  BY <3>8, <3>9
    <3> HIDE DEF y1, m1, d1, h1, s1
    <3>10. t = MysqlTime("DATETIME", FALSE, y, m, d, h, s, 0)  BY <3>14
    <3> HIDE DEF t
    <3>11. DatedType = "DATETIME" /\ u.usec = 0  BY <2>1, <2>8 DEF IsDated, DatedType
    <3>12. t = u  BY <2>1, <3>10, <3>11 DEF IsDated, y, m, d, h, s
    <3>13. KeyImage(field, u) = Stored(u)  BY <2>6, <3>1, <3>2, <3>12
    <3> QED  BY <2>3, <2>4, <2>5, <3>13
  <2> QED  BY <2>7, <2>8
<1>2. KeyPart(field).type = field.type /\ KeyPart(field).size = 8
      /\ KeyPart(field).nullable = field.nullable
  BY DEF KeyPart, get_key_info
<1>3. ByteLess(Encoded(v), Encoded(w)) <=> KeyImage(field, v) < KeyImage(field, w)
  BY <1>1, <1>2, LongLongCodec
<1> QED  BY <1>1, <1>3, RankLess

\* Days and their packed form have one order.
LEMMA DateOrder ==
    ASSUME NEW y \in Int, NEW m \in Nat, m >= 1, m <= 12, NEW d \in Nat, d >= 1, d <= 30,
           NEW z \in Int, NEW n \in Nat, n >= 1, n <= 12, NEW e \in Nat, e >= 1, e <= 30
    PROVE  y * (16 * 32) + m * 32 + d < z * (16 * 32) + n * 32 + e
             <=> ((y - 1970) * 12 + (m - 1)) * 30 + d - 1 < ((z - 1970) * 12 + (n - 1)) * 30 + e - 1
<1>1. CASE y < z  BY <1>1
<1>2. CASE z < y  BY <1>2
<1>3. CASE y = z  BY <1>3
<1> QED  BY <1>1, <1>2, <1>3

\* The codec keeps the order of DATE columns.
LEMMA DateCodec ==
    ASSUME Column, field.type = "NEWDATE",
           NEW v \in Samples(field), v # Null, ~ZeroDate(field, v),
           NEW w \in Samples(field), w # Null, ~ZeroDate(field, w)
    PROVE  ByteLess(Encoded(v), Encoded(w)) <=> SqlLess(field, v, w)
<1> USE DEF IntegerTypes, UnsignedTypes, Floats, Timestamps, Times, Datetimes, Texts, DatedTypes
<1> DEFINE D(u) == ((u.year - 1970) * 12 + (u.month - 1)) * 30 + u.day - 1
<1>1. ASSUME NEW u \in Samples(field), u # Null, ~ZeroDate(field, u)
      PROVE  /\ u.year \in Nat /\ u.year <= MaxYear
             /\ u.month \in Nat /\ u.month >= 1 /\ u.month <= 12
             /\ u.day \in Nat /\ u.day >= 1 /\ u.day <= 30
             /\ SqlRank(field, u) = GRN_TIME_PACK(D(u) * SecPerDay, 0)
             /\ KeyImage(field, u) = PackedDate(u)
             /\ PackedDate(u) \in 0 .. Base ^ 8 - 1
             /\ PackedDate(u) # Null
  <2>1. IsDated(u) /\ u.month # 0 /\ u.day # 0  BY <1>1, DatedExact
  <2>2. u.year \in Nat /\ u.year <= MaxYear  BY <2>1, YearFacts DEF IsDated, Years
  <2>3. u.month \in Nat /\ u.month >= 1 /\ u.month <= 12  BY <2>1 DEF IsDated, Months
  <2>4. u.day \in Nat /\ u.day >= 1 /\ u.day <= 30  BY <2>1 DEF IsDated, Days
  <2>5. u.hour = 0 /\ u.second = 0 /\ u.usec = 0  BY <2>1 DEF IsDated, DatedType
  <2>6. SqlRank(field, u) = GRN_TIME_PACK(D(u) * SecPerDay, 0)
    <3> DEFINE tm == Tm(u.year - TM_YEAR_BASE, u.month - 1, u.day, u.hour, u.second)
    <3>1. SqlRank(field, u) = GRN_TIME_PACK(Clock(tm), u.usec)  BY DatedRank
    <3>2. /\ tm.year = u.year - TM_YEAR_BASE /\ tm.mon = u.month - 1 /\ tm.mday = u.day
          /\ tm.hour = 0 /\ tm.sec = 0
      BY <2>5 DEF Tm
    <3> HIDE DEF tm
    <3>3. tm.year + TM_YEAR_BASE - 1970 = u.year - 1970  BY <2>2, <3>2 DEF TM_YEAR_BASE
    <3>4. Clock(tm) = D(u) * SecPerDay + 0 * SecPerHour + 0  BY <3>2, <3>3 DEF Clock
    <3>5. D(u) * SecPerDay \in Int /\ SecPerHour \in Int
      <4>1. D(u) \in Int  BY <2>2, <2>3, <2>4
      <4>2. SecPerDay \in Int /\ SecPerHour \in Int  BY ClockFacts DEF SecPerDay
      <4> HIDE DEF D
      <4> QED  BY <4>1, <4>2
    <3>6. Clock(tm) = D(u) * SecPerDay
      <4> DEFINE X == D(u) * SecPerDay
      <4> HIDE DEF X
      <4> QED  BY <3>4, <3>5 DEF X
    <3> QED  BY <2>5, <3>1, <3>6
  <2>7. KeyImage(field, u) = PackedDate(u)  BY DEF KeyImage
  <2>8. PackedDate(u) \in 0 .. Base ^ 8 - 1 /\ PackedDate(u) # Null
    <3> DEFINE p == PackedDate(u)  N == Base ^ 8
    <3>1. p = u.year * 512 + u.month * 32 + u.day  BY <2>2, <2>3, <2>4 DEF PackedDate
    <3>2. N \in Nat  BY PowerNat
    <3>3. MaxYear * 512 + 12 * 32 + 30 < N  BY DateAssumption
    <3> HIDE DEF p, N
    <3>4. p \in Int /\ p >= 0  BY <2>2, <2>3, <2>4, <3>1
    <3>5. p <= MaxYear * 512 + 12 * 32 + 30  BY <2>2, <2>3, <2>4, <3>1, YearFacts
    <3>6. p \in 0 .. N - 1  BY <3>2, <3>3, <3>4, <3>5, YearFacts
    <3>7. p # Null  BY <3>4, NullAssumption
    <3> QED  BY <3>6, <3>7 DEF p, N
  <2> QED  BY <2>2, <2>3, <2>4, <2>6, <2>7, <2>8
<1>2. KeyPart(field).type = "BYTE_REVERSE" /\ KeyPart(field).size = 8
      /\ KeyPart(field).nullable = field.nullable
  BY DEF KeyPart, get_key_info
<1>3. ByteLess(Encoded(v), Encoded(w)) <=> PackedDate(v) < PackedDate(w)
  BY <1>1, <1>2, ReverseCodec
<1>4. PackedDate(v) < PackedDate(w) <=> D(v) < D(w)
  <2> DEFINE y == v.year  m == v.month  d == v.day  z == w.year  n == w.month  e == w.day
  <2>1. /\ y \in Int /\ m \in Nat /\ m >= 1 /\ m <= 12 /\ d \in Nat /\ d >= 1 /\ d <= 30
        /\ z \in Int /\ n \in Nat /\ n >= 1 /\ n <= 12 /\ e \in Nat /\ e >= 1 /\ e <= 30
    BY <1>1
  <2> DEFINE a == y * (16 * 32) + m * 32 + d  b == z * (16 * 32) + n * 32 + e
             f == ((y - 1970) * 12 + (m - 1)) * 30 + d - 1
             g == ((z - 1970) * 12 + (n - 1)) * 30 + e - 1
  <2>2. PackedDate(v) = a /\ PackedDate(w) = b /\ D(v) = f /\ D(w) = g  BY DEF PackedDate
  <2>3. a < b <=> f < g
    <3> HIDE DEF y, m, d, z, n, e
    <3> QED  BY <2>1, DateOrder
  <2> HIDE DEF a, b, f, g, D
  <2> QED  BY <2>2, <2>3
<1>5. D(v) \in Int /\ D(w) \in Int  BY <1>1
<1>6. SqlRank(field, v) < SqlRank(field, w) <=> D(v) < D(w)
  <2> DEFINE x == D(v)  y == D(w)  k == SecPerDay
  <2>1. k \in Nat \ {0}  BY ClockFacts DEF SecPerDay
  <2>2. SqlRank(field, v) = GRN_TIME_PACK(x * k, 0) /\ SqlRank(field, w) = GRN_TIME_PACK(y * k, 0)
    BY <1>1
  <2>3. x \in Int /\ y \in Int  BY <1>5
  <2> HIDE DEF x, y, k
  <2>4. x * k \in Int /\ y * k \in Int  BY <2>1, <2>3
  <2>5. GRN_TIME_PACK(x * k, 0) < GRN_TIME_PACK(y * k, 0) <=> x * k < y * k  BY <2>4, PackOrder
  <2>6. x * k < y * k <=> x < y  BY <2>1, <2>3, FactorOrder
  <2> QED  BY <2>2, <2>5, <2>6 DEF x, y
<1> QED  BY <1>3, <1>4, <1>6, RankLess

-----------------------------------------------------------------------------
(* YEAR. *)

YearOf(v) == IF v = Null THEN IF field.length = 2 THEN 70 ELSE 1970 ELSE v

\* The year a value stands for, since 1900.
SinceBase(n) ==
    IF field.length = 2 THEN IF n < 70 THEN n + 100 ELSE n ELSE n - TM_YEAR_BASE

\* A YEAR is kept as the first of January of the year.
LEMMA YearValue ==
    ASSUME Column, field.type = "YEAR", NEW v \in Samples(field)
    PROVE  /\ field.length \in {2, 4} /\ YearOf(v) \in Nat
           /\ field.length = 2 => YearOf(v) < 100
           /\ field.length = 4 => YearOf(v) = 0 \/ YearOf(v) > TM_YEAR_BASE
           /\ SinceBase(YearOf(v)) \in Int
           /\ YearTm(field, v) = Tm(SinceBase(YearOf(v)), 0, 1, 0, 0)
<1> USE DEF IntegerTypes, UnsignedTypes, Floats, Timestamps, Times, Datetimes, Texts
<1>1. field.length \in {2, 4}  BY FieldFacts DEF IsField
<1> DEFINE n == YearOf(v)
<1>2. n \in Nat /\ (field.length = 2 => n < 100) /\ (field.length = 4 => n = 0 \/ n > TM_YEAR_BASE)
  <2>1. CASE v = Null  BY <2>1 DEF YearOf, TM_YEAR_BASE
  <2>2. CASE v # Null
    <3>1. v \in SqlValues(field) /\ n = v  BY <2>2, SampleFacts DEF YearOf
    <3>2. v \in IF field.length = 2 THEN 0 .. 99 ELSE {0} \cup 1901 .. 2155
      BY <3>1 DEF SqlValues
    <3> HIDE DEF n
    <3>3. CASE field.length = 2
      <4>1. v \in 0 .. 99  BY <3>2, <3>3
      <4>2. v \in Nat /\ v < 100  BY <4>1
      <4> QED  BY <3>1, <3>3, <4>2
    <3>4. CASE field.length # 2
      <4>1. v = 0 \/ v \in 1901 .. 2155  BY <3>2, <3>4
      <4>2. v \in Nat /\ (v = 0 \/ v > 1900)  BY <4>1
      <4> QED  BY <3>1, <3>4, <4>2 DEF TM_YEAR_BASE
    <3> QED  BY <3>3, <3>4
  <2> QED  BY <2>1, <2>2
<1>3. YearTm(field, v) = Tm(SinceBase(n), 0, 1, 0, 0)
  <2> DEFINE y == IF v = Null THEN 1970
                  ELSE IF field.length # 2 THEN v
                  ELSE IF v < 70 THEN 2000 + v ELSE 1900 + v
  <2>1. y - TM_YEAR_BASE = SinceBase(n)
    <3>1. CASE v = Null
      <4>1. n = (IF field.length = 2 THEN 70 ELSE 1970)  BY <3>1 DEF YearOf
      <4>2. y = 1970  BY <3>1
      <4> HIDE DEF y, n
      <4> QED  BY <1>1, <4>1, <4>2 DEF SinceBase, TM_YEAR_BASE
    <3>2. CASE v # Null /\ field.length # 2
      <4>1. n = v /\ v \in Nat  BY <1>2, <3>2 DEF YearOf
      <4>2. y = v  BY <3>2
      <4> HIDE DEF y, n
      <4> QED  BY <3>2, <4>1, <4>2 DEF SinceBase, TM_YEAR_BASE
    <3>3. CASE v # Null /\ field.length = 2
      <4>1. n = v /\ v \in Nat  BY <1>2, <3>3 DEF YearOf
      <4>2. y = IF v < 70 THEN 2000 + v ELSE 1900 + v  BY <3>3
      <4> HIDE DEF y, n
      <4>3. y - 1900 = IF v < 70 THEN v + 100 ELSE v  BY <4>1, <4>2
      <4> QED  BY <3>3, <4>1, <4>3 DEF SinceBase, TM_YEAR_BASE
    <3> QED  BY <3>1, <3>2, <3>3
  <2>2. YearTm(field, v) = Tm(y - TM_YEAR_BASE, 0, 1, 0, 0)  BY Zenon DEF YearTm
  <2> HIDE DEF y
  <2> QED  BY <2>1, <2>2
<1> HIDE DEF n
<1>4. SinceBase(n) \in Int  BY <1>2 DEF SinceBase, TM_YEAR_BASE
<1> QED  BY <1>1, <1>2, <1>3, <1>4 DEF n

\* A YEAR is stored as the time of that day and reads as the year.
LEMMA YearStored ==
    ASSUME Column, field.type = "YEAR", NEW v \in Samples(field), ~Shifted(field, v)
    PROVE  /\ Stored(v) = GRN_TIME_PACK(Clock(Tm(SinceBase(YearOf(v)), 0, 1, 0, 0)), 0)
           /\ Stored(v) \in Int
           /\ Read(v) = YearOf(v)
<1> USE DEF IntegerTypes, UnsignedTypes, Floats, Timestamps, Times, Datetimes, Texts
<1> DEFINE n == YearOf(v)  x == SinceBase(n)  tm == Tm(x, 0, 1, 0, 0)  s == Clock(tm)
           g == Stored(v)  u == gmtime(GRN_TIME_UNPACK(g).sec)
<1>1. /\ field.length \in {2, 4} /\ n \in Nat /\ (field.length = 2 => n < 100) /\ x \in Int
      /\ YearTm(field, v) = tm
  BY YearValue
<1>2. IsTm(tm)
  <2>1. 0 \in 0 .. SecPerHour - 1  BY ClockFacts
  <2> HIDE DEF x
  <2> QED  BY <1>1, <2>1 DEF IsTm, Tm
<1>3. ~InGap(zone, s)  BY <1>1 DEF Shifted
<1>4. IsZone(zone)  BY FieldFacts
<1>5. g = tm_to_grn_time(zone, tm, 0)
  BY <1>1 DEF Stored, SkipsNull, generic_store_bulk, generic_store_bulk_year, Sound, Bulk
<1>6. Read(v) = LET year == grn_time_to_mysql_time("DATE", g).year
                IN  IF field.length = 2 THEN year % 100 ELSE year
  BY DEF Read, storage_store_field, storage_store_field_year
<1>7. tm.year = x  BY DEF Tm
<1>8. x + TM_YEAR_BASE = IF field.length = 2 THEN IF n < 70 THEN n + 2000 ELSE n + 1900 ELSE n
  BY <1>1 DEF SinceBase, TM_YEAR_BASE
<1> HIDE DEF n, x, tm
<1>9. tm_to_time_gm(zone, tm) = s  BY <1>2, <1>3, <1>4, TmToTimeGm
<1>10. s \in Int /\ gmtime(s) = tm  BY <1>2, GmtimeClock
<1> HIDE DEF s, g
<1>11. g = GRN_TIME_PACK(s, 0)  BY <1>5, <1>9 DEF tm_to_grn_time
<1>12. GRN_TIME_UNPACK(g) = [sec |-> s, usec |-> 0]
  <2>1. 0 \in 0 .. UsecPerSec - 1  BY UsecFacts
  <2> QED  BY <1>10, <1>11, <2>1, UnpackPack
<1>13. u = tm
  <2>1. GRN_TIME_UNPACK(g).sec = s  BY <1>12
  <2> QED  BY <1>10, <2>1
<1>14. grn_time_to_mysql_time("DATE", g).year = u.year + TM_YEAR_BASE
  BY DEF grn_time_to_mysql_time, MysqlTime
<1> HIDE DEF u
<1>15. Read(v) = n
  <2>1. Read(v) = IF field.length = 2 THEN (x + TM_YEAR_BASE) % 100 ELSE x + TM_YEAR_BASE
    BY <1>6, <1>7, <1>13, <1>14
  <2>2. CASE field.length = 2
    <3>1. (n + 2000) % 100 = n /\ (n + 1900) % 100 = n  BY <1>1, <2>2
    <3> QED  BY <1>8, <2>1, <2>2, <3>1
  <2>3. CASE field.length # 2  BY <1>8, <2>1, <2>3
  <2> QED  BY <2>2, <2>3
<1>16. g \in Int  BY <1>10, <1>11, PackInt
<1> QED  BY <1>11, <1>15, <1>16 DEF g, s, tm, x, n

\* A lookup finds the YEARs that read as the value looked up, and no others.
LEMMA YearLookUp ==
    ASSUME Column, field.type = "YEAR", NEW v \in Samples(field), ~Shifted(field, v),
           NEW u \in Samples(field), u # Null, ~LookupDiffers(field, u)
    PROVE  Stored(v) = storage_encode_key(field, u) <=> Read(v) = u
<1> USE DEF IntegerTypes, UnsignedTypes, Floats, Timestamps, Times, Datetimes, Texts
<1>1. ~Shifted(field, u) /\ ~(field.length = 4 /\ u = 0)  BY DEF LookupDiffers, Skipped
<1>2. YearOf(u) = u  BY DEF YearOf
<1>3. Read(u) = u /\ Read(v) = YearOf(v)  BY <1>1, <1>2, YearStored
<1>4. field.length \in {2, 4} /\ u \in Nat  BY <1>2, YearValue
<1>5. YearByte(field, u) = SinceBase(u)
  <2>1. CASE field.length = 2
    <3>1. YearByte(field, u) = IF u < 70 THEN u + 100 ELSE u  BY <2>1 DEF YearByte
    <3> QED  BY <1>4, <2>1, <3>1 DEF SinceBase, TM_YEAR_BASE
  <2>2. CASE field.length = 4
    <3>1. YearByte(field, u) = u - 1900  BY <1>1, <2>2 DEF YearByte
    <3> QED  BY <2>2, <3>1 DEF SinceBase, TM_YEAR_BASE
  <2> QED  BY <1>4, <2>1, <2>2
<1>6. storage_encode_key(field, u) = tm_to_grn_time(zone, Tm(YearByte(field, u), 0, 1, 0, 0), 0)
  BY DEF storage_encode_key, storage_encode_key_year
<1>7. Stored(u) = tm_to_grn_time(zone, YearTm(field, u), 0)
  BY DEF Stored, SkipsNull, generic_store_bulk, generic_store_bulk_year, Sound, Bulk
<1>8. storage_encode_key(field, u) = Stored(u)  BY <1>2, <1>5, <1>6, <1>7, YearValue
<1>9. Stored(v) = Stored(u) => Read(v) = Read(u)  BY DEF Read
<1>10. Read(v) = u => Stored(v) = Stored(u)
  <2>1. Stored(v) = GRN_TIME_PACK(Clock(Tm(SinceBase(YearOf(v)), 0, 1, 0, 0)), 0)
        /\ Stored(u) = GRN_TIME_PACK(Clock(Tm(SinceBase(YearOf(u)), 0, 1, 0, 0)), 0)
    BY <1>1, YearStored
  <2> QED  BY <1>2, <1>3, <2>1
<1> QED  BY <1>3, <1>8, <1>9, <1>10

\* The first seconds of two years are ordered as the years.
LEMMA YearClockOrder ==
    ASSUME NEW x \in Int, NEW y \in Int
    PROVE  Clock(Tm(x, 0, 1, 0, 0)) \in Int /\ Clock(Tm(y, 0, 1, 0, 0)) \in Int
           /\ (Clock(Tm(x, 0, 1, 0, 0)) < Clock(Tm(y, 0, 1, 0, 0)) <=> x < y)
<1> DEFINE k == SecPerDay  D(z) == ((z + TM_YEAR_BASE - 1970) * 12 + 0) * 30 + 1 - 1
<1>1. k \in Nat \ {0} /\ SecPerHour \in Nat  BY ClockFacts DEF SecPerDay
<1>2. ASSUME NEW z \in Int PROVE Clock(Tm(z, 0, 1, 0, 0)) = D(z) * k /\ D(z) \in Int
  <2> DEFINE t == Tm(z, 0, 1, 0, 0)
  <2>0. t.year = z /\ t.mon = 0 /\ t.mday = 1 /\ t.hour = 0 /\ t.sec = 0  BY DEF Tm
  <2> HIDE DEF t
  <2>1. Clock(t) = D(z) * k + 0 * SecPerHour + 0  BY <2>0 DEF Clock
  <2>2. D(z) \in Int  BY <1>2 DEF TM_YEAR_BASE
  <2> HIDE DEF D, k
  <2>3. D(z) * k \in Int /\ 0 * SecPerHour = 0  BY <1>1, <2>2
  <2> DEFINE X == D(z) * k
  <2> HIDE DEF X
  <2>4. X + 0 * SecPerHour + 0 = X /\ X \in Int  BY <2>3 DEF X
  <2> QED  BY <2>1, <2>2, <2>4 DEF X, t
<1>3. D(x) < D(y) <=> x < y  BY DEF TM_YEAR_BASE
<1> DEFINE a == D(x)  b == D(y)
<1>4. a \in Int /\ b \in Int /\ Clock(Tm(x, 0, 1, 0, 0)) = a * k /\ Clock(Tm(y, 0, 1, 0, 0)) = b * k
  BY <1>2
<1>5. a < b <=> x < y  BY <1>3
<1> HIDE DEF a, b, k, D
<1>6. a * k < b * k <=> a < b  BY <1>1, <1>4, FactorOrder
<1>7. a * k \in Int /\ b * k \in Int  BY <1>1, <1>4
<1> QED  BY <1>4, <1>5, <1>6, <1>7

\* Groonga orders the stored YEARs as the server does.
LEMMA YearKeyOrder ==
    ASSUME Column, field.type = "YEAR", NEW v \in Samples(field), ~Shifted(field, v),
           NEW w \in Samples(field), ~Shifted(field, w)
    PROVE  GrnLess(field, Stored(v), Stored(w)) <=> SqlLess(field, Read(v), Read(w))
<1> USE DEF IntegerTypes, UnsignedTypes, Floats, Timestamps, Times, Datetimes, Texts
<1> DEFINE a == YearOf(v)  b == YearOf(w)  x == SinceBase(a)  y == SinceBase(b)
<1>1. /\ a \in Nat /\ b \in Nat /\ field.length \in {2, 4} /\ x \in Int /\ y \in Int
      /\ field.length = 4 => (a = 0 \/ a > TM_YEAR_BASE) /\ (b = 0 \/ b > TM_YEAR_BASE)
  BY YearValue
<1>2. /\ Stored(v) = GRN_TIME_PACK(Clock(Tm(x, 0, 1, 0, 0)), 0) /\ Read(v) = a
      /\ Stored(w) = GRN_TIME_PACK(Clock(Tm(y, 0, 1, 0, 0)), 0) /\ Read(w) = b
  BY YearStored
<1>3. SqlRank(field, a) = YearByte(field, a) /\ SqlRank(field, b) = YearByte(field, b)
  <2> HIDE DEF a, b
  <2> QED  BY DEF SqlRank, Dated
<1>4. YearByte(field, a) < YearByte(field, b) <=> x < y
  <2> HIDE DEF a, b
  <2>1. CASE field.length = 2
    <3>1. YearByte(field, a) = (IF a < 70 THEN a + 100 ELSE a)
          /\ YearByte(field, b) = (IF b < 70 THEN b + 100 ELSE b)
      BY <2>1 DEF YearByte
    <3>2. x = (IF a < 70 THEN a + 100 ELSE a) /\ y = (IF b < 70 THEN b + 100 ELSE b)
      BY <2>1 DEF SinceBase
    <3> HIDE DEF x, y
    <3> QED  BY <1>1, <3>1, <3>2
  <2>2. CASE field.length = 4
    <3>1. YearByte(field, a) = (IF a = 0 THEN 0 ELSE a - 1900)
          /\ YearByte(field, b) = (IF b = 0 THEN 0 ELSE b - 1900)
      BY <2>2 DEF YearByte
    <3>2. x = a - 1900 /\ y = b - 1900  BY <2>2 DEF SinceBase, TM_YEAR_BASE
    <3> HIDE DEF x, y
    <3> QED  BY <1>1, <2>2, <3>1, <3>2 DEF TM_YEAR_BASE
  <2> QED  BY <1>1, <2>1, <2>2
<1> HIDE DEF a, b, x, y
<1>5. Stored(v) < Stored(w) <=> x < y
  <2> DEFINE s == Clock(Tm(x, 0, 1, 0, 0))  t == Clock(Tm(y, 0, 1, 0, 0))
  <2>1. s \in Int /\ t \in Int /\ (s < t <=> x < y)  BY <1>1, YearClockOrder
  <2> HIDE DEF s, t
  <2>2. GRN_TIME_PACK(s, 0) < GRN_TIME_PACK(t, 0) <=> s < t  BY <2>1, PackOrder
  <2> QED  BY <1>2, <2>1, <2>2 DEF s, t
<1>6. SqlLess(field, Read(v), Read(w)) <=> x < y
  <2>1. SqlLess(field, a, b) <=> SqlRank(field, a) < SqlRank(field, b)  BY RankLess
  <2> QED  BY <1>2, <1>3, <1>4, <2>1
<1>7. field.type \in TimeTypes  BY DEF TimeTypes
<1> QED  BY <1>5, <1>6, <1>7, TimeLess

-----------------------------------------------------------------------------
(* Texts. *)

\* The bytes of a text.
TextBytes == Seq(1 .. MaxByte)
TextOf(v) == IF v = Null THEN <<>> ELSE v

\* A text is a sequence of bytes other than NUL.
LEMMA TextFacts ==
    ASSUME NEW b \in TextBytes
    PROVE  /\ b \in Seq(Int) /\ Len(b) \in Nat /\ DOMAIN b = 1 .. Len(b)
           /\ \A i \in 1 .. Len(b) : b[i] \in Int /\ b[i] >= 1 /\ b[i] <= MaxByte
<1>1. b \in Seq(1 .. MaxByte)  BY DEF TextBytes
<1>2. Len(b) \in Nat /\ DOMAIN b = 1 .. Len(b)  BY <1>1
<1>3. ASSUME NEW i \in 1 .. Len(b) PROVE b[i] \in Int /\ b[i] >= 1 /\ b[i] <= MaxByte
  <2>1. b[i] \in 1 .. MaxByte  BY <1>1, ElementOfSeq
  <2> QED  BY <2>1, BaseFacts
<1>4. b \in Seq(Int)
  <2>1. b = [i \in 1 .. Len(b) |-> b[i]]  BY <1>1
  <2>2. [i \in 1 .. Len(b) |-> b[i]] \in Seq(Int)  BY <1>2, <1>3
  <2> QED  BY <2>1, <2>2
<1> QED  BY <1>2, <1>3, <1>4

\* A text fits into its column, and a CHAR does not end in a space.
LEMMA TextValue ==
    ASSUME Column, field.type \in Texts, NEW v \in Samples(field)
    PROVE  /\ field.length \in Nat /\ TextOf(v) \in TextBytes /\ Len(TextOf(v)) <= field.length
           /\ field.type = "STRING" /\ TextOf(v) # <<>> => TextOf(v)[Len(TextOf(v))] # Space
<1> USE DEF IntegerTypes, UnsignedTypes, Floats, Timestamps, Times, Datetimes, Texts
<1>1. field.length \in Nat  BY FieldFacts DEF IsField
<1>2. CASE v = Null
  <2>1. <<>> \in TextBytes /\ Len(<<>>) = 0  BY EmptySeq DEF TextBytes
  <2> QED  BY <1>1, <1>2, <2>1 DEF TextOf
<1>3. CASE v # Null
  <2>1. v \in SqlValues(field)  BY <1>3, SampleFacts
  <2>2. CASE field.type = "STRING"
    <3>1. v \in {b \in Seq(1 .. MaxByte) :
                    Len(b) <= field.length /\ (b # <<>> => b[Len(b)] # Space)}
      BY <2>1, <2>2 DEF SqlValues
    <3> QED  BY <1>1, <1>3, <3>1 DEF TextOf, TextBytes
  <2>3. CASE field.type # "STRING"
    <3>1. v \in {b \in Seq(1 .. MaxByte) : Len(b) <= field.length}
      BY <2>1, <2>3 DEF SqlValues
    <3> QED  BY <1>1, <1>3, <2>3, <3>1 DEF TextOf, TextBytes
  <2> QED  BY <2>2, <2>3
<1> QED  BY <1>2, <1>3

\* The greatest and the least of the positions that have a property.
LEMMA LastOf ==
    ASSUME NEW D \in SUBSET Int, NEW m \in D, \A j \in D : j <= m
    PROVE  (CHOOSE i \in D : \A j \in D : j <= i) = m
<1>1. \A i \in D : (\A j \in D : j <= i) => i = m  OBVIOUS
<1> QED  BY <1>1

\* The least element of a set is the one chosen.
LEMMA FirstOf ==
    ASSUME NEW D \in SUBSET Int, NEW m \in D, \A j \in D : m <= j
    PROVE  (CHOOSE i \in D : \A j \in D : i <= j) = m
<1>1. \A i \in D : (\A j \in D : i <= j) => i = m  OBVIOUS
<1> QED  BY <1>1

\* A text filled up with a byte is a text again.
LEMMA PadText ==
    ASSUME NEW n \in Nat, NEW b \in TextBytes, Len(b) <= n, NEW x \in 1 .. MaxByte
    PROVE  /\ Pad(b, n, x) \in TextBytes /\ Len(Pad(b, n, x)) = n
           /\ \A i \in 1 .. Len(b) : Pad(b, n, x)[i] = b[i]
           /\ \A i \in Len(b) + 1 .. n : Pad(b, n, x)[i] = x
<1> DEFINE p == Pad(b, n, x)
<1>1. x \in Int /\ b \in Seq(Int) /\ Len(b) \in Nat  BY TextFacts, BaseFacts
<1>2. /\ p \in Seq(Int) /\ Len(p) = n
      /\ \A i \in 1 .. Len(b) : p[i] = b[i]
      /\ \A i \in Len(b) + 1 .. n : p[i] = x
  BY <1>1, PadAt
<1> HIDE DEF p
<1>3. ASSUME NEW i \in 1 .. n PROVE p[i] \in 1 .. MaxByte
  <2>1. CASE i \in 1 .. Len(b)
    <3>1. b[i] \in Int /\ b[i] >= 1 /\ b[i] <= MaxByte  BY <2>1, TextFacts
    <3> QED  BY <1>2, <2>1, <3>1, BaseFacts
  <2>2. CASE i \in Len(b) + 1 .. n  BY <1>2, <2>2
  <2>3. i \in 1 .. Len(b) \/ i \in Len(b) + 1 .. n  BY <1>1, <1>3
  <2> QED  BY <2>1, <2>2, <2>3
<1>4. p \in TextBytes
  <2>1. p = [i \in 1 .. n |-> p[i]]  BY <1>2
  <2>2. [i \in 1 .. n |-> p[i]] \in Seq(1 .. MaxByte)  BY <1>3
  <2> QED  BY <2>1, <2>2 DEF TextBytes
<1> QED  BY <1>2, <1>4 DEF p

\* The space and the highest byte are two different bytes of a text.
LEMMA SpaceFacts == Space \in 1 .. MaxByte /\ Space # MaxByte /\ MaxByte \in 1 .. MaxByte
BY SpaceAssumption, BaseFacts

\* The server takes off what fill-up has added.
LEMMA UnpaddedPad ==
    ASSUME NEW n \in Nat, NEW b \in TextBytes, Len(b) <= n, b # <<>> => b[Len(b)] # Space
    PROVE  Unpadded(Pad(b, n, Space)) = b
<1> DEFINE p == Pad(b, n, Space)  D == {i \in DOMAIN p : p[i] # Space}  m == Len(b)
<1>1. /\ p \in TextBytes /\ Len(p) = n /\ m \in Nat
      /\ \A i \in 1 .. m : p[i] = b[i]
      /\ \A i \in m + 1 .. n : p[i] = Space
  BY PadText, SpaceFacts, TextFacts
<1>2. DOMAIN p = 1 .. n  BY <1>1, TextFacts
<1>3. Unpadded(p) = IF D = {} THEN <<>>
                    ELSE SubSeq(p, 1, CHOOSE i \in D : \A j \in D : j <= i)
  BY DEF Unpadded
<1> HIDE DEF p
<1>4. \A i \in D : i \in 1 .. m  BY <1>1, <1>2
<1>5. CASE m = 0
  <2>1. D = {}  BY <1>4, <1>5
  <2>2. b = <<>>  BY <1>5 DEF TextBytes
  <2> QED  BY <1>3, <2>1, <2>2 DEF p
<1>6. CASE m # 0
  <2>1. b # <<>>  BY <1>6
  <2>2. m \in D  BY <1>1, <1>2, <1>6, <2>1
  <2>3. D \in SUBSET Int /\ \A j \in D : j <= m  BY <1>1, <1>4
  <2> HIDE DEF D
  <2>4. (CHOOSE i \in D : \A j \in D : j <= i) = m  BY <2>2, <2>3, LastOf
  <2>5. Unpadded(p) = SubSeq(p, 1, m)  BY <1>3, <2>2, <2>4
  <2>6. SubSeq(p, 1, m) = b
    <3>1. \A i \in 1 .. m : p[i] \in 1 .. MaxByte
      <4>1. p \in Seq(1 .. MaxByte)  BY <1>1 DEF TextBytes
      <4>2. m <= n  OBVIOUS
      <4>3. \A i \in 1 .. m : i \in 1 .. Len(p)  BY <1>1, <4>2
      <4> QED  BY <4>1, <4>3, ElementOfSeq
    <3>2. /\ SubSeq(p, 1, m) \in Seq(1 .. MaxByte) /\ Len(SubSeq(p, 1, m)) = m
          /\ \A i \in 1 .. m : SubSeq(p, 1, m)[i] = p[i]
      BY <1>1, <1>6, <3>1, SubSeqProperties
    <3>3. b \in Seq(1 .. MaxByte)  BY DEF TextBytes
    <3> QED  BY <1>1, <3>2, <3>3, SeqEqual
  <2> QED  BY <2>5, <2>6 DEF p
<1> QED  BY <1>5, <1>6

\* CHAR: filled up with spaces.
LEMMA StringStored ==
    ASSUME Column, field.type = "STRING", NEW v \in Samples(field)
    PROVE  /\ Stored(v) = Pad(TextOf(v), field.length, Space)
           /\ Stored(v) \in TextBytes
           /\ Read(v) = TextOf(v)
<1> USE DEF IntegerTypes, UnsignedTypes, Floats, Timestamps, Times, Datetimes, Texts
<1> DEFINE b == TextOf(v)  n == field.length
<1>1. /\ n \in Nat /\ b \in TextBytes /\ Len(b) <= n
      /\ b # <<>> => b[Len(b)] # Space
  BY TextValue
<1>2. Stored(v) = Pad(b, n, Space)
  BY DEF Stored, SkipsNull, generic_store_bulk, generic_store_bulk_fixed_size_string, Sound, Bulk,
         TextOf
<1>3. Read(v) = Unpadded(Stored(v))  BY DEF Read, storage_store_field, storage_store_field_string
<1> HIDE DEF b, n
<1>4. Pad(b, n, Space) \in TextBytes  BY <1>1, PadText, SpaceFacts
<1>5. Unpadded(Pad(b, n, Space)) = b  BY <1>1, UnpaddedPad
<1> QED  BY <1>2, <1>3, <1>4, <1>5 DEF b, n

\* A lookup finds the CHARs that read as the value looked up, and no others.
LEMMA StringLookUp ==
    ASSUME Column, field.type = "STRING", NEW v \in Samples(field), NEW u \in Samples(field),
           u # Null
    PROVE  Stored(v) = storage_encode_key(field, u) <=> Read(v) = u
<1> USE DEF IntegerTypes, UnsignedTypes, Floats, Timestamps, Times, Datetimes, Texts
<1>1. storage_encode_key(field, u) = Pad(u, field.length, Space)
  BY DEF storage_encode_key, storage_encode_key_fixed_size_string
<1>2. TextOf(u) = u  BY DEF TextOf
<1>3. storage_encode_key(field, u) = Stored(u) /\ Read(u) = u  BY <1>1, <1>2, StringStored
<1>4. Stored(v) = Stored(u) => Read(v) = Read(u)  BY DEF Read
<1>5. Read(v) = u => Stored(v) = Stored(u)  BY <1>2, StringStored
<1> QED  BY <1>3, <1>4, <1>5

\* Groonga orders the stored CHARs as the server does.
LEMMA StringKeyOrder ==
    ASSUME Column, field.type = "STRING", NEW v \in Samples(field), NEW w \in Samples(field)
    PROVE  GrnLess(field, Stored(v), Stored(w)) <=> SqlLess(field, Read(v), Read(w))
<1> USE DEF IntegerTypes, UnsignedTypes, Floats, Timestamps, Times, Datetimes, Texts
<1>1. GrnLess(field, Stored(v), Stored(w)) <=> ByteLess(Stored(v), Stored(w))
  BY DEF GrnLess, mrn_grn_type_from_field
<1>2. SqlLess(field, Read(v), Read(w))
         <=> ByteLess(Pad(Read(v), field.length, Space), Pad(Read(w), field.length, Space))
  BY DEF SqlLess
<1> QED  BY <1>1, <1>2, StringStored

\* The codec keeps the order of CHAR columns.
LEMMA StringCodec ==
    ASSUME Column, field.type = "STRING", NEW v \in Samples(field), v # Null,
           NEW w \in Samples(field), w # Null
    PROVE  ByteLess(Encoded(v), Encoded(w)) <=> SqlLess(field, v, w)
<1> USE DEF IntegerTypes, UnsignedTypes, Floats, Timestamps, Times, Datetimes, Texts
<1> DEFINE x == KeyImage(field, v)  y == KeyImage(field, w)  part == KeyPart(field)
           pre == IF field.nullable THEN <<0>> ELSE <<>>
<1>1. part.type = "BYTE_SEQUENCE" /\ part.nullable = field.nullable
  BY DEF KeyPart, get_key_info
<1>2. x = Pad(v, field.length, Space) /\ y = Pad(w, field.length, Space)  BY DEF KeyImage
<1>3. TextOf(v) = v /\ TextOf(w) = w  BY DEF TextOf
<1>4. x \in Seq(Int) /\ y \in Seq(Int)
  <2>1. x \in TextBytes /\ y \in TextBytes  BY <1>2, <1>3, StringStored
  <2> QED  BY <2>1, TextFacts
<1>5. SqlLess(field, v, w) <=> ByteLess(x, y)  BY <1>2 DEF SqlLess
<1>6. Encoded(v) = EncodePart(part, x) /\ Encoded(w) = EncodePart(part, y)  BY EncodedIs
<1> HIDE DEF x, y, part
<1>7. x # Null /\ y # Null  BY <1>4, NullAssumption
<1>8. Encoded(v) = pre \o x /\ Encoded(w) = pre \o y  BY <1>1, <1>6, <1>7 DEF EncodePart
<1>9. field.nullable \in BOOLEAN  BY FieldFacts DEF IsField
<1>10. ByteLess(pre \o x, pre \o y) <=> ByteLess(x, y)  BY <1>4, <1>9, NullableOrder
<1> QED  BY <1>5, <1>8, <1>10

\* VARCHAR, BLOB, DECIMAL and JSON: the bytes as they are.
LEMMA BytesStored ==
    ASSUME Column, field.type \in Texts \ {"STRING"}, NEW v \in Samples(field)
    PROVE  Stored(v) = TextOf(v) /\ Read(v) = TextOf(v) /\ Stored(v) \in TextBytes
<1> USE DEF IntegerTypes, UnsignedTypes, Floats, Timestamps, Times, Datetimes, Texts
<1>1. TextOf(v) \in TextBytes  BY TextValue
<1>2. Stored(v) = TextOf(v)
  <2>1. CASE v = Null /\ SkipsNull(field)
    BY <2>1 DEF Stored, GrnDefault, mrn_grn_type_from_field, TextOf
  <2>2. CASE ~(v = Null /\ SkipsNull(field))
    BY <2>2 DEF Stored, SkipsNull, generic_store_bulk, generic_store_bulk_variable_size_string,
                generic_store_bulk_new_decimal, Sound, Bulk, TextOf
  <2> QED  BY <2>1, <2>2
<1>3. Read(v) = Stored(v)  BY DEF Read, storage_store_field, storage_store_field_string
<1> QED  BY <1>1, <1>2, <1>3

\* A key that does not end in the least character stays as it is.
LEMMA NormalizedSame ==
    ASSUME NEW b \in TextBytes, Len(b) <= 1 \/ b[Len(b)] # Space
    PROVE  storage_encode_key_normalize_min_sort_chars(b) = b
<1> DEFINE D == {i \in DOMAIN b : b[i] # Space}  n == Len(b)
           last == IF D = {} THEN 1 ELSE CHOOSE i \in D : \A j \in D : j <= i
<1>1. n \in Nat /\ DOMAIN b = 1 .. n /\ b = [i \in 1 .. n |-> b[i]]
  BY TextFacts DEF TextBytes
<1>2. storage_encode_key_normalize_min_sort_chars(b) = [i \in 1 .. n |-> IF i > last THEN 0 ELSE b[i]]
  BY <1>1 DEF storage_encode_key_normalize_min_sort_chars
<1>3. \A i \in 1 .. n : ~(i > last)
  <2>1. D \in SUBSET Int /\ \A j \in D : j <= n  BY <1>1
  <2>2. CASE n \in D
    <3> DEFINE max == CHOOSE i \in D : \A j \in D : j <= i
    <3>1. last = max
      <4> HIDE DEF D
      <4> QED  BY <2>2
    <3>2. max = n
      <4> HIDE DEF D
      <4> QED  BY <2>1, <2>2, LastOf
    <3> HIDE DEF max, last
    <3> QED  BY <1>1, <3>1, <3>2
  <2>3. CASE n \notin D
    <3>1. n = 0 \/ n = 1  BY <1>1, <2>3
    <3>2. CASE n = 0  BY <3>2
    <3>3. CASE n = 1
      <4>1. D = {}  BY <1>1, <2>3, <3>3
      <4> QED  BY <3>3, <4>1
    <3> QED  BY <3>1, <3>2, <3>3
  <2> QED  BY <2>2, <2>3
<1> HIDE DEF last, n
<1>4. [i \in 1 .. n |-> IF i > last THEN 0 ELSE b[i]] = [i \in 1 .. n |-> b[i]]  BY <1>3
<1> QED  BY <1>1, <1>2, <1>4

\* A lookup finds the texts that read as the value looked up, and no others.
LEMMA BytesLookUp ==
    ASSUME Column, field.type \in {"VARCHAR", "BLOB"}, NEW v \in Samples(field),
           NEW u \in Samples(field), u # Null, ~LookupDiffers(field, u)
    PROVE  Stored(v) = storage_encode_key(field, u) <=> Read(v) = u
<1> USE DEF IntegerTypes, UnsignedTypes, Floats, Timestamps, Times, Datetimes, Texts
<1>1. storage_encode_key(field, u) = storage_encode_key_normalize_min_sort_chars(u)
  BY DEF storage_encode_key, storage_encode_key_variable_size_string
<1>2. u \in TextBytes  BY TextValue DEF TextOf
<1>3. ~(Len(u) > 1 /\ u[Len(u)] = Space)  BY DEF LookupDiffers, EndsInSpace
<1>4. Len(u) <= 1 \/ u[Len(u)] # Space  BY <1>2, <1>3, TextFacts
<1>5. storage_encode_key(field, u) = u  BY <1>1, <1>2, <1>4, NormalizedSame
<1> QED  BY <1>5, BytesStored

\* Groonga orders the stored texts as the server does.
LEMMA BytesKeyOrder ==
    ASSUME Column, field.type \in {"VARCHAR", "BLOB"}, NEW v \in Samples(field),
           NEW w \in Samples(field)
    PROVE  GrnLess(field, Stored(v), Stored(w)) <=> SqlLess(field, Read(v), Read(w))
<1> USE DEF IntegerTypes, UnsignedTypes, Floats, Timestamps, Times, Datetimes, Texts
<1>1. GrnLess(field, Stored(v), Stored(w)) <=> ByteLess(Stored(v), Stored(w))
  BY DEF GrnLess, mrn_grn_type_from_field
<1>2. SqlLess(field, Read(v), Read(w)) <=> ByteLess(Read(v), Read(w))  BY DEF SqlLess
<1> QED  BY <1>1, <1>2, BytesStored

\* The codec keeps the order of VARCHAR and BLOB columns.
LEMMA BytesCodec ==
    ASSUME Column, field.type \in {"VARCHAR", "BLOB"}, NEW v \in Samples(field), v # Null,
           NEW w \in Samples(field), w # Null
    PROVE  ByteLess(Encoded(v), Encoded(w)) <=> SqlLess(field, v, w)
<1> USE DEF IntegerTypes, UnsignedTypes, Floats, Timestamps, Times, Datetimes, Texts
<1> DEFINE part == KeyPart(field)  n == field.length
           pre == IF field.nullable THEN <<0>> ELSE <<>>
<1>1. part.type = "BYTE_BLOB" /\ part.nullable = field.nullable /\ part.size = n
  BY DEF KeyPart, get_key_info
<1>2. KeyImage(field, v) = v /\ KeyImage(field, w) = w  BY DEF KeyImage
<1>3. n \in Nat /\ v \in TextBytes /\ Len(v) <= n /\ w \in TextBytes /\ Len(w) <= n
  BY TextValue DEF TextOf
<1>4. Encoded(v) = EncodePart(part, v) /\ Encoded(w) = EncodePart(part, w)  BY <1>2, EncodedIs
<1>5. SqlLess(field, v, w) <=> ByteLess(v, w)  BY DEF SqlLess
<1> HIDE DEF n, part
<1>6. Encoded(v) = pre \o encode_blob(v, n) /\ Encoded(w) = pre \o encode_blob(w, n)
  BY <1>1, <1>4 DEF EncodePart
<1>7. ASSUME NEW u \in TextBytes, Len(u) <= n PROVE encode_blob(u, n) \in Seq(Int)
  <2>1. u \in Seq(Int) /\ Len(u) \in Int  BY TextFacts
  <2>2. Pad(u, n, 0) \in Seq(Int)  BY <1>3, <1>7, <2>1, PadAt
  <2>3. BlobLength \in 0 .. 8  BY BlobAssumption
  <2>4. HostBytes(Len(u), BlobLength) \in Seq(Int)  BY <2>1, <2>3, HostBytesAt
  <2> QED  BY <2>2, <2>4, ConcatProperties DEF encode_blob
<1>8. encode_blob(v, n) \in Seq(Int) /\ encode_blob(w, n) \in Seq(Int)  BY <1>3, <1>7
<1>9. field.nullable \in BOOLEAN  BY FieldFacts DEF IsField
<1>10. ByteLess(pre \o encode_blob(v, n), pre \o encode_blob(w, n))
           <=> ByteLess(encode_blob(v, n), encode_blob(w, n))
  BY <1>8, <1>9, NullableOrder
<1>11. ByteLess(encode_blob(v, n), encode_blob(w, n)) <=> ByteLess(v, w)
  BY <1>3, BlobOrder DEF TextBytes
<1> HIDE DEF pre
<1> QED  BY <1>5, <1>6, <1>10, <1>11

\* A text without the byte 0 is a key as it is.
LEMMA NormalizedKeySame ==
    ASSUME NEW b \in TextBytes
    PROVE  NormalizedKey(b) = b
<1>1. \A i \in DOMAIN b : b[i] # 0  BY TextFacts
<1>2. {i \in DOMAIN b : b[i] = 0} = {}  BY <1>1
<1> QED  BY <1>2 DEF NormalizedKey

\* The lower end of a LIKE range is the prefix, without the spaces the server
\* adds.
LEMMA PrefixMin ==
    ASSUME NEW p \in TextBytes, NEW n \in Nat, Len(p) \in 1 .. n, p[Len(p)] # Space
    PROVE  NormalizedKey(storage_encode_key_normalize_min_sort_chars(Pad(p, n, Space))) = p
<1> DEFINE m == Len(p)  b == Pad(p, n, Space)  D == {i \in DOMAIN b : b[i] # Space}
           c == [i \in 1 .. n |-> IF i > m THEN 0 ELSE b[i]]  Z == {i \in DOMAIN c : c[i] = 0}
<1>1. /\ b \in TextBytes /\ Len(b) = n /\ m \in 1 .. n /\ p[m] # Space
      /\ \A i \in 1 .. m : b[i] = p[i]
      /\ \A i \in m + 1 .. n : b[i] = Space
  <2>1. Len(p) <= n /\ Space \in 1 .. MaxByte  BY SpaceFacts
  <2> QED  BY <2>1, PadText
<1>2. DOMAIN b = 1 .. n  BY <1>1, TextFacts
<1>3. p \in Seq(1 .. MaxByte) /\ \A i \in 1 .. m : p[i] \in Int /\ p[i] >= 1
  BY TextFacts DEF TextBytes
<1>4. storage_encode_key_normalize_min_sort_chars(b)
        = [i \in DOMAIN b |-> IF i > (IF D = {} THEN 1 ELSE CHOOSE i_1 \in D : \A j \in D : j <= i_1)
                              THEN 0 ELSE b[i]]
  BY DEF storage_encode_key_normalize_min_sort_chars
<1> HIDE DEF b, m
<1>5. storage_encode_key_normalize_min_sort_chars(b) = c
  <2>1. m \in D /\ D \in SUBSET Int /\ \A j \in D : j <= m  BY <1>1, <1>2
  <2> HIDE DEF D
  <2>2. (CHOOSE i \in D : \A j \in D : j <= i) = m  BY <2>1, LastOf
  <2> QED  BY <1>2, <1>4, <2>1, <2>2
<1>6. NormalizedKey(c) = IF Z = {} THEN c
                         ELSE SubSeq(c, 1, (CHOOSE i \in Z : \A j \in Z : i <= j) - 1)
  BY DEF NormalizedKey
<1>7. DOMAIN c = 1 .. n /\ \A i \in 1 .. n : c[i] = IF i > m THEN 0 ELSE b[i]  OBVIOUS
<1>8. \A i \in 1 .. m : c[i] = p[i] /\ c[i] # 0  BY <1>1, <1>3, <1>7
<1> HIDE DEF c
<1>9. CASE m = n
  <2>1. Z = {}  BY <1>7, <1>8, <1>9
  <2>2. c = p
    <3>1. p = [i \in 1 .. m |-> p[i]]  BY <1>3 DEF m
    <3>2. c = [i \in 1 .. n |-> c[i]]  BY <1>7 DEF c
    <3>3. [i \in 1 .. n |-> c[i]] = [i \in 1 .. m |-> p[i]]  BY <1>8, <1>9
    <3> QED  BY <3>1, <3>2, <3>3
  <2> QED  BY <1>5, <1>6, <2>1, <2>2 DEF b
<1>10. CASE m # n
  <2>1. m + 1 \in Z /\ Z \in SUBSET Int  BY <1>1, <1>7, <1>10
  <2>2. \A j \in Z : m + 1 <= j
    <3>1. ASSUME NEW j \in Z PROVE j \in Int /\ j >= 1 /\ j \notin 1 .. m  BY <1>7, <1>8
    <3> QED  BY <1>1, <3>1
  <2> HIDE DEF Z
  <2>3. (CHOOSE i \in Z : \A j \in Z : i <= j) = m + 1  BY <2>1, <2>2, FirstOf
  <2>4. NormalizedKey(c) = SubSeq(c, 1, m)
    <3>1. (m + 1) - 1 = m  BY <1>1
    <3> QED  BY <1>6, <2>1, <2>3, <3>1
  <2>5. SubSeq(c, 1, m) = p
    <3>1. \A i \in 1 .. m : c[i] \in 1 .. MaxByte
      <4>1. \A i \in 1 .. m : p[i] \in 1 .. MaxByte  BY <1>3, ElementOfSeq DEF m
      <4> QED  BY <1>8, <4>1
    <3>2. /\ SubSeq(c, 1, m) \in Seq(1 .. MaxByte) /\ Len(SubSeq(c, 1, m)) = m
          /\ \A i \in 1 .. m : SubSeq(c, 1, m)[i] = c[i]
      BY <1>1, <3>1, SubSeqProperties
    <3> QED  BY <1>3, <1>8, <3>2, SeqEqual DEF m
  <2> QED  BY <1>5, <2>4, <2>5 DEF b
<1> QED  BY <1>9, <1>10

\* The upper end of a LIKE range keeps the highest bytes the server adds.
LEMMA PrefixMax ==
    ASSUME NEW p \in TextBytes, NEW n \in Nat, Len(p) \in 1 .. n, p[Len(p)] # Space
    PROVE  NormalizedKey(storage_encode_key_normalize_min_sort_chars(Pad(p, n, MaxByte)))
               = Pad(p, n, MaxByte)
<1> DEFINE m == Len(p)  b == Pad(p, n, MaxByte)
<1>1. /\ b \in TextBytes /\ Len(b) = n /\ m \in 1 .. n /\ p[m] # Space
      /\ \A i \in 1 .. m : b[i] = p[i]
      /\ \A i \in m + 1 .. n : b[i] = MaxByte
  <2>1. Len(p) <= n /\ MaxByte \in 1 .. MaxByte  BY SpaceFacts
  <2> QED  BY <2>1, PadText
<1> HIDE DEF b, m
<1>2. b[n] # Space
  <2>1. CASE m = n  BY <1>1, <2>1
  <2>2. CASE m # n
    <3>1. n \in m + 1 .. n  BY <1>1, <2>2
    <3> QED  BY <1>1, <3>1, SpaceFacts
  <2> QED  BY <2>1, <2>2
<1>3. storage_encode_key_normalize_min_sort_chars(b) = b  BY <1>1, <1>2, NormalizedSame
<1> QED  BY <1>1, <1>3, NormalizedKeySame DEF b

\* The texts from a prefix to the prefix filled up with the greatest byte are the
\* texts that begin with it.
LEMMA PrefixRange ==
    ASSUME NEW p \in TextBytes, NEW n \in Nat, Len(p) \in 1 .. n,
           NEW s \in TextBytes, Len(s) <= n
    PROVE  ByteLeq(p, s) /\ ByteLeq(s, Pad(p, n, MaxByte)) <=> IsPrefix(p, s)
<1> DEFINE m == Len(p)  l == Len(s)  b == Pad(p, n, MaxByte)
<1>1. /\ b \in TextBytes /\ Len(b) = n /\ m \in 1 .. n
      /\ \A i \in 1 .. m : b[i] = p[i]
      /\ \A i \in m + 1 .. n : b[i] = MaxByte
  <2>1. Len(p) <= n /\ MaxByte \in 1 .. MaxByte  BY SpaceFacts
  <2> QED  BY <2>1, PadText
<1>2. l \in Nat /\ l <= n /\ p \in Seq(1 .. MaxByte) /\ s \in Seq(1 .. MaxByte)
  BY TextFacts DEF TextBytes
<1>3. /\ \A i \in 1 .. m : p[i] \in Int
      /\ \A i \in 1 .. l : s[i] \in Int /\ s[i] <= MaxByte
  BY TextFacts
<1>4. IsPrefix(p, s) <=> m <= l /\ \A i \in 1 .. m : p[i] = s[i]
  <2>1. IsPrefix(p, s) <=> m <= l /\ SubSeq(p, 1, m) = SubSeq(s, 1, m)  BY DEF IsPrefix
  <2>2. SubSeq(p, 1, m) = p  BY <1>2, SubSeqFull
  <2>3. ASSUME m <= l
        PROVE  p = SubSeq(s, 1, m) <=> \A i \in 1 .. m : p[i] = s[i]
    <3>1. \A i \in 1 .. m : s[i] \in 1 .. MaxByte
      <4>1. \A i \in 1 .. m : i \in 1 .. l  BY <1>1, <1>2, <2>3
      <4> QED  BY <1>2, <4>1, ElementOfSeq
    <3>2. /\ SubSeq(s, 1, m) \in Seq(1 .. MaxByte) /\ Len(SubSeq(s, 1, m)) = m
          /\ \A i \in 1 .. m : SubSeq(s, 1, m)[i] = s[i]
      BY <1>1, <3>1, SubSeqProperties
    <3>3. (\A i \in 1 .. m : p[i] = s[i]) => p = SubSeq(s, 1, m)
      <4>1. HAVE \A i \in 1 .. m : p[i] = s[i]
      <4> QED  BY <1>2, <3>2, <4>1, SeqEqual
    <3> QED  BY <3>2, <3>3
  <2> QED  BY <2>1, <2>2, <2>3
<1> HIDE DEF b, m, l
<1>5. ASSUME m <= l, \A i \in 1 .. m : p[i] = s[i]
      PROVE  ByteLeq(p, s) /\ ByteLeq(s, b)
  <2>1. ByteLeq(p, s)
    <3>1. \A j \in 1 .. (IF m < l THEN m ELSE l) : p[j] = s[j]  BY <1>1, <1>2, <1>5
    <3>2. ByteLess(p, s) <=> m < l  BY <1>1, <1>2, <3>1, NoDifference DEF m, l
    <3>3. CASE m = l
      <4>1. p = s  BY <1>2, <1>5, <3>3, SeqEqual DEF m, l
      <4> QED  BY <4>1 DEF ByteLeq
    <3> QED  BY <1>1, <1>2, <1>5, <3>2, <3>3 DEF ByteLeq
  <2>2. ByteLeq(s, b)
    <3>1. CASE \E j \in 1 .. l : j \in 1 .. n /\ s[j] # b[j]
      <4>1. \E i \in Nat : DifferAt(s, b, i)  BY <1>1, <1>2, <3>1, DifferOrNot DEF l
      <4>2. PICK i \in Nat : DifferAt(s, b, i)  BY <4>1
      <4>3. i \in 1 .. l /\ i \in 1 .. n /\ s[i] # b[i]  BY <1>1, <4>2 DEF DifferAt, l
      <4>4. i \notin 1 .. m  BY <1>1, <1>5, <4>3
      <4>5. b[i] = MaxByte
        <5>1. i \in m + 1 .. n  BY <1>1, <4>3, <4>4
        <5> QED  BY <1>1, <5>1
      <4>6. s[i] < b[i]  BY <1>3, <4>3, <4>5, BaseFacts
      <4> QED  BY <4>2, <4>6, FirstDifference DEF ByteLeq
    <3>2. CASE ~\E j \in 1 .. l : j \in 1 .. n /\ s[j] # b[j]
      <4>1. \A j \in 1 .. (IF l < n THEN l ELSE n) : s[j] = b[j]  BY <1>2, <3>2
      <4>2. ByteLess(s, b) <=> l < n  BY <1>1, <1>2, <4>1, NoDifference DEF l
      <4>3. CASE l = n
        <5>1. b \in Seq(1 .. MaxByte) /\ \A j \in 1 .. l : s[j] = b[j]
          BY <1>1, <4>1, <4>3 DEF TextBytes
        <5>2. s = b  BY <1>1, <1>2, <4>3, <5>1, SeqEqual DEF l
        <5> QED  BY <5>2 DEF ByteLeq
      <4> QED  BY <1>2, <4>2, <4>3 DEF ByteLeq
    <3> QED  BY <3>1, <3>2
  <2> QED  BY <2>1, <2>2
<1>6. ASSUME ByteLeq(p, s), ByteLeq(s, b), ~(m <= l /\ \A i \in 1 .. m : p[i] = s[i])
      PROVE  FALSE
  <2>1. CASE \E j \in 1 .. m : j \in 1 .. l /\ p[j] # s[j]
    <3>1. \E i \in Nat : DifferAt(p, s, i)  BY <1>1, <1>2, <2>1, DifferOrNot DEF m, l
    <3>2. PICK i \in Nat : DifferAt(p, s, i)  BY <3>1
    <3>3. /\ i \in 1 .. m /\ i \in 1 .. l /\ p[i] # s[i]
          /\ \A j \in 1 .. i - 1 : p[j] = s[j]
      BY <3>2 DEF DifferAt, m, l
    <3>4. p[i] < s[i]
      <4>1. p # s  BY <3>3
      <4> QED  BY <1>6, <3>2, <4>1, FirstDifference DEF ByteLeq
    <3>5. b[i] = p[i] /\ \A j \in 1 .. i - 1 : b[j] = p[j]
      <4>1. \A j \in 1 .. i - 1 : j \in 1 .. m  BY <1>1, <3>3
      <4> QED  BY <1>1, <3>3, <4>1
    <3>6. DifferAt(s, b, i)
      <4>1. i \in 1 .. n  BY <1>1, <3>3
      <4> QED  BY <1>1, <1>2, <3>3, <3>5, <4>1 DEF DifferAt, l
    <3>7. s[i] < b[i]
      <4>1. s # b  BY <3>3, <3>5
      <4> QED  BY <1>6, <3>6, <4>1, FirstDifference DEF ByteLeq
    <3> QED  BY <1>3, <3>3, <3>4, <3>5, <3>7
  <2>2. CASE ~\E j \in 1 .. m : j \in 1 .. l /\ p[j] # s[j]
    <3>1. \A j \in 1 .. (IF m < l THEN m ELSE l) : p[j] = s[j]  BY <1>1, <1>2, <2>2
    <3>2. ByteLess(p, s) <=> m < l  BY <1>1, <1>2, <3>1, NoDifference DEF m, l
    <3>3. l < m
      <4>1. CASE m <= l
        <5>1. \A j \in 1 .. m : p[j] = s[j]  BY <1>1, <1>2, <3>1, <4>1
        <5> QED  BY <1>6, <4>1, <5>1
      <4> QED  BY <1>1, <1>2, <4>1
    <3>4. p # s  BY <1>1, <1>2, <3>3 DEF m, l
    <3> QED  BY <1>1, <1>2, <1>6, <3>2, <3>3, <3>4 DEF ByteLeq
  <2> QED  BY <2>1, <2>2
<1> QED  BY <1>4, <1>5, <1>6 DEF b

\* WHERE column LIKE 'p%': the range that is looked up.
LEMMA PrefixFinds ==
    ASSUME Column, field.type = "VARCHAR", NEW p \in LikePrefixes(field), NEW v \in Samples(field)
    PROVE  LET min == NormalizedKey(storage_encode_key_variable_size_string(Pad(p, field.length, Space)))
               max == NormalizedKey(storage_encode_key_variable_size_string(Pad(p, field.length, MaxByte)))
           IN  ByteLeq(min, Stored(v)) /\ ByteLeq(Stored(v), max) <=> IsPrefix(p, Read(v))
<1> USE DEF Texts
<1> DEFINE n == field.length  b == TextOf(v)
<1>1. n \in Nat /\ b \in TextBytes /\ Len(b) <= n  BY TextValue
<1>2. Stored(v) = b /\ Read(v) = b  BY BytesStored
<1>3. p \in TextBytes /\ Len(p) \in 1 .. n /\ p[Len(p)] # Space
  BY PrefixAssumption DEF TextBytes, Column
<1> HIDE DEF n, b
<1>4. NormalizedKey(storage_encode_key_variable_size_string(Pad(p, n, Space))) = p
  BY <1>1, <1>3, PrefixMin DEF storage_encode_key_variable_size_string
<1>5. NormalizedKey(storage_encode_key_variable_size_string(Pad(p, n, MaxByte))) = Pad(p, n, MaxByte)
  BY <1>1, <1>3, PrefixMax DEF storage_encode_key_variable_size_string
<1>6. ByteLeq(p, b) /\ ByteLeq(b, Pad(p, n, MaxByte)) <=> IsPrefix(p, b)
  BY <1>1, <1>3, PrefixRange
<1> QED  BY <1>2, <1>4, <1>5, <1>6 DEF n

-----------------------------------------------------------------------------
(* Geometries. *)

\* A coordinate is rounded to a millisecond of arc and reads as one half of it away.
LEMMA Rounded ==
    ASSUME NEW d \in Int
    PROVE  /\ GRN_GEO_DEGREE2MSEC(d) \in Int
           /\ Near(GRN_GEO_MSEC2DEGREE(GRN_GEO_DEGREE2MSEC(d)), d)
<1> USE DEF GRN_GEO_DEGREE2MSEC, GRN_GEO_MSEC2DEGREE, Near, Msec
<1>1. CASE d > 0
  <2> DEFINE q == (d + 2) \div 4
  <2>1. q \in Int /\ 4 * q <= d + 2 /\ d + 2 < 4 * q + 4  OBVIOUS
  <2>2. GRN_GEO_DEGREE2MSEC(d) = q  BY <1>1
  <2> HIDE DEF q
  <2>3. 2 * (q * 4 - d) <= 4 /\ 2 * (d - q * 4) <= 4  BY <2>1
  <2> QED  BY <2>1, <2>2, <2>3
<1>2. CASE ~(d > 0)
  <2> DEFINE q == (2 - d) \div 4
  <2>1. q \in Int /\ 4 * q <= 2 - d /\ 2 - d < 4 * q + 4  OBVIOUS
  <2>2. GRN_GEO_DEGREE2MSEC(d) = -q  BY <1>2
  <2> HIDE DEF q
  <2>3. 2 * ((-q) * 4 - d) <= 4 /\ 2 * (d - (-q) * 4) <= 4  BY <2>1
  <2> QED  BY <2>1, <2>2, <2>3
<1> QED  BY <1>1, <1>2

\* What SELECT makes of a stored point, in either order of its coordinates.
PointRead(g) ==
    IF geo_need_reverse(field)
    THEN [class |-> "point", x |-> GRN_GEO_MSEC2DEGREE(g.longitude),
          y |-> GRN_GEO_MSEC2DEGREE(g.latitude)]
    ELSE [class |-> "point", x |-> GRN_GEO_MSEC2DEGREE(g.latitude),
          y |-> GRN_GEO_MSEC2DEGREE(g.longitude)]

\* A point is stored as its rounded coordinates, the first one as the latitude; it
\* reads as a point near by unless the column names the latitude first.
LEMMA GeometryStored ==
    ASSUME Column, field.type = "GEOMETRY", NEW v \in Samples(field),
           v # Null => v.class = "point"
    PROVE  /\ Stored(v) \in [latitude : Int, longitude : Int]
           /\ v = Null => Read(v) = [class |-> "point", x |-> 0, y |-> 0]
           /\ v # Null /\ ~AxesSwapped(field) => SameGeometry(Read(v), v)
<1> USE DEF IntegerTypes, UnsignedTypes, Floats, Timestamps, Times, Datetimes, Texts
<1>1. Read(v) = PointRead(Stored(v))
  BY DEF Read, storage_store_field, storage_store_field_geometry, PointRead
<1>2. CASE v = Null
  <2>1. Stored(v) = [latitude |-> 0, longitude |-> 0]
    BY <1>2 DEF Stored, SkipsNull, GrnDefault, mrn_grn_type_from_field
  <2>2. GRN_GEO_MSEC2DEGREE(0) = 0  BY DEF GRN_GEO_MSEC2DEGREE, Msec
  <2>3. PointRead(Stored(v)) = [class |-> "point", x |-> 0, y |-> 0]
    BY <2>1, <2>2 DEF PointRead
  <2> QED  BY <1>1, <1>2, <2>1, <2>3
<1>3. CASE v # Null
  <2> DEFINE latitude == GRN_GEO_DEGREE2MSEC(v.x)
             longitude == GRN_GEO_DEGREE2MSEC(v.y)
  <2>1. Stored(v) = [latitude |-> latitude, longitude |-> longitude]
    BY <1>3 DEF Stored, generic_store_bulk, generic_store_bulk_geometry
  <2>2. v.class = "point" /\ v.x \in Int /\ v.y \in Int
    <3>1. v \in SqlValues(field)  BY <1>3, SampleFacts
    <3>2. SqlValues(field) = [class : STRING, x : Coordinates, y : Coordinates]
      BY DEF SqlValues
    <3> QED  BY <1>3, <3>1, <3>2 DEF Coordinates
  <2>3. /\ latitude \in Int /\ Near(GRN_GEO_MSEC2DEGREE(latitude), v.x)
        /\ longitude \in Int /\ Near(GRN_GEO_MSEC2DEGREE(longitude), v.y)
    BY <2>2, Rounded
  <2> HIDE DEF latitude, longitude
  <2>4. ASSUME ~AxesSwapped(field) PROVE SameGeometry(Read(v), v)
    <3>1. ~geo_need_reverse(field)  BY <2>4 DEF AxesSwapped
    <3>2. Read(v) = [class |-> "point", x |-> GRN_GEO_MSEC2DEGREE(latitude),
                     y |-> GRN_GEO_MSEC2DEGREE(longitude)]
      BY <1>1, <2>1, <3>1 DEF PointRead
    <3> QED  BY <2>2, <2>3, <3>2 DEF SameGeometry
  <2> QED  BY <1>3, <2>1, <2>3, <2>4
<1> QED  BY <1>2, <1>3

-----------------------------------------------------------------------------
(* All the columns. *)

\* The kinds of columns, one of which the proofs below take at a time.
LEMMA ColumnTypes ==
    ASSUME Column
    PROVE  \/ field.type \in Numbers \/ field.type \in Floats \/ field.type \in Timestamps
           \/ field.type \in Times \/ field.type \in DatedTypes \/ field.type = "YEAR"
           \/ field.type = "STRING" \/ field.type \in {"VARCHAR", "BLOB"}
           \/ field.type \in {"NEWDECIMAL", "JSON"} \/ field.type = "GEOMETRY"
<1>1. field.type \in FieldTypes  BY FieldFacts DEF IsField
<1> QED  BY <1>1 DEF FieldTypes, Numbers, DatedTypes, Texts

\* generic_store_bulk_geometry() refuses what is not a point.
Accepted(v) == field.type = "GEOMETRY" /\ v # Null => v.class = "point"

\* The value has the type of the Groonga column.
HasGroongaType(g) ==
    LET t == mrn_grn_type_from_field(field)
    IN  CASE t.base \in {"Int", "UInt"} -> g \in [1 .. t.size -> 0 .. MaxByte]
          [] t.base = "Time" -> g \in Int
          [] t.base = "Float" -> DOMAIN g = {"neg", "mag"}
          [] t.base = "WGS84GeoPoint" -> DOMAIN g = {"latitude", "longitude"}
          [] OTHER -> DOMAIN g = 1 .. Len(g)

\* A value of Groonga is not the mark for no value.
LEMMA NotNone ==
    ASSUME NEW g, g \in Int \/ g \in Seq(Int) \/ g \in [neg : BOOLEAN, mag : Int]
                  \/ g \in [latitude : Int, longitude : Int]
    PROVE  g # None
BY NullAssumption, NoneAssumption

\* What is stored in a numeric column has the type of the Groonga column.
LEMMA NumberType ==
    ASSUME Column, field.type \in Numbers, NEW v \in Samples(field)
    PROVE  HasGroongaType(Stored(v)) /\ Stored(v) # None
<1> USE DEF IntegerTypes, UnsignedTypes, Floats, Timestamps, Times, Datetimes, Texts, Numbers
<1> DEFINE w == Width(field.length)  t == mrn_grn_type_from_field(field)
<1>1. w \in 1 .. 8 /\ Stored(v) \in [1 .. w -> 0 .. MaxByte]  BY NumberWidth, NumberStored
<1>2. t.base \in {"Int", "UInt"} /\ t.size = w
  <2>1. CASE field.type \in IntegerTypes  BY <2>1 DEF mrn_grn_type_from_field
  <2>2. CASE field.type \in UnsignedTypes  BY <2>2 DEF mrn_grn_type_from_field
  <2> QED  BY <2>1, <2>2
<1>3. HasGroongaType(Stored(v)) <=> Stored(v) \in [1 .. t.size -> 0 .. MaxByte]
  <2> HIDE DEF t
  <2>1. HasGroongaType(Stored(v)) <=>
          CASE t.base \in {"Int", "UInt"} -> Stored(v) \in [1 .. t.size -> 0 .. MaxByte]
            [] t.base = "Time" -> Stored(v) \in Int
            [] t.base = "Float" -> DOMAIN Stored(v) = {"neg", "mag"}
            [] t.base = "WGS84GeoPoint" -> DOMAIN Stored(v) = {"latitude", "longitude"}
            [] OTHER -> DOMAIN Stored(v) = 1 .. Len(Stored(v))
    BY DEF HasGroongaType, t
  <2> QED  BY <1>2, <2>1
<1> HIDE DEF w, t
<1>4. Stored(v) \in Seq(Int)
  <2> DEFINE s == Stored(v)
  <2>1. s = [i \in 1 .. w |-> s[i]] /\ \A i \in 1 .. w : s[i] \in Int  BY <1>1, BaseFacts
  <2> HIDE DEF s
  <2>2. [i \in 1 .. w |-> s[i]] \in Seq(Int)  BY <1>1, <2>1
  <2> QED  BY <2>1, <2>2 DEF s
<1> QED  BY <1>1, <1>2, <1>3, <1>4, NotNone

\* What is stored in a float column has the type of the Groonga column.
LEMMA FloatType ==
    ASSUME Column, field.type \in Floats, NEW v \in Samples(field)
    PROVE  HasGroongaType(Stored(v)) /\ Stored(v) # None
<1> USE DEF IntegerTypes, UnsignedTypes, Floats, Timestamps, Times, Datetimes, Texts
<1>1. mrn_grn_type_from_field(field).base = "Float"  BY DEF mrn_grn_type_from_field
<1>2. HasGroongaType(Stored(v)) <=> DOMAIN Stored(v) = {"neg", "mag"}
  BY <1>1 DEF HasGroongaType
<1> DEFINE f == FloatOf(v)  B == Base ^ 4
<1>3. f \in [neg : BOOLEAN, mag : Int]
  <2>1. Bytes(field) \in 1 .. 8 /\ f \in FloatRange(Bytes(field))  BY FloatValue
  <2>2. f \in [neg : BOOLEAN, mag : 0 .. Half * Base ^ (Bytes(field) - 1) - 1]
    BY <2>1 DEF FloatRange
  <2> HIDE DEF f
  <2> QED  BY <2>2
<1>4. Stored(v) = IF field.type = "FLOAT" THEN [f EXCEPT !.mag = @ * B] ELSE f
  BY FloatStored DEF Widened
<1>5. B \in Int  BY PowerNat
<1> HIDE DEF f, B
<1>6. f.mag * B \in Int  BY <1>3, <1>5
<1>7. [f EXCEPT !.mag = @ * B] \in [neg : BOOLEAN, mag : Int]
  <2> DEFINE m == f.mag * B
  <2> HIDE DEF m
  <2>1. [f EXCEPT !.mag = m] \in [neg : BOOLEAN, mag : Int]  BY <1>3, <1>6 DEF m
  <2> QED  BY <2>1 DEF m
<1>8. Stored(v) \in [neg : BOOLEAN, mag : Int]  BY <1>3, <1>4, <1>7
<1>9. Stored(v) # None  BY <1>8, NotNone
<1> QED  BY <1>2, <1>9, FloatStored

\* Whatever the clock time, the value of a Time column is a number.
LEMMA TimeType ==
    ASSUME Column, field.type \in TimeTypes, NEW v \in Samples(field)
    PROVE  HasGroongaType(Stored(v)) /\ Stored(v) # None
<1> USE DEF IntegerTypes, UnsignedTypes, Floats, Timestamps, Times, Datetimes, Texts
<1>1. mrn_grn_type_from_field(field).base = "Time"
  <2>1. \A g, h : mrn_grn_type_from_field(field).base = "Time"  BY TimeLess
  <2> QED  BY <2>1
<1>2. HasGroongaType(Stored(v)) <=> Stored(v) \in Int  BY <1>1 DEF HasGroongaType
<1>3. Stored(v) \in Int
  <2>1. CASE field.type \in Timestamps  BY <2>1, TimestampStored
  <2>2. CASE field.type \in Times  BY <2>2, TimeStored
  <2>3. CASE field.type \in DatedTypes
    <3>1. CASE v = Null  BY <2>3, <3>1, DatedStored DEF Shifted, Dated, DatedTypes
    <3>2. CASE v # Null
      <4> DEFINE c == CorrectedTm(v)
      <4>1. DatedOf(v) = v  BY <3>2 DEF DatedOf
      <4>2. IsDated(v)  BY <2>3, <4>1, DatedValue
      <4>3. v.type # "TIME" /\ v.usec \in Int
        BY <4>2, ClockFacts DEF IsDated, DatedType, Fractions
      <4>4. Stored(v) = mysql_time_to_grn_time(zone, v).time
        BY <2>3, <3>2 DEF Stored, SkipsNull, generic_store_bulk, StoreBulkMysqlTime, Bulk, DatedTypes
      <4>5. Stored(v) = GRN_TIME_PACK(tm_to_time_gm(zone, c), v.usec)
        BY <4>3, <4>4 DEF mysql_time_to_grn_time, tm_to_grn_time
      <4>6. IsTm(c)  BY <4>2, DatedTm
      <4> HIDE DEF c
      <4>7. tm_to_time_gm(zone, c) \in Int  BY <4>6, FieldFacts, TmToTimeInt
      <4> QED  BY <4>3, <4>5, <4>7, PackInt
    <3> QED  BY <3>1, <3>2
  <2>4. CASE field.type = "YEAR"
    <3> DEFINE x == SinceBase(YearOf(v))  tm == Tm(x, 0, 1, 0, 0)
    <3>1. x \in Int /\ YearTm(field, v) = tm  BY <2>4, YearValue
    <3>2. Stored(v) = GRN_TIME_PACK(tm_to_time_gm(zone, YearTm(field, v)), 0)
      BY <2>4 DEF Stored, SkipsNull, generic_store_bulk, generic_store_bulk_year, Sound, Bulk,
                  tm_to_grn_time
    <3>3. IsTm(tm)
      <4>1. 0 \in 0 .. SecPerHour - 1  BY ClockFacts
      <4> HIDE DEF x
      <4> QED  BY <3>1, <4>1 DEF IsTm, Tm
    <3> HIDE DEF x, tm
    <3>4. tm_to_time_gm(zone, tm) \in Int  BY <3>3, FieldFacts, TmToTimeInt
    <3> QED  BY <3>1, <3>2, <3>4, PackInt
  <2> QED  BY <2>1, <2>2, <2>3, <2>4 DEF TimeTypes, DatedTypes
<1> QED  BY <1>2, <1>3, NotNone

\* What is stored in a text column has the type of the Groonga column.
LEMMA TextType ==
    ASSUME Column, field.type \in Texts, NEW v \in Samples(field)
    PROVE  HasGroongaType(Stored(v)) /\ Stored(v) # None
<1> USE DEF IntegerTypes, UnsignedTypes, Floats, Timestamps, Times, Datetimes, Texts
<1>1. mrn_grn_type_from_field(field).base = "Text"  BY DEF mrn_grn_type_from_field
<1>2. HasGroongaType(Stored(v)) <=> DOMAIN Stored(v) = 1 .. Len(Stored(v))
  BY <1>1 DEF HasGroongaType
<1>3. Stored(v) \in TextBytes
  <2>1. CASE field.type = "STRING"  BY <2>1, StringStored
  <2>2. CASE field.type \in Texts \ {"STRING"}  BY <2>2, BytesStored
  <2> QED  BY <2>1, <2>2
<1> QED  BY <1>2, <1>3, TextFacts, NotNone

\* What is stored in a GEOMETRY column has the type of the Groonga column.
LEMMA GeometryType ==
    ASSUME Column, field.type = "GEOMETRY", NEW v \in Samples(field), Accepted(v)
    PROVE  HasGroongaType(Stored(v)) /\ Stored(v) # None
<1> USE DEF IntegerTypes, UnsignedTypes, Floats, Timestamps, Times, Datetimes, Texts
<1>1. mrn_grn_type_from_field(field).base = "WGS84GeoPoint"  BY DEF mrn_grn_type_from_field
<1>2. HasGroongaType(Stored(v)) <=> DOMAIN Stored(v) = {"latitude", "longitude"}
  BY <1>1 DEF HasGroongaType
<1>3. Stored(v) \in [latitude : Int, longitude : Int]  BY GeometryStored DEF Accepted
<1> QED  BY <1>2, <1>3, NotNone

\* Whatever the column, what is stored has the type of the Groonga column.
LEMMA StoredType ==
    ASSUME Column, NEW v \in Samples(field), Accepted(v)
    PROVE  HasGroongaType(Stored(v)) /\ Stored(v) # None
BY ColumnTypes, NumberType, FloatType, TimeType, TextType, GeometryType
   DEF TimeTypes, DatedTypes, Texts

\* The values that stand for NULL, type by type.
NullFloat == [neg |-> FALSE, mag |-> 0]
NullTimestamp == [sec |-> 0, usec |-> 0]
NullTime == MysqlTime("TIME", FALSE, 0, 0, 0, 0, 0, 0)
EpochOf(type) == MysqlTime(type, FALSE, 1970, 1, 1, 0, 0, 0)
NullYear == IF field.length = 2 THEN 70 ELSE 1970
NullPoint == [class |-> "point", x |-> 0, y |-> 0]

\* What a column without NULL reads as when NULL was written.
LEMMA NullReadsIs ==
    /\ field.type \in Numbers => NullReads = 0
    /\ field.type \in Floats => NullReads = NullFloat
    /\ field.type \in Timestamps => NullReads = NullTimestamp
    /\ field.type \in Times => NullReads = NullTime
    /\ field.type \in DatedTypes => NullReads = EpochOf(DatedType)
    /\ field.type = "YEAR" => NullReads = NullYear
    /\ field.type = "GEOMETRY" => NullReads = NullPoint
    /\ field.type \in Texts => NullReads = <<>>
<1> DEFINE a == 0  i == <<>>
<1>1. NullReads = CASE field.type \in IntegerTypes \cup UnsignedTypes -> a
                    [] field.type \in Floats -> NullFloat
                    [] field.type \in Timestamps -> NullTimestamp
                    [] field.type \in Times -> NullTime
                    [] field.type \in Datetimes -> EpochOf("DATETIME")
                    [] field.type = "NEWDATE" -> EpochOf("DATE")
                    [] field.type = "YEAR" -> NullYear
                    [] field.type = "GEOMETRY" -> NullPoint
                    [] OTHER -> i
  BY Zenon DEF NullReads, NullFloat, NullTimestamp, NullTime, EpochOf, NullYear, NullPoint
<1>2. EpochOf(DatedType) = IF field.type = "NEWDATE" THEN EpochOf("DATE") ELSE EpochOf("DATETIME")
  BY DEF DatedType
<1> HIDE DEF a, i
<1>3. /\ field.type \in Numbers => NullReads = a
      /\ field.type \in Floats => NullReads = NullFloat
      /\ field.type \in Timestamps => NullReads = NullTimestamp
      /\ field.type \in Times => NullReads = NullTime
      /\ field.type \in DatedTypes => NullReads = EpochOf(DatedType)
      /\ field.type = "YEAR" => NullReads = NullYear
      /\ field.type = "GEOMETRY" => NullReads = NullPoint
      /\ field.type \in Texts => NullReads = i
  BY <1>1, <1>2 DEF IntegerTypes, UnsignedTypes, Floats, Timestamps, Times, Datetimes, Texts,
                    Numbers, DatedTypes
<1> QED  BY <1>3 DEF a, i

\* A column written as NULL reads as NullReads.
LEMMA ReadsNull ==
    ASSUME Column, Null \in Samples(field), ~Shifted(field, Null)
    PROVE  Read(Null) = NullReads
<1>1. ~NegativeFraction(field, Null)  BY DEF NegativeFraction
<1>2. CASE field.type \in Numbers
  <2>1. Read(Null) = 0  BY <1>2, NumberStored DEF NumberOf
  <2> QED  BY <1>2, <2>1, NullReadsIs
<1>3. CASE field.type \in Floats
  <2>1. FloatOf(Null) = NullFloat  BY DEF FloatOf, NullFloat
  <2>2. Read(Null) = FloatOf(Null)  BY <1>3, FloatStored
  <2> QED  BY <1>3, <2>1, <2>2, NullReadsIs
<1>4. CASE field.type \in Timestamps
  <2>1. TimestampOf(Null) = NullTimestamp  BY DEF TimestampOf, NullTimestamp
  <2>2. Read(Null) = TimestampOf(Null)  BY <1>4, TimestampStored
  <2> QED  BY <1>4, <2>1, <2>2, NullReadsIs
<1>5. CASE field.type \in Times
  <2>1. TimeOf(Null) = NullTime  BY DEF TimeOf, NullTime
  <2>2. Read(Null) = TimeOf(Null)  BY <1>1, <1>5, TimeRead
  <2> QED  BY <1>5, <2>1, <2>2, NullReadsIs
<1>6. CASE field.type \in DatedTypes
  <2> DEFINE t == EpochOf(DatedType)
  <2>1. DatedOf(Null) = t  BY DEF DatedOf, EpochOf
  <2>2. t.month # 0 /\ t.day # 0  BY DEF MysqlTime, EpochOf
  <2>3. NullReads = t  BY <1>6, NullReadsIs
  <2> HIDE DEF t
  <2>4. Read(Null) = Corrected(DatedOf(Null))  BY <1>1, <1>6, DatedRead
  <2>5. IsDated(DatedOf(Null))  BY <1>6, DatedValue
  <2>6. Corrected(t) = t  BY <2>1, <2>2, <2>5, CorrectedFacts
  <2> QED  BY <2>1, <2>3, <2>4, <2>6
<1>7. CASE field.type = "YEAR"
  <2>1. Read(Null) = NullYear  BY <1>7, YearStored DEF YearOf, NullYear
  <2> QED  BY <1>7, <2>1, NullReadsIs
<1>8. CASE field.type = "STRING"
  <2>1. Read(Null) = <<>>  BY <1>8, StringStored DEF TextOf
  <2>2. field.type \in Texts  BY <1>8 DEF Texts
  <2> QED  BY <2>1, <2>2, NullReadsIs
<1>9. CASE field.type \in Texts \ {"STRING"}
  <2>1. Read(Null) = <<>>  BY <1>9, BytesStored DEF TextOf
  <2> QED  BY <1>9, <2>1, NullReadsIs
<1>10. CASE field.type = "GEOMETRY"
  <2>1. Read(Null) = NullPoint  BY <1>10, GeometryStored DEF NullPoint
  <2> QED  BY <1>10, <2>1, NullReadsIs
<1> QED  BY <1>2, <1>3, <1>4, <1>5, <1>6, <1>7, <1>8, <1>9, <1>10, ColumnTypes DEF Texts

\* Any other value reads as it was written, apart from what INSERT warns of, from
\* fractions before the epoch and from columns with swapped axes.
LEMMA ReadsValue ==
    ASSUME Column, NEW v \in Samples(field), v # Null, Accepted(v), ~Shifted(field, v),
           ~NegativeFraction(field, v), ~ZeroDate(field, v), ~AxesSwapped(field)
    PROVE  SameValue(field, Read(v), v)
<1>1. CASE field.type = "GEOMETRY"  BY <1>1, GeometryStored DEF Accepted, SameValue
<1>2. CASE field.type # "GEOMETRY"
  <2>1. Read(v) = v
    <3>1. CASE field.type \in Numbers  BY <3>1, NumberStored DEF NumberOf
    <3>2. CASE field.type \in Floats  BY <3>2, FloatStored DEF FloatOf
    <3>3. CASE field.type \in Timestamps  BY <3>3, TimestampStored DEF TimestampOf
    <3>4. CASE field.type \in Times  BY <3>4, TimeRead DEF TimeOf
    <3>5. CASE field.type \in DatedTypes
      <4>1. DatedOf(v) = v /\ Corrected(v) = v  BY <3>5, DatedExact
      <4> QED  BY <3>5, <4>1, DatedRead
    <3>6. CASE field.type = "YEAR"  BY <3>6, YearStored DEF YearOf
    <3>7. CASE field.type = "STRING"  BY <3>7, StringStored DEF TextOf
    <3>8. CASE field.type \in Texts \ {"STRING"}  BY <3>8, BytesStored DEF TextOf
    <3> QED  BY <1>2, <3>1, <3>2, <3>3, <3>4, <3>5, <3>6, <3>7, <3>8, ColumnTypes DEF Texts
  <2> QED  BY <1>2, <2>1 DEF SameValue
<1> QED  BY <1>1, <1>2

\* A date without a month or a day is stored with a warning.
LEMMA ZeroDateTruncated ==
    ASSUME Column, NEW v \in Samples(field), ZeroDate(field, v)
    PROVE  generic_store_bulk(field, v).truncated = TRUE
<1>1. field.type \in DatedTypes /\ v # Null /\ (v.month = 0 \/ v.day = 0)
  BY DEF ZeroDate, Dated, DatedTypes
<1>2. IsDated(v)
  <2>1. DatedOf(v) = v  BY <1>1 DEF DatedOf
  <2>2. IsDated(DatedOf(v))  BY <1>1, DatedValue
  <2> QED  BY <2>1, <2>2
<1>3. v.type # "TIME"  BY <1>2 DEF IsDated, DatedType
<1>4. generic_store_bulk(field, v).truncated = mysql_time_to_grn_time(zone, v).truncated
  BY <1>1
  DEF generic_store_bulk, StoreBulkMysqlTime, Bulk, DatedTypes, IntegerTypes, UnsignedTypes, Floats,
      Timestamps, Times, Datetimes
<1>5. mysql_time_to_grn_time(zone, v).truncated = (v.month = 0 \/ v.day = 0)
  BY <1>3 DEF mysql_time_to_grn_time
<1> QED  BY <1>1, <1>4, <1>5

\* Whatever the column, a lookup finds what reads as the value looked up.
LEMMA LookUpExact ==
    ASSUME Column, HasKey(field), NEW v \in Samples(field), ~Shifted(field, v),
           NEW u \in Samples(field), u # Null, ~LookupDiffers(field, u)
    PROVE  Stored(v) = storage_encode_key(field, u) <=> Read(v) = u
<1>1. field.type \notin {"NEWDECIMAL", "GEOMETRY", "JSON"}  BY DEF HasKey
<1>2. CASE field.type \in Numbers  BY <1>2, NumberLookUp
<1>3. CASE field.type \in Floats  BY <1>3, FloatLookUp
<1>4. CASE field.type \in Timestamps  BY <1>4, TimestampLookUp
<1>5. CASE field.type \in Times  BY <1>5, TimeLookUp
<1>6. CASE field.type \in DatedTypes  BY <1>6, DatedLookUp
<1>7. CASE field.type = "YEAR"  BY <1>7, YearLookUp
<1>8. CASE field.type = "STRING"  BY <1>8, StringLookUp
<1>9. CASE field.type \in {"VARCHAR", "BLOB"}  BY <1>9, BytesLookUp
<1> QED  BY <1>1, <1>2, <1>3, <1>4, <1>5, <1>6, <1>7, <1>8, <1>9, ColumnTypes

\* Whatever the column, Groonga orders the stored values as the server does.
LEMMA OrderExact ==
    ASSUME Column, HasKey(field),
           NEW v \in Samples(field), ~Shifted(field, v), ~NegativeFraction(field, v),
           NEW w \in Samples(field), ~Shifted(field, w), ~NegativeFraction(field, w)
    PROVE  GrnLess(field, Stored(v), Stored(w)) <=> SqlLess(field, Read(v), Read(w))
<1>1. field.type \notin {"NEWDECIMAL", "GEOMETRY", "JSON"}  BY DEF HasKey
<1>2. CASE field.type \in Numbers  BY <1>2, NumberKeyOrder
<1>3. CASE field.type \in Floats  BY <1>3, FloatKeyOrder
<1>4. CASE field.type \in Timestamps  BY <1>4, TimestampKeyOrder
<1>5. CASE field.type \in Times  BY <1>5, TimeKeyOrder
<1>6. CASE field.type \in DatedTypes  BY <1>6, DatedKeyOrder
<1>7. CASE field.type = "YEAR"  BY <1>7, YearKeyOrder
<1>8. CASE field.type = "STRING"  BY <1>8, StringKeyOrder
<1>9. CASE field.type \in {"VARCHAR", "BLOB"}  BY <1>9, BytesKeyOrder
<1> QED  BY <1>1, <1>2, <1>3, <1>4, <1>5, <1>6, <1>7, <1>8, <1>9, ColumnTypes

\* Whatever the column, the codec keeps the order of the values.
LEMMA CodecExact ==
    ASSUME Column, InCodec(field),
           NEW v \in Samples(field), v # Null, ~ZeroDate(field, v), ~Shifted(field, v),
           NEW w \in Samples(field), w # Null, ~ZeroDate(field, w), ~Shifted(field, w)
    PROVE  ByteLess(Encoded(v), Encoded(w)) <=> SqlLess(field, v, w)
<1>1. CASE field.type \in IntegerTypes  BY <1>1, NumberCodec
<1>2. CASE field.type \in Floats  BY <1>2, FloatCodec
<1>3. CASE field.type = "TIMESTAMP"  BY <1>3, TimestampCodec
<1>4. CASE field.type \in Datetimes  BY <1>4, DatetimeCodec
<1>5. CASE field.type = "NEWDATE"  BY <1>5, DateCodec
<1>6. CASE field.type = "STRING"  BY <1>6, StringCodec
<1>7. CASE field.type \in {"VARCHAR", "BLOB"}  BY <1>7, BytesCodec
<1> QED  BY <1>1, <1>2, <1>3, <1>4, <1>5, <1>6, <1>7 DEF InCodec

-----------------------------------------------------------------------------
(* The inductive invariant: a record holds what INSERT makes of the value that *)
(* was written, in the time zone that was set then and still is.               *)

Key(u) == storage_encode_key(field, u)
LikeMin(p) ==
    NormalizedKey(storage_encode_key_variable_size_string(Pad(p, field.length, Space)))
LikeMax(p) ==
    NormalizedKey(storage_encode_key_variable_size_string(Pad(p, field.length, MaxByte)))

Held(id) ==
    /\ written[id] \in Samples(field) /\ Accepted(written[id])
    /\ stored[id] = Stored(written[id])
    /\ ZeroDate(field, written[id]) => warned[id] = TRUE

Equal(u) == [kind |-> "equal", value |-> u, ids |-> {id \in Present : stored[id] = Key(u)}]
Beginning(p) ==
    [kind |-> "prefix", value |-> p,
     ids |-> {id \in Present : ByteLeq(LikeMin(p), stored[id]) /\ ByteLeq(stored[id], LikeMax(p))}]

Answered ==
    \/ answer = NoAnswer
    \/ HasKey(field) /\ \E u \in Samples(field) : u # Null /\ answer = Equal(u)
    \/ field.type = "VARCHAR" /\ \E p \in LikePrefixes(field) : answer = Beginning(p)

FieldInv ==
    /\ Column /\ strict \in BOOLEAN
    /\ DOMAIN written = Rows /\ DOMAIN stored = Rows /\ DOMAIN warned = Rows
    /\ \A id \in Rows : stored[id] = None <=> written[id] = None
    /\ \A id \in Present : Held(id)
    /\ Answered

\* What a conversion makes of a value depends on the column and the zone only.
LEMMA SameConversions ==
    ASSUME UNCHANGED <<field, zone, strict>>, NEW v
    PROVE  Stored(v)' = Stored(v) /\ Key(v)' = Key(v) /\ Accepted(v)' = Accepted(v)
           /\ LikeMin(v)' = LikeMin(v) /\ LikeMax(v)' = LikeMax(v)
<1>1. field' = field /\ zone' = zone /\ strict' = strict  OBVIOUS
<1>2. Stored(v)' = Stored(v)
  <2>1. generic_store_bulk(field, v)' = generic_store_bulk(field, v)
    BY <1>1
    DEF generic_store_bulk, generic_store_bulk_integer, generic_store_bulk_unsigned_integer,
        generic_store_bulk_float, generic_store_bulk_timestamp, StoreBulkMysqlTime,
        generic_store_bulk_year, generic_store_bulk_new_decimal, generic_store_bulk_geometry,
        generic_store_bulk_fixed_size_string, generic_store_bulk_variable_size_string, Sound, Bulk
  <2> QED  BY <1>1, <2>1 DEF Stored
<1>3. Key(v)' = Key(v)
  BY <1>1
  DEF Key, storage_encode_key, storage_encode_key_timestamp, storage_encode_key_timestamp2,
      storage_encode_key_time, storage_encode_key_time2, storage_encode_key_year,
      storage_encode_key_datetime, storage_encode_key_datetime2, storage_encode_key_new_date
<1>4. Accepted(v)' = Accepted(v)  BY <1>1 DEF Accepted
<1>5. LikeMin(v)' = LikeMin(v) /\ LikeMax(v)' = LikeMax(v)  BY <1>1 DEF LikeMin, LikeMax
<1> QED  BY <1>2, <1>3, <1>4, <1>5

\* The invariant holds before the first statement.
LEMMA FieldInvInit == Init => FieldInv
<1> SUFFICES ASSUME Init PROVE FieldInv  OBVIOUS
<1>1. Column /\ strict \in BOOLEAN  BY DEF Init, Column
<1>2. \A id \in Rows : stored[id] = None /\ written[id] = None  BY DEF Init
<1>3. Present = {}  BY <1>2 DEF Present
<1>4. DOMAIN written = Rows /\ DOMAIN stored = Rows /\ DOMAIN warned = Rows  BY DEF Init
<1>5. Answered  BY DEF Init, Answered
<1> QED  BY <1>1, <1>2, <1>3, <1>4, <1>5 DEF FieldInv

\* A record that is written keeps the invariant, those beside it are not touched.
LEMMA WrittenHeld ==
    ASSUME FieldInv, NEW id \in Rows, NEW v \in Samples(field), Accepted(v), NEW w,
           ZeroDate(field, v) => w = TRUE,
           written' = [written EXCEPT ![id] = v],
           stored' = [stored EXCEPT ![id] = Stored(v)],
           warned' = [warned EXCEPT ![id] = w],
           answer' = NoAnswer, UNCHANGED <<field, zone, strict>>
    PROVE  FieldInv'
<1>1. Column' /\ (strict \in BOOLEAN)'  BY DEF FieldInv, Column
<1>2. (DOMAIN written = Rows /\ DOMAIN stored = Rows /\ DOMAIN warned = Rows)'  BY DEF FieldInv
<1>3. /\ written'[id] = v /\ stored'[id] = Stored(v) /\ warned'[id] = w
      /\ \A x \in Rows \ {id} :
            written'[x] = written[x] /\ stored'[x] = stored[x] /\ warned'[x] = warned[x]
  BY DEF FieldInv
<1>4. Stored(v) # None /\ v # None
  <2>1. Column  BY DEF FieldInv
  <2> QED  BY <2>1, StoredType, NoneAssumption DEF Column
<1>5. (\A x \in Rows : stored[x] = None <=> written[x] = None)'
  BY <1>3, <1>4 DEF FieldInv
<1>6. \A x : Stored(x)' = Stored(x) /\ Accepted(x)' = Accepted(x)  BY SameConversions
<1>7. ASSUME NEW x \in Present' PROVE Held(x)'
  <2>1. x \in Rows /\ stored'[x] # None  BY DEF Present
  <2>2. CASE x = id  BY <1>3, <1>6, <2>2 DEF Held
  <2>3. CASE x # id
    <3>1. x \in Present  BY <1>3, <2>1, <2>3 DEF Present
    <3>2. Held(x)  BY <3>1 DEF FieldInv
    <3> QED  BY <1>3, <1>6, <2>1, <2>3, <3>2 DEF Held
  <2> QED  BY <2>2, <2>3
<1>8. Answered'  BY DEF Answered
<1> QED  BY <1>1, <1>2, <1>5, <1>7, <1>8 DEF FieldInv

\* Nothing is written.
LEMMA OtherwiseHeld ==
    ASSUME FieldInv, UNCHANGED <<field, zone, strict, written, stored, warned>>, Answered'
    PROVE  FieldInv'
<1>1. Column' /\ (strict \in BOOLEAN)'  BY DEF FieldInv, Column
<1>2. (DOMAIN written = Rows /\ DOMAIN stored = Rows /\ DOMAIN warned = Rows)'  BY DEF FieldInv
<1>3. (\A x \in Rows : stored[x] = None <=> written[x] = None)'  BY DEF FieldInv
<1>4. \A x : Stored(x)' = Stored(x) /\ Accepted(x)' = Accepted(x)  BY SameConversions
<1>5. ASSUME NEW x \in Present' PROVE Held(x)'
  <2>1. x \in Present  BY DEF Present
  <2>2. Held(x)  BY <2>1 DEF FieldInv
  <2> QED  BY <1>4, <2>2 DEF Held
<1> QED  BY <1>1, <1>2, <1>3, <1>5 DEF FieldInv

\* INSERT keeps the invariant.
LEMMA WriteRowHeld ==
    ASSUME FieldInv, NEW id \in Rows, NEW v \in Samples(field), WriteRow(id, v)
    PROVE  FieldInv'
<1> DEFINE skipped == v = Null /\ SkipsNull(field)
           b == IF skipped THEN Sound(GrnDefault(field)) ELSE generic_store_bulk(field, v)
<1>1. Column  BY DEF FieldInv
<1>2. /\ IF b.error
         THEN UNCHANGED <<written, stored, warned>>
         ELSE /\ written' = [written EXCEPT ![id] = v]
              /\ stored' = [stored EXCEPT ![id] = b.value]
              /\ warned' = [warned EXCEPT ![id] = b.truncated]
      /\ answer' = NoAnswer /\ UNCHANGED <<field, zone, strict>>
  BY DEF WriteRow
<1>3. b.value = Stored(v)  BY DEF Stored, Sound, Bulk
<1>4. ZeroDate(field, v) => b.truncated = TRUE
  <2>1. ZeroDate(field, v) => v # Null  BY DEF ZeroDate
  <2> QED  BY <1>1, <2>1, ZeroDateTruncated
<1>5. ~b.error => Accepted(v)
  <2>1. CASE field.type = "GEOMETRY" /\ v # Null
    <3>1. b.error = (v.class # "point")
      BY <2>1 DEF generic_store_bulk, generic_store_bulk_geometry, IntegerTypes, UnsignedTypes,
                  Floats, Timestamps, Times, Datetimes
    <3> QED  BY <3>1 DEF Accepted
  <2>2. CASE ~(field.type = "GEOMETRY" /\ v # Null)  BY <2>2 DEF Accepted
  <2> QED  BY <2>1, <2>2
<1> HIDE DEF b
<1>6. CASE b.error
  <2>1. Answered'  BY <1>2 DEF Answered
  <2> QED  BY <1>2, <1>6, <2>1, OtherwiseHeld
<1>7. CASE ~b.error
  <2>1. Accepted(v)  BY <1>5, <1>7
  <2>2. /\ written' = [written EXCEPT ![id] = v]
        /\ stored' = [stored EXCEPT ![id] = Stored(v)]
        /\ warned' = [warned EXCEPT ![id] = b.truncated]
    BY <1>2, <1>3, <1>7
  <2> QED  BY <1>2, <1>4, <2>1, <2>2, WrittenHeld
<1> QED  BY <1>6, <1>7

\* UPDATE keeps the invariant.
LEMMA UpdateRowHeld ==
    ASSUME FieldInv, NEW id \in Rows, NEW v \in Samples(field), UpdateRow(id, v)
    PROVE  FieldInv'
<1> DEFINE b == generic_store_bulk(field, v)
<1>1. Column  BY DEF FieldInv
<1>2. /\ v # Null /\ (field.type = "GEOMETRY" => v.class = "point")
      /\ written' = [written EXCEPT ![id] = v]
      /\ stored' = [stored EXCEPT ![id] = b.value]
      /\ warned' = [warned EXCEPT ![id] = b.truncated]
      /\ answer' = NoAnswer /\ UNCHANGED <<field, zone, strict>>
  BY DEF UpdateRow
<1>3. b.value = Stored(v)  BY <1>2 DEF Stored
<1>4. ZeroDate(field, v) => b.truncated = TRUE  BY <1>1, ZeroDateTruncated
<1>5. Accepted(v)  BY <1>2 DEF Accepted
<1> HIDE DEF b
<1> QED  BY <1>2, <1>3, <1>4, <1>5, WrittenHeld

\* A lookup keeps the invariant: its answer is that of the key it was given.
LEMMA LookUpHeld ==
    ASSUME FieldInv, NEW v \in Samples(field), LookUp(v)
    PROVE  FieldInv'
<1>1. /\ HasKey(field) /\ v # Null /\ UNCHANGED <<field, zone, strict, written, stored, warned>>
      /\ answer' = Equal(v)
  BY DEF LookUp, Equal, Key
<1>2. Key(v)' = Key(v)  BY <1>1, SameConversions
<1>3. Present' = Present  BY <1>1 DEF Present
<1>4. Equal(v)' = Equal(v)  BY <1>1, <1>2, <1>3 DEF Equal
<1>5. Answered'  BY <1>1, <1>4 DEF Answered
<1> QED  BY <1>1, <1>5, OtherwiseHeld

\* A LIKE keeps the invariant: its answer is that of the range it was given.
LEMMA LookUpPrefixHeld ==
    ASSUME FieldInv, NEW p \in LikePrefixes(field), LookUpPrefix(p)
    PROVE  FieldInv'
<1>1. /\ field.type = "VARCHAR" /\ UNCHANGED <<field, zone, strict, written, stored, warned>>
      /\ answer' = Beginning(p)
  BY DEF LookUpPrefix, Beginning, LikeMin, LikeMax
<1>2. LikeMin(p)' = LikeMin(p) /\ LikeMax(p)' = LikeMax(p)  BY <1>1, SameConversions
<1>3. Present' = Present  BY <1>1 DEF Present
<1>4. Beginning(p)' = Beginning(p)  BY <1>1, <1>2, <1>3 DEF Beginning
<1>5. Answered'  BY <1>1, <1>4 DEF Answered
<1> QED  BY <1>1, <1>5, OtherwiseHeld

\* Every step keeps the invariant.
LEMMA FieldInvNext == FieldInv /\ [Next]_vars => FieldInv'
<1> SUFFICES ASSUME FieldInv, [Next]_vars PROVE FieldInv'  OBVIOUS
<1>1. ASSUME NEW id \in Rows, NEW v \in Samples(field), WriteRow(id, v) PROVE FieldInv'
  BY <1>1, WriteRowHeld
<1>2. ASSUME NEW id \in Rows, NEW v \in Samples(field), UpdateRow(id, v) PROVE FieldInv'
  BY <1>2, UpdateRowHeld
<1>3. ASSUME NEW v \in Samples(field), LookUp(v) PROVE FieldInv'  BY <1>3, LookUpHeld
<1>4. ASSUME NEW p \in LikePrefixes(field), LookUpPrefix(p) PROVE FieldInv'
  BY <1>4, LookUpPrefixHeld
<1>5. CASE UNCHANGED vars
  <2>1. UNCHANGED <<field, zone, strict, written, stored, warned, answer>>  BY <1>5 DEF vars
  <2>2. Present' = Present  BY <2>1 DEF Present
  <2>3. ASSUME NEW u PROVE Equal(u)' = Equal(u) /\ Beginning(u)' = Beginning(u)
    <3>1. Key(u)' = Key(u) /\ LikeMin(u)' = LikeMin(u) /\ LikeMax(u)' = LikeMax(u)
      BY <2>1, SameConversions
    <3> QED  BY <2>1, <2>2, <3>1 DEF Equal, Beginning
  <2>4. Answered'  BY <2>1, <2>3 DEF FieldInv, Answered
  <2> QED  BY <2>1, <2>4, OtherwiseHeld
<1> QED  BY <1>1, <1>2, <1>3, <1>4, <1>5 DEF Next

\* After any sequence of INSERT, UPDATE and lookups, in any column and time zone,
\* a record holds what generic_store_bulk() made of the value written last, and
\* an answer is that of the key or the range storage_encode_key() made.
THEOREM FieldInvariant == Spec => []FieldInv
<1> QED  BY FieldInvInit, FieldInvNext, PTL DEF Spec

-----------------------------------------------------------------------------
(* What the columns promise. *)

\* The invariant says that every variable has its type.
LEMMA TypeOfInv == FieldInv => FieldTypeOK
<1> SUFFICES ASSUME FieldInv PROVE FieldTypeOK  OBVIOUS
<1>1. field \in Fields /\ zone \in Zones /\ strict \in BOOLEAN  BY DEF FieldInv, Column
<1>2. \A id \in Rows : stored[id] = None <=> written[id] = None  BY DEF FieldInv
<1>3. ASSUME NEW id \in Present PROVE HasGroongaType(stored[id])
  <2>1. Column /\ Held(id)  BY DEF FieldInv
  <2> QED  BY <2>1, StoredType DEF Held
<1> QED  BY <1>1, <1>2, <1>3 DEF FieldTypeOK, HasGroongaType

\* Type correctness: whatever is written, the value has the width and the type of the
\* Groonga column mrn_grn_type_from_field() has chosen.
THEOREM FieldTypeCorrect == Spec => []FieldTypeOK
<1> QED  BY FieldInvariant, TypeOfInv, PTL

\* A record that is not shifted, and what it reads.
LEMMA KeptFacts ==
    ASSUME FieldInv, NEW id \in Kept
    PROVE  /\ Column /\ id \in Present /\ written[id] \in Samples(field) /\ Accepted(written[id])
           /\ ~Shifted(field, written[id]) /\ stored[id] = Stored(written[id])
           /\ ReadBack(id) = Read(written[id])
           /\ ZeroDate(field, written[id]) => warned[id] = TRUE
<1>1. id \in Present /\ ~Shifted(field, written[id])  BY DEF Kept
<1>2. Column /\ Held(id)  BY <1>1 DEF FieldInv
<1> QED  BY <1>1, <1>2 DEF Held, ReadBack, Read

\* The invariant says that the rows read as what was written.
LEMMA ReadsBackOfInv == FieldInv => ReadsBack
<1> SUFFICES ASSUME FieldInv, NEW id \in Kept
             PROVE  /\ written[id] = Null => ReadBack(id) = NullReads
                    /\ written[id] # Null /\ ~SameValue(field, ReadBack(id), written[id]) =>
                          warned[id] \/ NegativeFraction(field, written[id])
                              \/ AxesSwapped(field)
  BY DEF ReadsBack
<1> DEFINE v == written[id]
<1>1. /\ Column /\ v \in Samples(field) /\ Accepted(v) /\ ~Shifted(field, v)
      /\ ReadBack(id) = Read(v) /\ (ZeroDate(field, v) => warned[id] = TRUE)
  BY KeptFacts
<1> HIDE DEF v
<1>2. v = Null => ReadBack(id) = NullReads  BY <1>1, ReadsNull
<1>3. v # Null /\ ~NegativeFraction(field, v) /\ ~ZeroDate(field, v) /\ ~AxesSwapped(field)
          => SameValue(field, ReadBack(id), v)
  BY <1>1, ReadsValue
<1>4. ASSUME v # Null, ~SameValue(field, ReadBack(id), v), ~NegativeFraction(field, v),
             ~AxesSwapped(field)
      PROVE  warned[id] = TRUE
  BY <1>1, <1>3, <1>4
<1> QED  BY <1>2, <1>4 DEF v

\* generic_store_bulk() and storage_store_field() are inverse to each other, for every
\* column, value and time zone: exactly, for a geometry to the millisecond of arc; not
\* for times a zone skips, fractions before the epoch and latitude first columns.
THEOREM ColumnsReadBack == Spec => []ReadsBack
<1> QED  BY FieldInvariant, ReadsBackOfInv, PTL

\* The invariant says that lookups find the rows.
LEMMA LookupFindsOfInv == FieldInv => LookupFinds
<1> SUFFICES ASSUME FieldInv PROVE LookupFinds  OBVIOUS
<1>1. Column /\ Answered  BY DEF FieldInv
<1>2. ASSUME NEW u \in Samples(field), HasKey(field), u # Null, answer = Equal(u)
      PROVE  LookupFinds
  <2>1. /\ answer.kind = "equal" /\ answer.value = u
        /\ answer.ids = {id \in Present : stored[id] = Key(u)}
    BY <1>2 DEF Equal
  <2>2. ASSUME ~LookupDiffers(field, u)
        PROVE  answer.ids \cap Kept = {id \in Kept : ReadBack(id) = u}
    <3>1. ASSUME NEW id \in Kept PROVE stored[id] = Key(u) <=> ReadBack(id) = u
      <4> DEFINE v == written[id]
      <4>1. /\ v \in Samples(field) /\ ~Shifted(field, v)
            /\ stored[id] = Stored(v) /\ ReadBack(id) = Read(v)
        BY KeptFacts
      <4> HIDE DEF v
      <4>2. Stored(v) = Key(u) <=> Read(v) = u  BY <1>1, <1>2, <2>2, <4>1, LookUpExact DEF Key
      <4> QED  BY <4>1, <4>2
    <3>2. Kept \subseteq Present  BY DEF Kept
    <3> QED  BY <2>1, <3>1, <3>2
  <2>3. answer.kind # "prefix"  BY <2>1
  <2> QED  BY <2>1, <2>2, <2>3 DEF LookupFinds
<1>3. ASSUME NEW p \in LikePrefixes(field), field.type = "VARCHAR", answer = Beginning(p)
      PROVE  LookupFinds
  <2>1. /\ answer.kind = "prefix" /\ answer.value = p
        /\ answer.ids = {id \in Present :
                            ByteLeq(LikeMin(p), stored[id]) /\ ByteLeq(stored[id], LikeMax(p))}
    BY <1>3 DEF Beginning
  <2>2. ASSUME NEW id \in Present
        PROVE  ByteLeq(LikeMin(p), stored[id]) /\ ByteLeq(stored[id], LikeMax(p))
                   <=> IsPrefix(p, ReadBack(id))
    <3> DEFINE v == written[id]
    <3>1. v \in Samples(field) /\ stored[id] = Stored(v) /\ ReadBack(id) = Read(v)
      BY DEF FieldInv, Held, ReadBack, Read
    <3> HIDE DEF v
    <3>2. ByteLeq(LikeMin(p), Stored(v)) /\ ByteLeq(Stored(v), LikeMax(p)) <=> IsPrefix(p, Read(v))
      BY <1>1, <1>3, <3>1, PrefixFinds DEF LikeMin, LikeMax
    <3> QED  BY <3>1, <3>2
  <2>3. answer.ids = {id \in Present : IsPrefix(p, ReadBack(id))}  BY <2>1, <2>2
  <2>4. answer.kind # "equal"  BY <2>1
  <2> QED  BY <2>1, <2>3, <2>4 DEF LookupFinds
<1>4. CASE answer = NoAnswer
  <2>1. answer.kind = "none"  BY <1>4 DEF NoAnswer
  <2> QED  BY <2>1 DEF LookupFinds
<1> QED  BY <1>1, <1>2, <1>3, <1>4 DEF Answered

\* storage_encode_key() agrees with generic_store_bulk(): an index lookup finds exactly
\* the records a table scan would, equal to the value or beginning with it.
THEOREM LookupsFind == Spec => []LookupFinds
<1> QED  BY FieldInvariant, LookupFindsOfInv, PTL

\* The invariant says that Groonga's order is the order of the columns.
LEMMA KeyOrderOfInv == FieldInv => KeyOrder
<1> SUFFICES ASSUME FieldInv, HasKey(field), NEW a \in Ordinary, NEW b \in Ordinary
             PROVE  GrnLess(field, stored[a], stored[b])
                        <=> SqlLess(field, ReadBack(a), ReadBack(b))
  BY DEF KeyOrder
<1> DEFINE v == written[a]  w == written[b]
<1>1. a \in Kept /\ b \in Kept /\ ~NegativeFraction(field, v) /\ ~NegativeFraction(field, w)
  BY DEF Ordinary
<1>2. /\ Column /\ v \in Samples(field) /\ ~Shifted(field, v)
      /\ stored[a] = Stored(v) /\ ReadBack(a) = Read(v)
  BY <1>1, KeptFacts
<1>3. /\ w \in Samples(field) /\ ~Shifted(field, w)
      /\ stored[b] = Stored(w) /\ ReadBack(b) = Read(w)
  BY <1>1, KeptFacts
<1> HIDE DEF v, w
<1> QED  BY <1>1, <1>2, <1>3, OrderExact

\* Groonga's order of what a column holds is the order of SQL of what it reads: neither
\* an index nor ORDER BY ... LIMIT needs another sort.
THEOREM ColumnsKeepOrder == Spec => []KeyOrder
<1> QED  BY FieldInvariant, KeyOrderOfInv, PTL

\* The invariant says that the codec keeps the order of the columns.
LEMMA CodecOrderOfInv == FieldInv => CodecOrder
<1> DEFINE C == {id \in Ordinary : written[id] # Null /\ ~ZeroDate(field, written[id])}
           Enc(id) == encode(<<KeyPart(field)>>, <<KeyImage(field, written[id])>>)
<1> SUFFICES ASSUME FieldInv, InCodec(field), NEW a \in C, NEW b \in C
             PROVE  ByteLess(Enc(a), Enc(b)) <=> SqlLess(field, written[a], written[b])
  BY DEF CodecOrder
<1>1. a \in Kept /\ b \in Kept  BY DEF Ordinary
<1> DEFINE v == written[a]  w == written[b]
<1>2. v # Null /\ ~ZeroDate(field, v) /\ w # Null /\ ~ZeroDate(field, w)  OBVIOUS
<1>3. Column /\ v \in Samples(field) /\ ~Shifted(field, v)  BY <1>1, KeptFacts
<1>4. w \in Samples(field) /\ ~Shifted(field, w)  BY <1>1, KeptFacts
<1>5. Enc(a) = Encoded(v) /\ Enc(b) = Encoded(w)  BY DEF Encoded
<1> HIDE DEF v, w, Enc
<1>6. ByteLess(Encoded(v), Encoded(w)) <=> SqlLess(field, v, w)
  BY <1>2, <1>3, <1>4, CodecExact
<1> QED  BY <1>5, <1>6 DEF v, w

\* MultipleColumnKeyCodec: the order of the encoded bytes is the order of SQL.
THEOREM CodecKeepsOrder == Spec => []CodecOrder
<1> QED  BY FieldInvariant, CodecOrderOfInv, PTL
=============================================================================
