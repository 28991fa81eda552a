------------------------------ MODULE KeyCodec ------------------------------
(***************************************************************************)
(* lib/mrn_multiple_column_key_codec.cpp: the key of an index over several *)
(* columns is one byte string, and Groonga compares keys byte by byte.     *)
(* encode() must therefore make the order of the bytes the order of the    *)
(* columns, and decode() must give back what was encoded, because an index *)
(* only read takes the columns from the key.                               *)
(*                                                                         *)
(* A byte has Base values (256 in the program), its top bit is Base/2.     *)
(* A key part is [type, size, signed, nullable]; a value is an integer for *)
(* a number or a time, a record [neg, mag] for a FLOAT or a DOUBLE (sign   *)
(* and magnitude, the order of the bits of IEEE 754), and a sequence of    *)
(* bytes for a string.  Null is the value of a column that is NULL.        *)
(***************************************************************************)
EXTENDS Integers, Sequences, SequencesExt

CONSTANTS
    Base,        \* values of a byte
    BlobLength,  \* HA_KEY_BLOB_LENGTH: bytes that hold the length of a string
    Null

ASSUME BaseAssumption == Base \in Nat /\ Base >= 2 /\ Base % 2 = 0
ASSUME BlobAssumption == BlobLength \in 1 .. 8

\* The powers of Base up to eight bytes: for the provers, which know no `^'.
ASSUME PowerAssumption == Base ^ 0 = 1 /\ \A n \in 0 .. 7 : Base ^ (n + 1) = Base * Base ^ n

Half == Base \div 2
MaxByte == Base - 1                       \* 0xff

\* The data type and the size of a part in the key, by the type of the field.
get_key_info(t, length) ==
    CASE t \in {"TINY", "YEAR", "NULL", "BIT", "ENUM", "SET"} -> <<"NUMBER", 1>>
      [] t = "SHORT" -> <<"NUMBER", 2>>
      [] t \in {"INT24", "TIME"} -> <<"NUMBER", 3>>
      [] t = "LONG" -> <<"NUMBER", 4>>
      [] t = "LONGLONG" -> <<"NUMBER", 8>>
      [] t = "FLOAT" -> <<"FLOAT", 4>>
      [] t = "DOUBLE" -> <<"DOUBLE", 8>>
      [] t \in {"TIMESTAMP", "DATE", "NEWDATE"} -> <<"BYTE_REVERSE", length>>
      [] t = "DATETIME" -> <<"DATETIME", length>>
      [] t = "DATETIME2" -> <<"DATETIME2", length>>
      [] t \in {"VARCHAR", "VARCHAR_COMPRESSED", "TINY_BLOB", "MEDIUM_BLOB",
                "LONG_BLOB", "BLOB", "BLOB_COMPRESSED"} -> <<"BYTE_BLOB", length>>
      [] OTHER -> <<"BYTE_SEQUENCE", length>>

Zeros(n) == [i \in 1 .. n |-> 0]
Pad(b, n, byte) == b \o [i \in 1 .. (n - Len(b)) |-> byte]

\* The n bytes of an integer as the server keeps them, lowest byte first, and
\* back; a signed integer is in two's complement.
HostBytes(v, n) == [i \in 1 .. n |-> (v \div Base ^ (i - 1)) % Base]
HostUnsigned(b) ==
    LET value[i \in 1 .. Len(b) + 1] == IF i = Len(b) + 1 THEN 0 ELSE b[i] + Base * value[i + 1]
    IN  value[1]
HostSigned(b) ==
    IF b # <<>> /\ b[Len(b)] >= Half THEN HostUnsigned(b) - Base ^ Len(b) ELSE HostUnsigned(b)

host_to_network(b) == Reverse(b)
network_to_host(b) == Reverse(b)
FlipTop(b) == [b EXCEPT ![1] = (@ + Half) % Base]       \* grn_key[0] ^= 0x80
FlipAll(b) == [i \in DOMAIN b |-> MaxByte - b[i]]

encode_number(v, n, signed) ==
    LET b == host_to_network(HostBytes(v, n))
    IN  IF signed THEN FlipTop(b) ELSE b

\* Faulty variant: the sign is not flipped back.
DecodeNumberNoFlip(b, signed) ==
    IF signed THEN HostSigned(network_to_host(b)) ELSE HostUnsigned(network_to_host(b))

decode_number(b, signed) ==
    LET c == network_to_host(IF signed THEN FlipTop(b) ELSE b)
    IN  IF signed THEN HostSigned(c) ELSE HostUnsigned(c)

encode_long_long_int(v, n) == FlipTop(host_to_network(HostBytes(v, n)))
decode_long_long_int(b) == HostSigned(network_to_host(FlipTop(b)))

\* Faulty variant: only the sign bit is flipped.
EncodeFloatSignOnly(v, n) ==
    LET b == host_to_network(HostBytes(v.mag, n))
    IN  IF v.neg THEN b ELSE FlipTop(b)

\* int_value ^= (int_value >> n_bits) | (1 << n_bits): all the bits of a
\* negative number are flipped, of another one the sign bit.
encode_float(v, n) ==
    LET b == host_to_network(HostBytes(v.mag, n))
    IN  IF v.neg THEN FlipAll(FlipTop(b)) ELSE FlipTop(b)

decode_float(b) ==
    LET neg == b[1] < Half
        c == IF neg THEN FlipTop(FlipAll(b)) ELSE FlipTop(b)
    IN  [neg |-> neg, mag |-> HostUnsigned(network_to_host(c))]

\* The data, filled up with NUL bytes, and then its length.
encode_blob(v, n) == Pad(v, n, 0) \o HostBytes(Len(v), BlobLength)
decode_blob(b, n) == SubSeq(b, 1, HostUnsigned(SubSeq(b, n + 1, n + BlobLength)))

\* The bytes of a part; NULL is kept as the value 0 or the empty string.
PartSize(p) ==
    (IF p.nullable THEN 1 ELSE 0)
    + p.size + (IF p.type = "BYTE_BLOB" THEN BlobLength ELSE 0)

\* A part by its type, and the integers a part holds that is no string and no
\* floating point number.
IsPart(p) ==
    /\ p.nullable \in BOOLEAN /\ p.signed \in BOOLEAN
    /\ IF p.type = "BYTE_BLOB" THEN p.size \in Nat \ {0}
       ELSE /\ p.type \in {"NUMBER", "DATETIME", "DATETIME2", "BYTE_REVERSE", "FLOAT", "DOUBLE"}
            /\ p.size \in 1 .. 8
PartRange(p) ==
    IF p.type = "BYTE_REVERSE" \/ (p.type = "NUMBER" /\ ~p.signed)
    THEN 0 .. Base ^ p.size - 1
    ELSE -(Half * Base ^ (p.size - 1)) .. Half * Base ^ (p.size - 1) - 1

EncodePart(p, v) ==
    (IF p.nullable THEN <<0>> ELSE <<>>) \o
    CASE p.type = "NUMBER" -> encode_number(IF v = Null THEN 0 ELSE v, p.size, p.signed)
      [] p.type \in {"DATETIME", "DATETIME2"} ->
            encode_long_long_int(IF v = Null THEN 0 ELSE v, p.size)
      [] p.type \in {"FLOAT", "DOUBLE"} ->
            encode_float(IF v = Null THEN [neg |-> FALSE, mag |-> 0] ELSE v, p.size)
      [] p.type = "BYTE_REVERSE" -> Reverse(HostBytes(IF v = Null THEN 0 ELSE v, p.size))
      [] p.type = "BYTE_BLOB" -> encode_blob(IF v = Null THEN <<>> ELSE v, p.size)
      [] OTHER -> IF v = Null THEN Zeros(p.size) ELSE v

DecodePart(p, bytes) ==
    LET b == IF p.nullable THEN Tail(bytes) ELSE bytes
    IN  CASE p.type = "NUMBER" -> decode_number(b, p.signed)
          [] p.type \in {"DATETIME", "DATETIME2"} -> decode_long_long_int(b)
          [] p.type \in {"FLOAT", "DOUBLE"} -> decode_float(b)
          [] p.type = "BYTE_REVERSE" -> HostUnsigned(Reverse(b))
          [] p.type = "BYTE_BLOB" -> decode_blob(b, p.size)
          [] OTHER -> b

\* encode(): the key may give values to the first parts only.
encode(parts, key) ==
    FlattenSeq([i \in DOMAIN key |-> EncodePart(parts[i], key[i])])

Offset(parts, i) ==
    LET offset[j \in 1 .. i] == IF j = 1 THEN 0 ELSE offset[j - 1] + PartSize(parts[j - 1])
    IN  offset[i]

decode(parts, bytes) ==
    [i \in DOMAIN parts |->
        DecodePart(parts[i], SubSeq(bytes, Offset(parts, i) + 1,
                                    Offset(parts, i) + PartSize(parts[i])))]

size(parts) == Offset(parts, Len(parts) + 1)

\* storage_encode_multiple_column_key_range(): the least and the greatest key
\* that begins with the given parts.
LeastKey(parts, key) == Pad(encode(parts, key), size(parts), 0)
GreatestKey(parts, key) == Pad(encode(parts, key), size(parts), MaxByte)

-----------------------------------------------------------------------------
(***************************************************************************)
(* Groonga compares two keys byte by byte; a proper prefix comes first.    *)
(***************************************************************************)
ByteLess(b, c) ==
    LET n == IF Len(b) < Len(c) THEN Len(b) ELSE Len(c)
        D == {i \in 1 .. n : b[i] # c[i]}
    IN  IF D = {} THEN Len(b) < Len(c)
        ELSE LET i == CHOOSE i \in D : \A j \in D : i <= j IN b[i] < c[i]
ByteLeq(b, c) == b = c \/ ByteLess(b, c)
=============================================================================
