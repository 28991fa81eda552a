---------------------------- MODULE FieldValues ----------------------------
(***************************************************************************)
(* How a column of storage mode keeps its values (ha_mroonga.cpp): what    *)
(* INSERT makes of a field (generic_store_bulk), what SELECT gives back    *)
(* (storage_store_field), and the key an index lookup asks Groonga for     *)
(* (storage_encode_key, MultipleColumnKeyCodec).  The three were written   *)
(* type by type and must agree; the server takes their answers on trust.   *)
(*                                                                         *)
(* The table has one column, a `field' [type, length, unsigned, nullable]: *)
(* length is pack_length(), key_length(), the number of characters or, for *)
(* a GEOMETRY, its SRID.  SQL values are integers, [neg, mag] for floats,  *)
(* MYSQL_TIME records, byte sequences for texts, [sec, usec] for a         *)
(* TIMESTAMP, [class, x, y] for a geometry, in quarters of a millisecond   *)
(* of arc.  What Groonga holds is a sequence of bytes (lowest first) for   *)
(* an integer, an integer for a Time, whole milliseconds for a point.      *)
(***************************************************************************)
EXTENDS KeyCodec, TimeConverter

CONSTANTS
    Fields,        \* the columns to look at
    Samples(_),    \* the SQL values written to and looked up in a column
    LikePrefixes(_),   \* prefixes asked for with LIKE in a VARCHAR column
    Zones,         \* time zones of the server
    LatLong,       \* SRIDs of geographic reference systems, latitude first
    Rows,          \* record ids
    Space,         \* the byte of a space, min_sort_char
    None           \* no record

VARIABLES
    field, zone, strict,   \* the column, the server's time zone, strict mode
    written,               \* per record the SQL value of the last INSERT
    stored,                \* per record what Groonga holds
    warned,                \* per record: INSERT warned of truncated data
    answer                 \* what the last index lookup found

vars == <<field, zone, strict, written, stored, warned, answer>>

IntegerTypes == {"TINY", "SHORT", "INT24", "LONG", "LONGLONG"}
UnsignedTypes == {"BIT", "ENUM", "SET"}
Floats == {"FLOAT", "DOUBLE"}
Timestamps == {"TIMESTAMP", "TIMESTAMP2"}
Times == {"TIME", "TIME2"}
Datetimes == {"DATETIME", "DATETIME2"}
Texts == {"STRING", "VARCHAR", "BLOB", "NEWDECIMAL", "JSON"}

\* The width of Groonga's integer type for n bytes of the server.
Width(n) == CASE n <= 1 -> 1 [] n = 2 -> 2 [] n \in 3 .. 4 -> 4 [] OTHER -> 8

\* Faulty variant: UNSIGNED is not looked at.
TypeFromFieldSigned(f) ==
    [base |-> CASE f.type \in IntegerTypes -> "Int"
                [] f.type \in UnsignedTypes -> "UInt"
                [] f.type \in Floats -> "Float"
                [] f.type = "GEOMETRY" -> "WGS84GeoPoint"
                [] f.type \in Texts -> "Text"
                [] OTHER -> "Time",
     size |-> IF f.type \in IntegerTypes \cup UnsignedTypes THEN Width(f.length) ELSE 8]

\* The type of the Groonga column.
mrn_grn_type_from_field(f) ==
    CASE f.type \in IntegerTypes -> [base |-> IF f.unsigned THEN "UInt" ELSE "Int",
                                  size |-> Width(f.length)]
      [] f.type \in UnsignedTypes -> [base |-> "UInt", size |-> Width(f.length)]
      [] f.type \in Floats -> [base |-> "Float", size |-> 8]
      [] f.type \in Timestamps \cup Times \cup Datetimes \cup {"YEAR", "NEWDATE"} ->
            [base |-> "Time", size |-> 8]
      [] f.type = "GEOMETRY" -> [base |-> "WGS84GeoPoint", size |-> 8]
      [] OTHER -> [base |-> "Text", size |-> 0]

-----------------------------------------------------------------------------
(***************************************************************************)
(* The columns of the server and the values a field can have: a number has *)
(* the width of its column, floats are told apart as SQL does (there is no *)
(* negative zero), a CHAR has lost its trailing spaces and no text holds   *)
(* the byte 0.                                                             *)
(***************************************************************************)

IntegerLength == [TINY |-> 1, SHORT |-> 2, INT24 |-> 3, LONG |-> 4, LONGLONG |-> 8]
FieldTypes == IntegerTypes \cup UnsignedTypes \cup Floats \cup Timestamps \cup Times
                  \cup Datetimes \cup {"NEWDATE", "YEAR", "GEOMETRY"} \cup Texts

IsField(f) ==
    /\ f \in [type : FieldTypes, length : Nat, unsigned : BOOLEAN, nullable : BOOLEAN]
    /\ f.type \in IntegerTypes => f.length = IntegerLength[f.type]
    /\ f.type = "BIT" => f.length \in 1 .. 8
    /\ f.type = "ENUM" => f.length \in {1, 2}
    /\ f.type = "SET" => f.length \in {1, 2, 3, 4, 8}
    /\ f.type = "YEAR" => f.length \in {2, 4}

Bytes(f) == IF f.type = "FLOAT" THEN 4 ELSE 8
Usecs(type) == IF type \in {"TIMESTAMP", "TIME", "DATETIME", "NEWDATE"}
               THEN {0} ELSE 0 .. UsecPerSec - 1

MaxYear == 9999
MysqlTimes(type, negs, years, months, days, hours, seconds, usecs) ==
    [type : {type}, neg : negs, year : years, month : months, day : days,
     hour : hours, second : seconds, usec : usecs]

\* groonga.h: degrees to whole milliseconds of arc, rounded, and back.  The
\* coordinates of SQL are doubles; four steps to a millisecond tell apart what
\* is rounded up, rounded down, a half, and exact.
Msec == 4
GRN_GEO_DEGREE2MSEC(degree) ==
    IF degree > 0 THEN (degree + Msec \div 2) \div Msec
                  ELSE -((Msec \div 2 - degree) \div Msec)
GRN_GEO_MSEC2DEGREE(msec) == msec * Msec

\* What does not fit into the int of a grn_geo_point is undefined, and left out.
Coordinates == {d \in Int : GRN_GEO_DEGREE2MSEC(d) \in -(Half * Base ^ 3) .. Half * Base ^ 3 - 1}

\* The time fits into the eight bytes of Groonga's.
InRange(t) == t \in -(Half * Base ^ 7) .. Half * Base ^ 7 - 1

SqlValues(f) ==
    CASE f.type \in UnsignedTypes \/ (f.type \in IntegerTypes /\ f.unsigned) ->
            0 .. Base ^ f.length - 1
      [] f.type \in IntegerTypes /\ ~f.unsigned ->
            -(Half * Base ^ (f.length - 1)) .. Half * Base ^ (f.length - 1) - 1
      [] f.type \in Floats ->
            {x \in [neg : BOOLEAN, mag : 0 .. Half * Base ^ (Bytes(f) - 1) - 1] :
                x.neg => x.mag # 0}
      [] f.type \in Timestamps -> [sec : 0 .. Base ^ 8 - 1, usec : Usecs(f.type)]
      [] f.type \in Times ->
            {x \in MysqlTimes("TIME", BOOLEAN, {0}, {0}, {0}, 0 .. 838, 0 .. SecPerHour - 1,
                              Usecs(f.type)) :
                x.neg => x.hour # 0 \/ x.second # 0 \/ x.usec # 0}
      [] f.type \in Datetimes ->
            {x \in MysqlTimes("DATETIME", {FALSE}, 0 .. MaxYear, 0 .. 12, 0 .. 30, 0 .. 23,
                              0 .. SecPerHour - 1, Usecs(f.type)) :
                InRange(GRN_TIME_PACK(Clock(CorrectedTm(x)), x.usec))}
      [] f.type = "NEWDATE" ->
            MysqlTimes("DATE", {FALSE}, 0 .. MaxYear, 0 .. 12, 0 .. 30, {0}, {0}, {0})
      [] f.type = "YEAR" -> IF f.length = 2 THEN 0 .. 99 ELSE {0} \cup 1901 .. 2155
      [] f.type = "STRING" ->
            {b \in Seq(1 .. MaxByte) : Len(b) <= f.length /\ (b # <<>> => b[Len(b)] # Space)}
      [] f.type = "GEOMETRY" -> [class : STRING, x : Coordinates, y : Coordinates]
      [] OTHER -> {b \in Seq(1 .. MaxByte) : Len(b) <= f.length}

ASSUME FieldAssumption == \A f \in Fields : IsField(f)
ASSUME SampleAssumption ==
    \A f \in Fields : \A v \in Samples(f) : IF v = Null THEN f.nullable ELSE v \in SqlValues(f)
ASSUME SpaceAssumption == Space \in 1 .. MaxByte - 1
ASSUME PrefixAssumption ==
    \A f \in Fields : \A p \in LikePrefixes(f) :
        p \in Seq(1 .. MaxByte) /\ Len(p) \in 1 .. f.length /\ p[Len(p)] # Space
ASSUME ZoneAssumption ==
    \A z \in Zones : z \in [offset : -12 .. 14, start : Int, end : Int, early : BOOLEAN]
\* Three bytes hold a date; here it is as wide as a time.
ASSUME DateAssumption == MaxYear * 512 + 12 * 32 + 30 < Base ^ 8
\* Neither of the two stands for a value.
ASSUME NullAssumption ==
    \A n \in {Null, None} :
        n \notin Int /\ n \notin Seq(Int) /\ n \notin [neg : BOOLEAN, mag : Int]
ASSUME NoneAssumption ==
    /\ None \notin [latitude : Int, longitude : Int]
    /\ \A f \in Fields : None \notin Samples(f)

-----------------------------------------------------------------------------
(***************************************************************************)
(* generic_store_bulk(): from the field to Groonga.  [value, truncated,    *)
(* error]; in strict mode truncated data is an error.                      *)
(***************************************************************************)

Bulk(value, truncated) ==
    [value |-> value, truncated |-> truncated, error |-> truncated /\ strict]
Sound(value) == Bulk(value, FALSE)

generic_store_bulk_fixed_size_string(f, v) ==
    Sound(Pad(IF v = Null THEN <<>> ELSE v, f.length, Space))
generic_store_bulk_variable_size_string(f, v) == Sound(IF v = Null THEN <<>> ELSE v)

\* Faulty variant: all integers are written as signed ones one byte short.
StoreBulkIntegerNarrow(f, v) ==
    Sound(HostBytes(IF v = Null THEN 0 ELSE v, IF f.length = 3 THEN 2 ELSE Width(f.length)))

generic_store_bulk_integer(f, v) ==
    Sound(HostBytes(IF v = Null THEN 0 ELSE v, Width(f.length)))
generic_store_bulk_unsigned_integer(f, v) ==
    Sound(HostBytes(IF v = Null THEN 0 ELSE v, Width(f.length)))

\* A float as a double: the order of the bits stays.
Widened(f, v) == IF f.type = "FLOAT" THEN [v EXCEPT !.mag = @ * Base ^ 4] ELSE v
generic_store_bulk_float(f, v) ==
    Sound(Widened(f, IF v = Null THEN [neg |-> FALSE, mag |-> 0] ELSE v))

\* TimestampFieldValueConverter: seconds since 1970, in UTC.
ConvertTimestamp(v) == GRN_TIME_PACK(v.sec, v.usec)
generic_store_bulk_timestamp(v) == Sound(IF v = Null THEN 0 ELSE ConvertTimestamp(v))

\* DATETIME, DATETIME2, TIME, TIME2 and NEWDATE.
StoreBulkMysqlTime(v) ==
    IF v = Null THEN Sound(0)
    ELSE LET c == mysql_time_to_grn_time(zone, v) IN Bulk(c.time, c.truncated)

YearTm(f, v) ==
    LET year == IF v = Null THEN 1970
                ELSE IF f.length # 2 THEN v
                ELSE IF v < 70 THEN 2000 + v ELSE 1900 + v
    IN  Tm(year - TM_YEAR_BASE, 0, 1, 0, 0)
generic_store_bulk_year(f, v) == Sound(tm_to_grn_time(zone, YearTm(f, v), 0))

\* val_str(): the digits.
generic_store_bulk_new_decimal(v) == Sound(v)

\* Faulty variant: the coordinates are cut off, not rounded.
StoreBulkGeometryCut(v) ==
    [value |-> [latitude |-> v.x \div Msec, longitude |-> v.y \div Msec],
     truncated |-> FALSE, error |-> v.class # "point"]

\* mrn_set_geometry(): points only; the first coordinate is the latitude,
\* whatever the SRID says.
generic_store_bulk_geometry(v) ==
    [value |-> [latitude |-> GRN_GEO_DEGREE2MSEC(v.x), longitude |-> GRN_GEO_DEGREE2MSEC(v.y)],
     truncated |-> FALSE, error |-> v.class # "point"]

generic_store_bulk(f, v) ==
    CASE f.type \in IntegerTypes -> generic_store_bulk_integer(f, v)
      [] f.type \in UnsignedTypes -> generic_store_bulk_unsigned_integer(f, v)
      [] f.type \in Floats -> generic_store_bulk_float(f, v)
      [] f.type \in Timestamps -> generic_store_bulk_timestamp(v)
      [] f.type \in Times \cup Datetimes \cup {"NEWDATE"} -> StoreBulkMysqlTime(v)
      [] f.type = "YEAR" -> generic_store_bulk_year(f, v)
      [] f.type = "NEWDECIMAL" -> generic_store_bulk_new_decimal(v)
      [] f.type = "STRING" -> generic_store_bulk_fixed_size_string(f, v)
      [] f.type = "GEOMETRY" -> generic_store_bulk_geometry(v)
      [] OTHER -> generic_store_bulk_variable_size_string(f, v)

-----------------------------------------------------------------------------
(***************************************************************************)
(* storage_store_field(): from Groonga to the field, which is never NULL.  *)
(***************************************************************************)

\* The server takes the padding of a CHAR off again.
Unpadded(b) == LET D == {i \in DOMAIN b : b[i] # Space}
               IN  IF D = {} THEN <<>> ELSE SubSeq(b, 1, CHOOSE i \in D : \A j \in D : j <= i)
storage_store_field_string(f, g) == IF f.type = "STRING" THEN Unpadded(g) ELSE g

storage_store_field_integer(f, g) == IF f.unsigned THEN HostUnsigned(g) ELSE HostSigned(g)
storage_store_field_unsigned_integer(g) == HostUnsigned(g)
storage_store_field_float(f, g) ==
    IF f.type = "FLOAT" THEN [g EXCEPT !.mag = @ \div Base ^ 4] ELSE g
storage_store_field_timestamp(g) == GRN_TIME_UNPACK(g)
storage_store_field_time(g) == grn_time_to_mysql_time("TIME", g)
storage_store_field_datetime(g) == grn_time_to_mysql_time("DATETIME", g)
storage_store_field_new_date(g) == grn_time_to_mysql_time("DATE", g)
storage_store_field_year(f, g) ==
    LET year == grn_time_to_mysql_time("DATE", g).year
    IN  IF f.length = 2 THEN year % 100 ELSE year          \* what YEAR(2) keeps of it
\* The server keeps the longitude first where its reference system names the
\* latitude first.
geo_need_reverse(f) == f.length # 0 /\ f.length \in LatLong
storage_store_field_geometry(f, g) ==
    LET latitude == GRN_GEO_MSEC2DEGREE(g.latitude)
        longitude == GRN_GEO_MSEC2DEGREE(g.longitude)
    IN  IF geo_need_reverse(f) THEN [class |-> "point", x |-> longitude, y |-> latitude]
                               ELSE [class |-> "point", x |-> latitude, y |-> longitude]

storage_store_field(f, g) ==
    CASE f.type \in IntegerTypes -> storage_store_field_integer(f, g)
      [] f.type \in UnsignedTypes -> storage_store_field_unsigned_integer(g)
      [] f.type \in Floats -> storage_store_field_float(f, g)
      [] f.type \in Timestamps -> storage_store_field_timestamp(g)
      [] f.type \in Times -> storage_store_field_time(g)
      [] f.type \in Datetimes -> storage_store_field_datetime(g)
      [] f.type = "YEAR" -> storage_store_field_year(f, g)
      [] f.type = "NEWDATE" -> storage_store_field_new_date(g)
      [] f.type = "GEOMETRY" -> storage_store_field_geometry(f, g)
      [] OTHER -> storage_store_field_string(f, g)

-----------------------------------------------------------------------------
(***************************************************************************)
(* storage_encode_key(): from the key the server looks up to Groonga's.    *)
(***************************************************************************)

\* Trailing bytes of the least character, but never the first byte, become 0:
\* the server fills the lower end of a LIKE range with them.
storage_encode_key_normalize_min_sort_chars(b) ==
    LET D == {i \in DOMAIN b : b[i] # Space}
        last == IF D = {} THEN 1 ELSE CHOOSE i \in D : \A j \in D : j <= i
    IN  [i \in DOMAIN b |-> IF i > last THEN 0 ELSE b[i]]

storage_encode_key_fixed_size_string(f, v) == Pad(v, f.length, Space)
storage_encode_key_variable_size_string(v) == storage_encode_key_normalize_min_sort_chars(v)

\* The normalizer of the index table ends a text at the first byte 0.
NormalizedKey(b) == LET D == {i \in DOMAIN b : b[i] = 0}
                    IN  IF D = {} THEN b ELSE SubSeq(b, 1, (CHOOSE i \in D : \A j \in D : i <= j) - 1)

\* gmt_sec_to_TIME() breaks the seconds down in UTC; the converter reads the
\* result as a clock time.
storage_encode_key_timestamp(v) ==
    LET tm == gmtime(v.sec)
    IN  mysql_time_to_grn_time(zone,
            MysqlTime("DATETIME", FALSE, tm.year + TM_YEAR_BASE, tm.mon + 1, tm.mday,
                      tm.hour, tm.sec, v.usec)).time
storage_encode_key_timestamp2(v) == storage_encode_key_timestamp(v)

\* The key of TIME is signed decimal digits.
storage_encode_key_time(v) ==
    LET digits == v.hour * 100 + v.second
        packed == IF v.neg THEN -digits ELSE digits
        p == IF packed < 0 THEN -packed ELSE packed
    IN  mysql_time_to_grn_time(zone,
            MysqlTime("TIME", packed < 0, 0, 0, 0, p \div 100, p % 100, 0)).time

\* The key of YEAR is one byte, the years since 1900; 0 is the year 0000.
YearByte(f, v) ==
    IF f.length = 2 THEN IF v < 70 THEN v + 100 ELSE v
                    ELSE IF v = 0 THEN 0 ELSE v - 1900
storage_encode_key_year(f, v) == tm_to_grn_time(zone, Tm(YearByte(f, v), 0, 1, 0, 0), 0)

\* The key of DATETIME is decimal digits too; here no zero month is looked for.
storage_encode_key_datetime(v) ==
    LET part1 == v.year * 10000 + v.month * 100 + v.day
        part2 == v.hour * 100 + v.second
    IN  tm_to_grn_time(zone, Tm(part1 \div 10000 - TM_YEAR_BASE, ((part1 \div 100) % 100) - 1,
                                part1 % 100, part2 \div 100, part2 % 100), 0)
storage_encode_key_datetime2(v) == mysql_time_to_grn_time(zone, v).time
storage_encode_key_time2(v) == mysql_time_to_grn_time(zone, v).time

\* The three bytes of a DATE: year, month, day.
PackedDate(v) == v.year * (16 * 32) + v.month * 32 + v.day
storage_encode_key_new_date(v) ==
    LET d == PackedDate(v)
    IN  tm_to_grn_time(zone, Tm(d \div (16 * 32) - TM_YEAR_BASE, ((d \div 32) % 16) - 1, d % 32, 0, 0), 0)

\* MEDIUMINT: three bytes and a 0.
storage_encode_key_int(f, v) ==
    IF f.type = "INT24" THEN HostBytes(v, 3) \o <<0>> ELSE HostBytes(v, f.length)
storage_encode_key_bit(f, v) == HostBytes(v, Width(f.length))
storage_encode_key_enum(f, v) == HostBytes(v, IF f.length = 1 THEN 1 ELSE 2)
\* Faulty variant: a SET is looked up with the bytes the server keeps.
EncodeKeySetPacked(f, v) == HostBytes(v, f.length)
storage_encode_key_set(f, v) == HostBytes(v, Width(f.length))
storage_encode_key_float(f, v) == Widened(f, v)

storage_encode_key(f, v) ==
    CASE f.type \in IntegerTypes -> storage_encode_key_int(f, v)
      [] f.type = "BIT" -> storage_encode_key_bit(f, v)
      [] f.type = "ENUM" -> storage_encode_key_enum(f, v)
      [] f.type = "SET" -> storage_encode_key_set(f, v)
      [] f.type \in Floats -> storage_encode_key_float(f, v)
      [] f.type = "TIMESTAMP" -> storage_encode_key_timestamp(v)
      [] f.type = "TIMESTAMP2" -> storage_encode_key_timestamp2(v)
      [] f.type = "TIME" -> storage_encode_key_time(v)
      [] f.type = "TIME2" -> storage_encode_key_time2(v)
      [] f.type = "YEAR" -> storage_encode_key_year(f, v)
      [] f.type = "DATETIME" -> storage_encode_key_datetime(v)
      [] f.type = "DATETIME2" -> storage_encode_key_datetime2(v)
      [] f.type = "NEWDATE" -> storage_encode_key_new_date(v)
      [] f.type = "STRING" -> storage_encode_key_fixed_size_string(f, v)
      [] OTHER -> storage_encode_key_variable_size_string(v)

\* default: HA_ERR_UNSUPPORTED
HasKey(f) == f.type \notin {"NEWDECIMAL", "GEOMETRY", "JSON"}

-----------------------------------------------------------------------------
(***************************************************************************)
(* MultipleColumnKeyCodec: the column as a part of a key.                  *)
(***************************************************************************)

InCodec(f) == f.type \in IntegerTypes \cup Floats \cup Datetimes
                         \cup {"NEWDATE", "TIMESTAMP", "STRING", "VARCHAR", "BLOB"}

KeyPart(f) ==
    LET info == get_key_info(f.type, IF f.type \in Texts THEN f.length ELSE 8)
    IN  [type |-> info[1], size |-> info[2], signed |-> ~f.unsigned, nullable |-> f.nullable]

\* The key image of the server, a DATETIME already turned into Groonga's time.
KeyImage(f, v) ==
    CASE f.type = "DATETIME" ->
            mysql_datetime_to_grn_time(zone, v.year * 10000 + v.month * 100 + v.day,
                                       v.hour * 100 + v.second).time
      [] f.type = "DATETIME2" -> mysql_time_to_grn_time(zone, v).time
      [] f.type = "NEWDATE" -> PackedDate(v)
      [] f.type = "TIMESTAMP" -> v.sec
      [] f.type = "STRING" -> Pad(v, f.length, Space)
      [] OTHER -> v

-----------------------------------------------------------------------------
(***************************************************************************)
(* The statements.                                                         *)
(***************************************************************************)

NoAnswer == [kind |-> "none"]

\* What a Groonga column holds before a value is set.
GrnDefault(f) ==
    LET t == mrn_grn_type_from_field(f)
    IN  CASE t.base \in {"Int", "UInt"} -> HostBytes(0, t.size)
          [] t.base = "Float" -> [neg |-> FALSE, mag |-> 0]
          [] t.base = "Time" -> 0
          [] t.base = "WGS84GeoPoint" -> [latitude |-> 0, longitude |-> 0]
          [] OTHER -> <<>>

\* INSERT sets no value for a NULL of these types.
SkipsNull(f) == f.type \in {"INT24", "LONGLONG", "NEWDECIMAL", "GEOMETRY", "JSON"}

\* INSERT: a new record holds Groonga's default until a value is set; a failing
\* statement deletes it again.
WriteRow(id, v) ==
    LET skipped == v = Null /\ SkipsNull(field)
        b == IF skipped THEN Sound(GrnDefault(field)) ELSE generic_store_bulk(field, v)
    IN  /\ stored[id] = None
        /\ IF b.error
           THEN UNCHANGED <<written, stored, warned>>
           ELSE /\ written' = [written EXCEPT ![id] = v]
                /\ stored' = [stored EXCEPT ![id] = b.value]
                /\ warned' = [warned EXCEPT ![id] = b.truncated]
        /\ answer' = NoAnswer
        /\ UNCHANGED <<field, zone, strict>>

\* UPDATE: a NULL is passed over, the column keeps its value; an error of the
\* conversion is not looked at, truncated data is written in strict mode too.
\* (What is not a point leaves nothing defined to write and is left out.)
UpdateRow(id, v) ==
    LET b == generic_store_bulk(field, v)
    IN  /\ stored[id] # None /\ v # Null
        /\ field.type = "GEOMETRY" => v.class = "point"
        /\ written' = [written EXCEPT ![id] = v]
        /\ stored' = [stored EXCEPT ![id] = b.value]
        /\ warned' = [warned EXCEPT ![id] = b.truncated]
        /\ answer' = NoAnswer
        /\ UNCHANGED <<field, zone, strict>>

Present == {id \in Rows : stored[id] # None}

\* WHERE column = v through a single column index.
LookUp(v) ==
    /\ HasKey(field) /\ v # Null
    /\ answer' = [kind |-> "equal", value |-> v,
                  ids |-> {id \in Present : stored[id] = storage_encode_key(field, v)}]
    /\ UNCHANGED <<field, zone, strict, written, stored, warned>>

\* WHERE column LIKE 'p%': the server fills p up with the least and the
\* greatest character.
LookUpPrefix(p) ==
    LET min == NormalizedKey(storage_encode_key_variable_size_string(Pad(p, field.length, Space)))
        max == NormalizedKey(storage_encode_key_variable_size_string(Pad(p, field.length, MaxByte)))
    IN  /\ field.type = "VARCHAR"
        /\ answer' = [kind |-> "prefix", value |-> p,
                      ids |-> {id \in Present : ByteLeq(min, stored[id]) /\ ByteLeq(stored[id], max)}]
        /\ UNCHANGED <<field, zone, strict, written, stored, warned>>

Init ==
    /\ field \in Fields /\ zone \in Zones /\ strict \in BOOLEAN
    /\ written = [id \in Rows |-> None]
    /\ stored = [id \in Rows |-> None]
    /\ warned = [id \in Rows |-> FALSE]
    /\ answer = NoAnswer

Next ==
    \/ \E id \in Rows, v \in Samples(field) : WriteRow(id, v) \/ UpdateRow(id, v)
    \/ \E v \in Samples(field) : LookUp(v)
    \/ \E p \in LikePrefixes(field) : LookUpPrefix(p)

Spec == Init /\ [][Next]_vars

-----------------------------------------------------------------------------
(***************************************************************************)
(* Values the conversions are known to change or to miss.                  *)
(***************************************************************************)

Dated(f) == f.type \in Datetimes \cup {"NEWDATE"}
ZeroDate(f, v) == Dated(f) /\ v # Null /\ (v.month = 0 \/ v.day = 0)

\* The clock time to store is skipped by the server's time zone: an hour is
\* added or taken by tm_to_time_gm().
Shifted(f, v) ==
    \/ Dated(f) /\ v # Null /\ InGap(zone, Clock(CorrectedTm(v)))
    \/ f.type = "YEAR" /\ InGap(zone, Clock(YearTm(f, v)))

\* A lookup asks the time zone for the clock time of a TIMESTAMP too.
Skipped(f, v) ==
    Shifted(f, v) \/ (f.type \in Timestamps /\ v # Null /\ InGap(zone, v.sec))

\* A fraction of a second before the epoch or of a negative TIME: / and % of C
\* give it back negative.
NegativeFraction(f, v) ==
    v # Null /\ (\/ f.type = "TIME2" /\ v.neg /\ v.usec # 0
                 \/ f.type = "DATETIME2" /\ v.year < 1970 /\ v.usec # 0)

\* INSERT takes the first coordinate for the latitude and SELECT gives it back
\* as the second one.
AxesSwapped(f) == f.type = "GEOMETRY" /\ geo_need_reverse(f)

\* The key ends in the least character, which becomes 0.
EndsInSpace(f, v) == f.type \in {"VARCHAR", "BLOB"} /\ Len(v) > 1 /\ v[Len(v)] = Space

LookupDiffers(f, v) ==
    \/ ZeroDate(f, v) \/ Skipped(f, v) \/ NegativeFraction(f, v) \/ EndsInSpace(f, v)
    \/ f.type = "YEAR" /\ f.length = 4 /\ v = 0       \* looked up as 1900
    \/ f.type = "INT24" /\ ~f.unsigned /\ v < 0       \* looked up as positive

-----------------------------------------------------------------------------
(***************************************************************************)
(* What the columns promise.                                               *)
(***************************************************************************)

ReadBack(id) == storage_store_field(field, stored[id])

\* The records whose clock time exists in the server's time zone.
Kept == {id \in Present : ~Shifted(field, written[id])}

\* The values of a column have the width of the Groonga column that was
\* created for it: Groonga neither casts nor refuses what INSERT writes.
FieldTypeOK ==
    /\ field \in Fields /\ zone \in Zones /\ strict \in BOOLEAN
    /\ \A id \in Rows : (stored[id] = None) <=> (written[id] = None)
    /\ \A id \in Present :
          LET t == mrn_grn_type_from_field(field)
          IN  CASE t.base \in {"Int", "UInt"} -> stored[id] \in [1 .. t.size -> 0 .. MaxByte]
                [] t.base = "Time" -> stored[id] \in Int
                [] t.base = "Float" -> DOMAIN stored[id] = {"neg", "mag"}
                [] t.base = "WGS84GeoPoint" -> DOMAIN stored[id] = {"latitude", "longitude"}
                [] OTHER -> DOMAIN stored[id] = 1 .. Len(stored[id])

\* What SELECT makes of a column that was written as NULL: Mroonga keeps no
\* NULL and gives the value back that stands for it.
NullReads ==
    CASE field.type \in IntegerTypes \cup UnsignedTypes -> 0
      [] field.type \in Floats -> [neg |-> FALSE, mag |-> 0]
      [] field.type \in Timestamps -> [sec |-> 0, usec |-> 0]
      [] field.type \in Times -> MysqlTime("TIME", FALSE, 0, 0, 0, 0, 0, 0)
      [] field.type \in Datetimes -> MysqlTime("DATETIME", FALSE, 1970, 1, 1, 0, 0, 0)
      [] field.type = "NEWDATE" -> MysqlTime("DATE", FALSE, 1970, 1, 1, 0, 0, 0)
      [] field.type = "YEAR" -> IF field.length = 2 THEN 70 ELSE 1970
      [] field.type = "GEOMETRY" -> [class |-> "point", x |-> 0, y |-> 0]
      [] OTHER -> <<>>

\* A geometry is rounded to the next millisecond of arc: a point of at most
\* half a millisecond away in each coordinate.
Near(a, b) == 2 * (a - b) <= Msec /\ 2 * (b - a) <= Msec
SameGeometry(g, h) == g.class = h.class /\ Near(g.x, h.x) /\ Near(g.y, h.y)
SameValue(f, v, w) == IF f.type = "GEOMETRY" THEN SameGeometry(v, w) ELSE v = w

\* generic_store_bulk() and storage_store_field() are inverse to each other: a
\* value is read as it was written (a geometry: to the millisecond of arc),
\* unless INSERT has warned, in whatever time zone the server runs, whatever
\* the width and the sign of the column.  The exceptions are the values and
\* columns of the section above.
ReadsBack ==
    \A id \in Kept :
        /\ written[id] = Null => ReadBack(id) = NullReads
        /\ written[id] # Null /\ ~SameValue(field, ReadBack(id), written[id]) =>
              warned[id] \/ NegativeFraction(field, written[id]) \/ AxesSwapped(field)

\* storage_encode_key() and generic_store_bulk() agree: an index lookup finds
\* exactly the records a table scan would, equal to the value or, for LIKE,
\* beginning with it.
LookupFinds ==
    /\ answer.kind = "equal" /\ ~LookupDiffers(field, answer.value) =>
          answer.ids \cap Kept = {id \in Kept : ReadBack(id) = answer.value}
    /\ answer.kind = "prefix" =>
          answer.ids = {id \in Present : IsPrefix(answer.value, ReadBack(id))}

\* A value in the order SQL has for its type.
Signed(neg, n) == IF neg THEN -n ELSE n
SqlRank(f, v) ==
    CASE f.type \in Floats -> Signed(v.neg, v.mag)
      [] f.type \in Timestamps -> GRN_TIME_PACK(v.sec, v.usec)
      [] f.type \in Times -> Signed(v.neg, GRN_TIME_PACK(v.hour * SecPerHour + v.second, v.usec))
      [] Dated(f) -> GRN_TIME_PACK(Clock(Tm(v.year - TM_YEAR_BASE, v.month - 1, v.day, v.hour,
                                            v.second)), v.usec)
      [] f.type = "YEAR" -> YearByte(f, v)
      [] OTHER -> v
SqlLess(f, v, w) ==
    CASE f.type = "STRING" -> ByteLess(Pad(v, f.length, Space), Pad(w, f.length, Space))
      [] f.type \in Texts \ {"STRING"} -> ByteLess(v, w)
      [] OTHER -> SqlRank(f, v) < SqlRank(f, w)

\* The order of Groonga's types.
GrnLess(f, g, h) ==
    LET t == mrn_grn_type_from_field(f)
    IN  CASE t.base = "Int" -> HostSigned(g) < HostSigned(h)
          [] t.base = "UInt" -> HostUnsigned(g) < HostUnsigned(h)
          [] t.base = "Float" -> Signed(g.neg, g.mag) < Signed(h.neg, h.mag)
          [] t.base = "Time" -> g < h
          [] OTHER -> ByteLess(g, h)

Ordinary == {id \in Kept : ~NegativeFraction(field, written[id])}

\* The index of a column, and ORDER BY ... LIMIT sorted by Groonga, deliver the
\* records in the order of SQL: the server does not sort them again.
KeyOrder ==
    HasKey(field) =>
        \A a, b \in Ordinary :
            GrnLess(field, stored[a], stored[b]) <=> SqlLess(field, ReadBack(a), ReadBack(b))

\* The same for a column within a key of several columns: the order of the
\* encoded bytes, which also decide a range and a duplicate, is that of SQL.
CodecOrder ==
    InCodec(field) =>
        \A a, b \in {id \in Ordinary : written[id] # Null /\ ~ZeroDate(field, written[id])} :
            LET Enc(id) == encode(<<KeyPart(field)>>, <<KeyImage(field, written[id])>>)
            IN  ByteLess(Enc(a), Enc(b)) <=> SqlLess(field, written[a], written[b])
=============================================================================
