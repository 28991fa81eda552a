-------------------------- MODULE MCFieldValues ---------------------------
(***************************************************************************)
(* Every type and width a column can have, and for each the values at its  *)
(* edges: the least and the greatest, zero, the values around the sign     *)
(* bit, the first and the last day of a month and a year, both sides of    *)
(* 1970, zero months, fractions, the hour a time zone skips, and points    *)
(* that are rounded up, down and to the ends of an int.                    *)
(***************************************************************************)
EXTENDS FieldValues

F(type, length, unsigned, nullable) ==
    [type |-> type, length |-> length, unsigned |-> unsigned, nullable |-> nullable]

\* No reference system, a projected one, and one that names the latitude first.
MCGeometryFields == {F("GEOMETRY", srid, FALSE, TRUE) : srid \in {0, 3857, 4326}}

MCFields ==
    {F(t, IntegerLength[t], u, u) : t \in IntegerTypes, u \in BOOLEAN}
    \cup {F("BIT", n, TRUE, FALSE) : n \in {1, 2, 3, 5}}
    \cup {F("ENUM", n, TRUE, TRUE) : n \in {1, 2}}
    \cup {F("SET", n, TRUE, TRUE) : n \in {1, 3, 8}}
    \cup {F(t, 8, FALSE, t = "DOUBLE") : t \in Floats}
    \cup {F(t, 8, TRUE, TRUE) : t \in Timestamps \cup Times \cup Datetimes \cup {"NEWDATE"}}
    \cup {F("YEAR", n, TRUE, TRUE) : n \in {2, 4}}
    \cup {F(t, 3, TRUE, t # "VARCHAR") : t \in {"STRING", "VARCHAR", "BLOB", "NEWDECIMAL"}}
    \cup {F("JSON", 8, TRUE, TRUE)}
    \cup MCGeometryFields

Top(f) == Base ^ f.length - 1
IntegerSamples(f) ==
    IF f.unsigned THEN {0, 1, (Top(f) + 1) \div 2, Top(f)}
                  ELSE {-((Top(f) + 1) \div 2), -1, 0, Top(f) \div 2}

FloatSamples(f) ==
    {[neg |-> s, mag |-> m] : s \in BOOLEAN, m \in {1, Base ^ Bytes(f) \div 2 - 1}}
        \cup {[neg |-> FALSE, mag |-> 0]}

DT(y, m, d, h, s, u) == MysqlTime("DATETIME", FALSE, y, m, d, h, s, u)
Datetimes0 ==
    {DT(1969, 12, 30, 23, 1, 0), DT(1970, 1, 1, 0, 0, 0), DT(2000, 3, 1, 0, 0, 0),
     DT(2000, 2, 30, 22, 1, 0), DT(2000, 3, 10, 2, 1, 0), DT(2000, 9, 10, 2, 0, 0),
     DT(2000, 0, 1, 0, 0, 0)}
Dates ==
    {MysqlTime("DATE", FALSE, x[1], x[2], x[3], 0, 0, 0) :
        x \in {<<1969, 12, 30>>, <<1970, 1, 1>>, <<2000, 3, 1>>, <<2000, 2, 30>>,
               <<2000, 3, 10>>, <<2000, 3, 9>>, <<2000, 2, 0>>}}
TimeSamples ==
    {MysqlTime("TIME", x[1], 0, 0, 0, x[2], x[3], 0) :
        x \in {<<FALSE, 0, 0>>, <<TRUE, 0, 1>>, <<FALSE, 23, 1>>, <<TRUE, 838, 1>>}}

\* Texts: the bytes are below the byte of no character, the space is 1.
TextSamples == {<<>>, <<3>>, <<3, 2>>, <<3, 2, 7>>, <<4>>}
SpacedSamples == {<<1>>, <<3, 1>>}

MCSamples(f) ==
    (IF f.nullable THEN {Null} ELSE {}) \cup
    CASE f.type \in IntegerTypes \cup UnsignedTypes -> IntegerSamples(f)
      [] f.type \in Floats -> FloatSamples(f)
      [] f.type \in Timestamps ->
            {[sec |-> 0, usec |-> 0],
             [sec |-> Clock(Tm(100, 2, 10, 2, 1)), usec |-> 0],
             [sec |-> Clock(Tm(100, 2, 1, 0, 0)), usec |-> 0],
             [sec |-> Clock(Tm(138, 0, 19, 3, 1)), usec |-> IF f.type = "TIMESTAMP2" THEN 1 ELSE 0]}
      [] f.type = "TIME" -> TimeSamples
      [] f.type = "TIME2" ->
            TimeSamples \cup {MysqlTime("TIME", x, 0, 0, 0, 0, 1, 1) : x \in BOOLEAN}
      [] f.type = "DATETIME" -> Datetimes0
      [] f.type = "DATETIME2" ->
            Datetimes0 \cup {DT(1969, 12, 30, 23, 1, 1), DT(2000, 3, 1, 0, 0, 1)}
      [] f.type = "NEWDATE" -> Dates
      [] f.type = "YEAR" -> IF f.length = 2 THEN {0, 69, 70, 99} ELSE {0, 1901, 1970, 2069, 2155}
      [] f.type = "GEOMETRY" ->
            {[class |-> "point", x |-> x, y |-> y] :
                x \in {-(4 * 2048) - 1, -2, 1}, y \in {-3, 2, 4 * 2047 + 1}}
            \cup {[class |-> "linestring", x |-> 0, y |-> 0]}
      [] f.type \in {"VARCHAR", "BLOB"} -> TextSamples \cup SpacedSamples
      [] OTHER -> TextSamples

MCLikePrefixes(f) == IF f.type = "VARCHAR" THEN {<<3>>, <<3, 2>>, <<4>>} ELSE {}

Zone(offset, start, end, early) ==
    [offset |-> offset, start |-> start, end |-> end, early |-> early]

\* UTC; nine hours ahead; five behind with summer time from March 10 2 o'clock
\* to September 10; and ahead with summer time that begins at midnight, of
\* March 10 or of a New Year.
MCZones ==
    {Zone(0, 0, 0, FALSE), Zone(9, 0, 0, FALSE),
     Zone(3, Clock(Tm(168, 11, 30, 21, 0)), Clock(Tm(169, 8, 9, 21, 0)), TRUE)}
    \cup {Zone(-5, Clock(Tm(100, 2, 10, 7, 0)), Clock(Tm(100, 8, 10, 7, 0)), e) : e \in BOOLEAN}
    \cup {Zone(2, Clock(Tm(100, 2, 9, 22, 0)), Clock(Tm(100, 8, 9, 22, 0)), e) : e \in BOOLEAN}
=============================================================================
