--------------------------- MODULE TimeConverter ---------------------------
(***************************************************************************)
(* lib/mrn_time_converter.cpp: a MySQL time becomes Groonga's Time, the    *)
(* microseconds since 1970 of the clock time read as UTC, and back.        *)
(*                                                                         *)
(* The only C function that turns a broken-down time into seconds is       *)
(* mktime(), which works in the local time zone; tm_to_time_gm() therefore *)
(* adds the difference between the local time and UTC again.               *)
(*                                                                         *)
(* The calendar is simplified: 12 months of 30 days, SecPerHour seconds in *)
(* an hour (minutes and seconds are one field), UsecPerSec fractions of a  *)
(* second.  A time zone is [offset, start, end, early]: hours to UTC, the  *)
(* seconds between which summer time adds an hour, and which of the two    *)
(* readings of a doubtful local time the C library takes.                  *)
(***************************************************************************)
EXTENDS Integers

CONSTANTS SecPerHour, UsecPerSec

\* The rest of an hour is written in two digits.
ASSUME ClockAssumption == SecPerHour \in 1 .. 100 /\ UsecPerSec \in Nat \ {0}

TM_YEAR_BASE == 1900
SecPerDay == 24 * SecPerHour

\* Division of C: towards zero.
TruncDiv(a, b) == IF a >= 0 THEN a \div b ELSE -((-a) \div b)
TruncMod(a, b) == a - b * TruncDiv(a, b)

GRN_TIME_PACK(sec, usec) == sec * UsecPerSec + usec
GRN_TIME_UNPACK(t) == [sec |-> TruncDiv(t, UsecPerSec), usec |-> TruncMod(t, UsecPerSec)]

-----------------------------------------------------------------------------
(* The C library. *)

\* A struct tm, its fields in any range.
Tm(year, mon, mday, hour, sec) ==
    [year |-> year, mon |-> mon, mday |-> mday, hour |-> hour, sec |-> sec]

Clock(tm) ==
    (((tm.year + TM_YEAR_BASE - 1970) * 12 + tm.mon) * 30 + tm.mday - 1) * SecPerDay
    + tm.hour * SecPerHour + tm.sec

gmtime(s) ==
    LET d == s \div SecPerDay
    IN  Tm(1970 + d \div 360 - TM_YEAR_BASE, (d % 360) \div 30, (d % 30) + 1,
           (s \div SecPerHour) % 24, s % SecPerHour)

LocalClock(zone, s) ==
    s + (zone.offset + IF zone.start <= s /\ s < zone.end THEN 1 ELSE 0) * SecPerHour

Readings(zone, clock) ==
    {s \in {clock - zone.offset * SecPerHour, clock - (zone.offset + 1) * SecPerHour} :
        LocalClock(zone, s) = clock}

\* The clock time does not exist: it is skipped when summer time begins.
InGap(zone, clock) == Readings(zone, clock) = {}

mktime(zone, tm) ==
    LET clock == Clock(tm)
        R == Readings(zone, clock)
        first == clock - (zone.offset + 1) * SecPerHour
        last  == clock - zone.offset * SecPerHour
    IN  CASE R = {} \/ R = {first, last} -> IF zone.early THEN first ELSE last
          [] OTHER -> CHOOSE s \in R : TRUE

-----------------------------------------------------------------------------
(* The converter. *)

\* Faulty variant: the end of a month is not thought of.
DayDifferencePlain(time, gmdate) == time.mday - gmdate.mday

DayDifference(time, gmdate) ==
    CASE time.mday > 25 /\ gmdate.mday = 1 -> -1
      [] time.mday = 1 /\ gmdate.mday > 25 -> 1
      [] OTHER -> time.mday - gmdate.mday

\* mktime() also brings the fields of the local time into their ranges.  With
\* 64 bits for time_t no year of MySQL is out of range.
tm_to_time_gm(zone, tm) ==
    LET sec_t  == mktime(zone, tm)
        time   == gmtime(LocalClock(zone, sec_t))
        gmdate == gmtime(sec_t)
    IN  sec_t + DayDifference(time, gmdate) * SecPerDay
              + (time.hour - gmdate.hour) * SecPerHour
              + (time.sec - gmdate.sec)

tm_to_grn_time(zone, tm, usec) == GRN_TIME_PACK(tm_to_time_gm(zone, tm), usec)

\* A MYSQL_TIME; its second_part is called usec here.
MysqlTime(type, neg, year, month, day, hour, second, usec) ==
    [type |-> type, neg |-> neg, year |-> year, month |-> month, day |-> day,
     hour |-> hour, second |-> second, usec |-> usec]

\* A zero month or day becomes 1 and is reported as truncated.
CorrectedTm(t) ==
    Tm(t.year - TM_YEAR_BASE,
       IF t.month > 0 THEN t.month - 1 ELSE 0,
       IF t.day > 0 THEN t.day ELSE 1,
       IF t.type = "DATETIME" THEN t.hour ELSE 0,
       IF t.type = "DATETIME" THEN t.second ELSE 0)

mysql_time_to_grn_time(zone, t) ==
    IF t.type = "TIME"
    THEN LET g == GRN_TIME_PACK(t.hour * SecPerHour + t.second, t.usec)
         IN  [time |-> IF t.neg THEN -g ELSE g, truncated |-> FALSE]
    ELSE [time |-> tm_to_grn_time(zone, CorrectedTm(t), t.usec),
          truncated |-> t.month = 0 \/ t.day = 0]

grn_time_to_mysql_time(type, time) ==
    LET u == GRN_TIME_UNPACK(time)
        tm == gmtime(u.sec)
        s == IF u.sec < 0 THEN -u.sec ELSE u.sec
    IN  CASE type = "TIME" ->
                MysqlTime(type, u.sec < 0, 0, 0, 0, s \div SecPerHour, s % SecPerHour, u.usec)
          [] type = "DATE" ->
                MysqlTime(type, FALSE, tm.year + TM_YEAR_BASE, tm.mon + 1, tm.mday, 0, 0, 0)
          [] OTHER ->
                MysqlTime(type, FALSE, tm.year + TM_YEAR_BASE, tm.mon + 1, tm.mday,
                          tm.hour, tm.sec, u.usec)

\* mysql_datetime_to_grn_time(): a DATETIME packed into decimal digits.
mysql_datetime_to_grn_time(zone, date, clock) ==
    mysql_time_to_grn_time(zone,
        MysqlTime("DATETIME", FALSE, (date \div 10000) % 10000, (date \div 100) % 100, date % 100,
                  (clock \div 100) % 100, clock % 100, 0))
=============================================================================
