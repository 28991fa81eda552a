----------------------------- MODULE FieldTypes -----------------------------
(***************************************************************************)
(* The columns of a table, as lib/mrn_condition_converter.cpp sorts them.  *)
(***************************************************************************)

CONSTANTS
    FieldType,    \* [columns -> MYSQL_TYPE_... (real_type())]
    Collation,    \* [columns whose collation is not the order of the bytes ->
                  \*    [string -> the string it stands for in the collation]]
    FullTextKey,  \* the column(s) of the full-text key, in key part order
    InvalidTime   \* a constant that is not a time

Columns == DOMAIN FieldType

normalize_field_type(t) ==
    CASE t \in {"DECIMAL", "NEWDECIMAL", "VARCHAR", "VARCHAR_COMPRESSED",
                "TINY_BLOB", "MEDIUM_BLOB", "LONG_BLOB", "BLOB",
                "BLOB_COMPRESSED", "VAR_STRING", "STRING", "JSON"} -> "STRING_TYPE"
      [] t \in {"TINY", "SHORT", "LONG", "LONGLONG", "INT24", "BIT",
                "ENUM", "SET"} -> "INT_TYPE"
      [] t \in {"TIMESTAMP", "DATE", "TIME", "DATETIME", "YEAR", "NEWDATE",
                "TIMESTAMP2", "DATETIME2", "TIME2"} -> "TIME_TYPE"
      [] OTHER -> "UNSUPPORTED_TYPE"    \* FLOAT, DOUBLE, NULL, GEOMETRY

IsString(col) == normalize_field_type(FieldType[col]) = "STRING_TYPE"

\* The columns for which should_normalize() says yes.  The server compares the
\* weights of their values, and the normalizer of their index makes them of the
\* keys; a value itself, and the order Groonga gives it, is its bytes.
Normalized == DOMAIN Collation
Weight(col, v) == IF col \in Normalized THEN Collation[col][v] ELSE v
=============================================================================
