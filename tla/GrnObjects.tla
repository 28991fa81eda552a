------------------------------ MODULE GrnObjects ------------------------------
(***************************************************************************)
(* What one table is in Groonga, and what the server's dictionary says of  *)
(* it.  A Mroonga table named n is a Groonga table n, an index table n#k   *)
(* for each secondary key k and, inside it, the index column that points   *)
(* back at n.  DDL changes these objects one call at a time, the server    *)
(* changes its dictionary only when the handler reported success, and      *)
(* nothing is logged: a call that fails half-way leaves the two apart.     *)
(*                                                                         *)
(* This module has the state both modes share and the helpers that         *)
(* ha_mroonga.cpp shares between wrapper_xxx and storage_xxx.              *)
(***************************************************************************)
EXTENDS Naturals, Sequences, FiniteSets, FiniteSetsExt, Functions

CONSTANTS
    Names,      \* table names
    Keys,       \* secondary keys, numbers in the order of TABLE_SHARE::key_info
    Parts,      \* Parts[k]: the columns of k, in order
    Unique,     \* the keys with HA_NOSAME
    Lexicon,    \* the keys with a "lexicon" parameter: their index column
                \* is a column of a table the user has made
    Foreign,    \* the keys on a column of a FOREIGN KEY
    Ids,        \* record IDs of Groonga
    Rows,       \* the rows a statement may write, functions from columns
    Columns,    \* columns an ALTER TABLE may add, drop and rename
    MaxKeys,    \* bound: secondary keys a table has at a time
    MaxMishaps  \* bound: failed Groonga calls and ROLLBACKs of a behaviour

\* NULL of wrapper mode, and the empty value of storage mode: no posting.
Empty == 0

ASSUME ObjectsAssumption ==
    /\ Keys \subseteq Nat /\ IsFiniteSet(Keys) /\ IsFiniteSet(Names)
    /\ Unique \subseteq Keys /\ Lexicon \subseteq Keys /\ Foreign \subseteq Keys
    /\ Ids \subseteq Nat /\ MaxKeys \in Nat /\ MaxMishaps \in Nat
    /\ \A k \in Keys : Parts[k] # << >> /\ Parts[k] \in Seq(Range(Parts[k]))

VARIABLES
    dict,      \* the table of the dictionary: its mode ("none": there is no
               \* table), its name, its keys and its added columns
    grn,       \* grn[n]: the objects named after n: is there a table, which
               \* columns has it, and the state of each index table n#k
    lexicon,   \* the user's lexicon: does it exist, which index columns
    ref,       \* names whose table has its index column in the table a
               \* FOREIGN KEY refers to
    rows,      \* the rows: of the wrapped engine by primary key, of storage
               \* mode by record ID
    rec,       \* wrapper mode: the records of grn_table, from key to ID
    post,      \* post[n][k]: the postings in the index column of n#k
    exact,     \* ghost: the keys whose index must answer as the rows do
    torn,      \* ghost: what a half-done DDL statement left behind
    mishaps    \* failed calls and ROLLBACKs so far

vars == <<dict, grn, lexicon, ref, rows, rec, post, exact, torn, mishaps>>

\* An index table is not there; is there without an index column of this
\* table; or is there with it.
IndexStates == {"none", "table", "full"}

NoName == ""
NoTable == [mode |-> "none", name |-> NoName, keys |-> {}, cols |-> {}]
NoObjects == [table |-> FALSE, cols |-> {}, index |-> [k \in Keys |-> "none"]]

name == dict.name

\* grn_index_tables[i] and grn_index_columns[i] as open finds them: a missing
\* object is a NULL pointer, which the code takes for DISABLE KEYS.  Every
\* ALTER, REPAIR and RENAME ends with the table closed and opened again.
IndexTable(k) ==
    IF k \in Lexicon THEN lexicon.table ELSE grn[name].index[k] # "none"
IndexColumn(k) ==
    IF k \in Lexicon THEN k \in lexicon.cols ELSE grn[name].index[k] = "full"

\* share->disable_keys, as xxx_set_keys_in_use computes it at open: TRUE as
\* soon as one key has no index table, for whatever reason.
disable_keys == \E k \in dict.keys : ~IndexTable(k)

-----------------------------------------------------------------------------
(* Failures.  At most one Groonga call of a statement fails: f names it.   *)

None == <<"none", 0>>
Calls == {"table", "column", "foreign", "handler", "wrapped", "fill", "add"}
KeyCalls == {"index_table", "index_column", "rename", "update"}
Failures ==
    {None} \cup
    IF mishaps = MaxMishaps THEN {}
    ELSE {<<c, 0>> : c \in Calls \cup {"rename"}} \cup {<<c, k>> : c \in KeyCalls, k \in Keys}

\* A statement with failure f: one of those in the set F it can meet.
MayFail(f, F) == f = None \/ (mishaps < MaxMishaps /\ f \in F)
Counted(f) == IF f = None THEN mishaps ELSE mishaps + 1

KeyFailures(calls, K) == {<<c, k>> : c \in calls, k \in K}

\* The keys a loop over K in key order has handled when it stops at the first
\* of Bad.
Before(K, Bad) == {k \in K : \A b \in Bad : k < b}

\* The keys of K up to and including the first of Bad.
UpToFirst(K, Bad) == {k \in K : \A b \in Bad : k <= b}

-----------------------------------------------------------------------------
(* Groonga: external, as the code uses it.                                 *)

\* The index table n#k gets state s, its postings become P.
SetIndex(g, n, K, s) ==
    [g EXCEPT ![n].index = [k \in Keys |-> IF k \in K THEN s ELSE @[k]]]
Emptied(p, n, K) == [p EXCEPT ![n] = [k \in Keys |-> IF k \in K THEN {} ELSE @[k]]]

\* grn_obj_remove of the table n: its columns go, and with them the index
\* columns on it, those of K also where the index table has another name;
\* index tables stay as lexicons without an index column.
RemoveTable(g, n, K) ==
    [m \in Names |->
        [table |-> m # n /\ g[m].table,
         cols  |-> IF m = n THEN {} ELSE g[m].cols,
         index |-> [k \in Keys |->
                       IF (m = n \/ k \in K) /\ g[m].index[k] = "full" THEN "table"
                       ELSE g[m].index[k]]]]

\* grn_table_rename of one index table, and its postings with it.
MoveIndex(g, from, to, K) ==
    LET moved == {k \in K : g[from].index[k] # "none"} IN
    [g EXCEPT ![from].index = [k \in Keys |-> IF k \in moved THEN "none" ELSE @[k]],
              ![to].index   = [k \in Keys |-> IF k \in moved
                                              THEN g[from].index[k] ELSE @[k]]]
MovePost(g, p, from, to, K) ==
    LET moved == {k \in K : g[from].index[k] # "none"} IN
    [p EXCEPT ![from] = [k \in Keys |-> IF k \in moved THEN {} ELSE @[k]],
              ![to]   = [k \in Keys |-> IF k \in moved THEN p[from][k] ELSE @[k]]]

-----------------------------------------------------------------------------
(* Helpers both modes use.                                                 *)

\* Faulty variant: drop_indexes_multiple is forgotten.
DropIndexesSingleOnly(g, n) ==
    IF ~g[n].table THEN g
    ELSE SetIndex(g, n, {k \in Keys : g[n].index[k] = "full" /\ Len(Parts[k]) = 1}, "none")

\* drop_indexes of table n.  drop_indexes_normal finds the single column
\* indexes through the columns; an index table whose name does not start
\* with n# counts as custom and loses its index column only.
\* drop_indexes_multiple goes by the name n# and the range of the index
\* column: an index table that has no index column is passed over.  Without
\* a table n nothing is dropped.
drop_indexes(g, n) ==
    IF ~g[n].table THEN g
    ELSE SetIndex(g, n, {k \in Keys : g[n].index[k] = "full"}, "none")

\* generic_delete_table: the indexes, then the table.
generic_delete_table(g, n, K) ==
    IF ~g[n].table THEN g ELSE RemoveTable(drop_indexes(g, n), n, K)

\* drop_index, for each key of K: the index table goes, or the index column
\* where the key has a lexicon.
drop_index(g, n, K) == SetIndex(g, n, K \ Lexicon, "none")

\* remove_grn_obj_force of the index columns and tables of K, readable or not.
remove_grn_obj_force(g, n, K) == SetIndex(g, n, K, "none")

\* The loop over the index tables at the start of wrapper_rename_index and
\* storage_rename_table: the keys at which grn_table_rename fails.
RenameFails(from, to, K, f) ==
    {k \in K : /\ grn[from].index[k] # "none"
               /\ grn[to].index[k] # "none" \/ f = <<"rename", k>>}

\* The statements leave the ghosts alone or say what they stand for.
Torn(what) == torn' = torn \cup what
===============================================================================
