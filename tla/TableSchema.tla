----------------------------- MODULE TableSchema -----------------------------
(***************************************************************************)
(* One Mroonga table through its life: CREATE in wrapper or in storage     *)
(* mode, rows, ALTER TABLE in place, RENAME, DISABLE and ENABLE KEYS,      *)
(* REPAIR, TRUNCATE, DROP, and CREATE again.  Each entry of the handler    *)
(* hands the statement to wrapper_xxx or storage_xxx after share->         *)
(* wrapper_mode; the server writes its dictionary when the handler         *)
(* reports success.                                                        *)
(***************************************************************************)
EXTENDS WrapperTable, StorageSchema

ASSUME SchemaAssumption == WrapperKeys \cap StorageKeys = {}

Init ==
    /\ dict = NoTable
    /\ grn = [n \in Names |-> NoObjects]
    /\ lexicon = [table |-> TRUE, cols |-> {}]
    /\ ref = {}
    /\ rows = << >> /\ rec = << >>
    /\ post = [n \in Names |-> [k \in Keys |-> {}]]
    /\ exact = {} /\ torn = {} /\ mishaps = 0

\* The entries of the handler.
create ==
    \E n \in Names, f \in Failures :
        \/ \E K \in SUBSET WrapperKeys : wrapper_create(n, K, f)
        \/ \E K \in SUBSET StorageKeys : storage_create(n, K, f)
delete_table == wrapper_delete_table \/ storage_delete_table
rename_table ==
    \E to \in Names, f \in Failures :
        wrapper_rename_table(to, f) \/ storage_rename_table(to, f)

\* Bounds: after a DDL statement that failed half-way only a table with one
\* row gets another, and no more columns are changed; a table with a column
\* that ALTER TABLE added has at most one row.
GetsRows ==
    /\ torn = {} \/ Cardinality(DOMAIN rows) = 1
    /\ dict.cols # {} => rows = << >>
Changes ==
    IF torn = {} /\ Cardinality(DOMAIN rows) <= 1 THEN ColumnChanges ELSE {<<"none">>}

write_row ==
    /\ GetsRows
    /\ \E r \in Rows :
        \/ \E p \in Pks, f \in Failures, b \in BOOLEAN : wrapper_write_row(p, r, f, b)
        \/ \E i \in Ids : storage_write_row(i, r)
update_row ==
    \/ \E p \in Pks, q \in Pks, r \in Rows, f \in Failures, b \in BOOLEAN :
         wrapper_update_row(p, q, r, f, b)
    \/ \E i \in Ids, r \in Rows : storage_update_row(i, r)
delete_row ==
    \/ \E p \in Pks, f \in Failures, b \in BOOLEAN : wrapper_delete_row(p, f, b)
    \/ \E i \in Ids : storage_delete_row(i)
delete_all_rows ==
    \/ \E b \in BOOLEAN : wrapper_delete_all_rows(b)
    \/ storage_delete_all_rows
truncate == wrapper_truncate \/ storage_truncate
disable_indexes == wrapper_disable_indexes \/ storage_disable_indexes
enable_indexes ==
    \E f \in Failures : wrapper_enable_indexes(f) \/ storage_enable_indexes(f)
repair ==
    \E f \in Failures : wrapper_repair(f) \/ storage_recreate_indexes(f)

AtMostOne(K) == {{}} \cup {{k} : k \in K}

\* Bound: at most one key is dropped and one added at a time.
inplace_alter_table ==
    \E D \in AtMostOne(dict.keys), A \in AtMostOne(Keys \ dict.keys) :
      \E f \in {x \in Failures : x[2] \in A \cup {0}} :
        \/ wrapper_inplace_alter_table(D, A, f)
        \/ \E change \in Changes : storage_inplace_alter_table(D, A, change, f)

\* SELECT mroonga_command('table_create ...'): the user makes the lexicon.
create_lexicon ==
    /\ ~lexicon.table
    /\ lexicon' = [table |-> TRUE, cols |-> {}]
    /\ UNCHANGED <<dict, grn, ref, rows, rec, post, exact, torn, mishaps>>

Next ==
    \/ create \/ delete_table \/ rename_table
    \/ write_row \/ update_row \/ delete_row \/ delete_all_rows \/ truncate
    \/ disable_indexes \/ enable_indexes \/ repair \/ inplace_alter_table
    \/ create_lexicon

Spec == Init /\ [][Next]_vars

-----------------------------------------------------------------------------
(* Properties.                                                             *)

\* Every variable has its type; an index of the dictionary that must answer
\* is one of its keys.
SchemaTypeOK ==
    /\ dict.mode \in {"none", "wrapper", "storage"} /\ dict.name \in Names \cup {NoName}
    /\ dict.keys \subseteq Keys /\ dict.cols \subseteq Columns
    /\ \A n \in Names :
         /\ grn[n].table \in BOOLEAN /\ grn[n].cols \subseteq Columns
         /\ grn[n].index \in [Keys -> IndexStates]
    /\ lexicon.table \in BOOLEAN /\ lexicon.cols \subseteq Lexicon
    /\ ref \subseteq Names /\ exact \subseteq dict.keys
    /\ DOMAIN rows \subseteq Pks \cup Ids /\ Range(rows) \subseteq Rows
    /\ DOMAIN rec \subseteq Pks /\ Range(rec) \subseteq Ids /\ IsInjective(rec)
    /\ mishaps \in 0 .. MaxMishaps

Words == (UNION {Range(r) : r \in Rows}) \ {Empty}

\* What the key k must answer: a word search of wrapper mode the rows that
\* have the word in one of the key's columns; a multiple column key of
\* storage mode one posting for each row, with the row's values.
Answers(k) ==
    IF dict.mode = "wrapper"
    THEN \A w \in Words :
            wrapper_ft_read(k, w) =
                {p \in DOMAIN rows : \E s \in DOMAIN Parts[k] : rows[p][Parts[k][s]] = w}
    ELSE /\ IndexColumn(k)
         /\ Multiple(k) => post[name][k] = {Posting(k, i, rows[i]) : i \in DOMAIN rows}

\* An index answers as the rows do, after any sequence of DDL and row
\* changes, unless a failed call, a ROLLBACK, a DELETE of all rows or a REPAIR
\* has been at it as the actions say: wrapper_update_row_index and the others
\* change the index by hand, the ALTER, ENABLE KEYS and REPAIR paths fill it
\* from the rows.
IndexAnswers == \A k \in exact : Answers(k)

\* No two rows have the same value of a UNIQUE key, whether they were written
\* before the key was added (storage_inplace_alter_table_add_index) or after
\* it, and through DISABLE KEYS, RENAME and DROP of other keys.  An empty value
\* of a single column, for which the code does not know, may be there twice.
UniqueChecked ==
    dict.mode = "storage" =>
        \A k \in exact \cap Unique : \A i, j \in DOMAIN rows :
            HasKey(k, rows[i]) /\ KeyOf(k, rows[i]) = KeyOf(k, rows[j]) => i = j

\* A table of the dictionary can be opened, and its records found, unless a
\* DDL statement that failed half-way took its Groonga table, a column of it
\* or the wrapped table's name away.
TableOpens ==
    torn \cap {"table", "wrapped"} = {} =>
        \/ dict.mode = "none" \/ WrapperOpens \/ StorageOpens

\* DROP TABLE leaves no object behind, and neither does a failed CREATE, unless
\* an earlier statement failed half-way: an index table that has lost its index
\* column is not found by drop_indexes and would refuse the next CREATE.
NothingLeft ==
    dict.mode = "none" /\ torn = {} =>
        /\ \A n \in Names : grn[n] = NoObjects
        /\ lexicon.cols = {} /\ ref = {}
===============================================================================
