---------------------------- MODULE StorageSchema ----------------------------
(***************************************************************************)
(* DDL of storage mode in ha_mroonga.cpp: the Groonga table, its columns   *)
(* and its index tables.  Groonga keeps a single column index up to date   *)
(* by itself; a multiple column index has the postings the handler writes, *)
(* row by row, and the keys of a UNIQUE index table decide what is a       *)
(* duplicate.                                                              *)
(*                                                                         *)
(* A statement is one step: DDL has the exclusive metadata lock, and the   *)
(* interleavings of row changes are in StorageRows.  Within the step the   *)
(* calls happen in the code's order, and f names the one that fails.       *)
(***************************************************************************)
EXTENDS GrnObjects

CONSTANTS
    StorageKeys   \* the secondary keys of the storage mode table

Multiple(k) == Len(Parts[k]) > 1

\* One UNIQUE multiple column key is enough for what the code does with
\* duplicates in it; a FOREIGN KEY's column is not UNIQUE.
ASSUME StorageAssumption ==
    /\ StorageKeys \subseteq Keys
    /\ Foreign \cap (Unique \cup Lexicon) = {}
    /\ Cardinality({k \in Unique \cap StorageKeys : Multiple(k)}) <= 1
    /\ \A k \in Lexicon \cup Foreign : ~Multiple(k)

\* open_table and storage_open_columns: the table and every column must be
\* there.  storage_open_indexes takes a missing index for a disabled one.
StorageOpens ==
    /\ dict.mode = "storage"
    /\ grn[name].table
    /\ dict.cols \subseteq grn[name].cols

-----------------------------------------------------------------------------
(* Rows, as far as the indexes see them.                                   *)

KeyOf(k, r) == [s \in DOMAIN Parts[k] |-> r[Parts[k][s]]]
Posting(k, i, r) == <<i, 1, KeyOf(k, r)>>

MultipleIndexes == {k \in dict.keys : Multiple(k) /\ IndexColumn(k)}
UniqueIndexes == {k \in dict.keys \cap Unique : IndexTable(k) /\ IndexColumn(k)}

\* grn_table_add to a UNIQUE index table finds the key of r there already.
Duplicate(k, r) ==
    IF Multiple(k) THEN \E x \in post[name][k] : x[3] = KeyOf(k, r)
    ELSE \E i \in DOMAIN rows : KeyOf(k, rows[i]) = KeyOf(k, r)

\* An empty value has no key in the index table of a single column: for it
\* storage_write_row_unique_index reads the variable added uninitialised, and
\* reports a duplicate or does not.
HasKey(k, r) == Multiple(k) \/ KeyOf(k, r) # <<Empty>>

\* storage_write_row that finds no duplicate: the row, with the first free ID,
\* and its postings in the multiple column indexes the handler has.  A UNIQUE
\* index that does not agree with the rows any more may take the row for a
\* duplicate or not.
storage_write_row(i, r) ==
    /\ StorageOpens /\ i \notin DOMAIN rows
    /\ \A j \in Ids \ DOMAIN rows : i <= j
    /\ \A k \in UniqueIndexes : HasKey(k, r) /\ k \in exact => ~Duplicate(k, r)
    /\ rows' = [j \in DOMAIN rows \cup {i} |-> IF j = i THEN r ELSE rows[j]]
    /\ post' = [post EXCEPT ![name] = [k \in Keys |->
                   IF k \in MultipleIndexes THEN @[k] \cup {Posting(k, i, r)} ELSE @[k]]]
    /\ UNCHANGED <<dict, grn, lexicon, ref, rec, exact, torn, mishaps>>

\* storage_update_row that finds no duplicate: a key that is found is not one
\* if it is the record's own.  storage_update_row_index replaces the posting.
\* The server does not call it for a row that stays as it is.
storage_update_row(i, r) ==
    /\ StorageOpens /\ i \in DOMAIN rows /\ r # rows[i]
    /\ \A k \in UniqueIndexes :
         HasKey(k, r) /\ k \in exact =>
            KeyOf(k, r) = KeyOf(k, rows[i]) \/ ~Duplicate(k, r)
    /\ rows' = [rows EXCEPT ![i] = r]
    /\ post' = [post EXCEPT ![name] = [k \in Keys |->
                   IF k \in MultipleIndexes
                   THEN (@[k] \ {Posting(k, i, rows[i])}) \cup {Posting(k, i, r)}
                   ELSE @[k]]]
    /\ UNCHANGED <<dict, grn, lexicon, ref, rec, exact, torn, mishaps>>

storage_delete_row(i) ==
    /\ StorageOpens /\ i \in DOMAIN rows
    /\ rows' = [j \in DOMAIN rows \ {i} |-> rows[j]]
    /\ post' = [post EXCEPT ![name] = [k \in Keys |->
                   IF k \in MultipleIndexes THEN @[k] \ {Posting(k, i, rows[i])} ELSE @[k]]]
    /\ UNCHANGED <<dict, grn, lexicon, ref, rec, exact, torn, mishaps>>

\* storage_delete_all_rows clears the UNIQUE index tables only: what another
\* multiple column index had it keeps, for records that are gone.
storage_delete_all_rows ==
    /\ StorageOpens
    /\ rows' = << >>
    /\ post' = Emptied(post, name, {k \in dict.keys \cap Unique : IndexTable(k)})
    /\ exact' = {k \in exact : ~Multiple(k) \/ k \in Unique \/ post[name][k] = {}}
    /\ UNCHANGED <<dict, grn, lexicon, ref, rec, torn, mishaps>>

\* storage_truncate and storage_truncate_index: the index tables of UNIQUE
\* and of multiple column keys.
storage_truncate ==
    /\ StorageOpens
    /\ rows' = << >>
    /\ post' = Emptied(post, name, {k \in dict.keys : (Multiple(k) \/ k \in Unique) /\ IndexTable(k)})
    /\ UNCHANGED <<dict, grn, lexicon, ref, rec, exact, torn, mishaps>>

-----------------------------------------------------------------------------
(* Creating indexes.                                                       *)

\* The objects while a statement works on them.
Objects(g, l, error) == [grn |-> g, lexicon |-> l, error |-> error]

\* storage_create_index fails for k: its lexicon is missing or has a column
\* of that name, there is such an index table already, or Groonga fails.
CreateIndexFails(g, l, n, K, f) ==
    {k \in K \ Foreign :
        \/ k \in Lexicon /\ (~l.table \/ k \in l.cols)
        \/ k \notin Lexicon /\ g[n].index[k] # "none"
        \/ f \in {<<"index_table", k>>, <<"index_column", k>>}}

\* The keys storage_create_index made before the loop stopped.
MadeIndexes(K, bad) == Before(K, bad) \ Foreign

\* The loop over storage_create_index for the keys K.  The key that fails
\* takes more with it than its own objects: where the index table cannot be
\* created the code removes the Groonga table, with all its columns and the
\* index columns on it, and where the index column cannot be created it
\* removes the table that was to hold it, which may be the user's lexicon.
storage_create_index(g, l, n, K, f) ==
    LET bad  == CreateIndexFails(g, l, n, K, f)
        b    == Min(bad)
        made == MadeIndexes(K, bad)
        with == SetIndex(g, n, made \ Lexicon, "full")
        lex  == [l EXCEPT !.cols = @ \cup (made \cap Lexicon)]
    IN IF bad = {} THEN Objects(with, lex, FALSE)
       ELSE IF b \in Lexicon
       THEN Objects(with, [table |-> FALSE, cols |-> {}], TRUE)
       ELSE IF f = <<"index_column", b>> /\ g[n].index[b] = "none"
       THEN Objects(with, lex, TRUE)
       ELSE Objects(RemoveTable(with, n, K), [lex EXCEPT !.cols = {}], TRUE)

\* storage_create_indexes: after an error the index tables made so far are
\* removed, the columns made in lexicons are not.
storage_create_indexes(g, l, n, K, f) ==
    LET o == storage_create_index(g, l, n, K, f)
        made == MadeIndexes(K, CreateIndexFails(g, l, n, K, f))
    IN IF o.error THEN [o EXCEPT !.grn = SetIndex(@, n, made \ Lexicon, "none")] ELSE o

\* Failures of the calls that create the indexes of K.
StorageFailures(K) ==
    KeyFailures({"index_table"}, K \ (Lexicon \cup Foreign))
    \cup KeyFailures({"index_column"}, K \ Foreign)

\* storage_add_index_multiple_columns, for the keys K it has index columns
\* of.  A duplicate in a UNIQUE key ends the work on its record only, and the
\* next record overwrites the error: the statement fails only if the last
\* record is the duplicate.
Repeated(u) == {i \in DOMAIN rows : \E j \in DOMAIN rows :
                   j < i /\ KeyOf(u, rows[j]) = KeyOf(u, rows[i])}
storage_add_index_multiple_columns(P, K) ==
    [P EXCEPT ![name] = [k \in Keys |->
        IF k \notin K THEN @[k]
        ELSE @[k] \cup {Posting(k, i, rows[i]) :
                i \in {j \in DOMAIN rows :
                          \A u \in K \cap Unique : u <= k => j \notin Repeated(u)}}]]
DuplicateReported(K) ==
    \E u \in K \cap Unique : rows # << >> /\ Max(DOMAIN rows) \in Repeated(u)
DuplicateAccepted(K) ==
    ~DuplicateReported(K) /\ \E u \in K \cap Unique : Repeated(u) # {}

-----------------------------------------------------------------------------
(* DDL.                                                                    *)

\* storage_create: the table, its columns and those of its FOREIGN KEY, its
\* indexes.  Whatever fails, the table is removed at the end, and with it the
\* index column in the table the FOREIGN KEY refers to.
storage_create(n, K, f) ==
    LET with == [grn EXCEPT ![n].table = TRUE]
        o    == storage_create_indexes(with, lexicon, n, K, f)
        early == grn[n].table \/ f = <<"table", 0>>
        error == early \/ f \in {<<"column", 0>>, <<"foreign", 0>>} \/ o.error
        columns == f \notin {<<"column", 0>>, <<"foreign", 0>>}
    IN /\ dict.mode = "none" /\ K \subseteq StorageKeys /\ Cardinality(K) <= MaxKeys
       /\ MayFail(f, StorageFailures(K) \cup {<<"table", 0>>, <<"column", 0>>}
                       \cup (IF K \cap Foreign = {} THEN {} ELSE {<<"foreign", 0>>}))
       /\ mishaps' = Counted(f)
       /\ IF error
          THEN /\ grn' = IF early \/ ~columns THEN grn ELSE RemoveTable(o.grn, n, K)
               /\ lexicon' = IF early \/ ~columns THEN lexicon
                             ELSE [o.lexicon EXCEPT !.cols = {}]
               /\ UNCHANGED <<dict, ref, exact>>
          ELSE /\ grn' = o.grn /\ lexicon' = o.lexicon
               /\ ref' = IF K \cap Foreign = {} THEN {} ELSE {n}
               /\ dict' = [mode |-> "storage", name |-> n, keys |-> K, cols |-> {}]
               /\ exact' = K \ Foreign
       /\ rows' = << >> /\ rec' = << >>
       /\ UNCHANGED <<post, torn>>

\* delete_table of storage mode.  The index columns on the table go with it.
storage_delete_table ==
    /\ dict.mode = "storage"
    /\ grn' = generic_delete_table(grn, name, dict.keys)
    /\ lexicon' = [lexicon EXCEPT !.cols = {}]
    /\ ref' = {}
    /\ dict' = NoTable
    /\ rows' = << >> /\ exact' = {}
    /\ post' = [n \in Names |-> [k \in Keys |-> {}]]
    /\ torn' = torn \ {"table"}
    /\ UNCHANGED <<rec, mishaps>>

\* Faulty variant: only the index tables are renamed.
RenameIndexTablesOnly(to, f) ==
    /\ dict.mode = "storage" /\ to # name /\ f = None
    /\ grn' = MoveIndex(grn, name, to, dict.keys \ Lexicon)
    /\ post' = MovePost(grn, post, name, to, dict.keys \ Lexicon)
    /\ dict' = [dict EXCEPT !.name = to]
    /\ UNCHANGED <<lexicon, ref, rows, rec, exact, torn, mishaps>>

\* storage_rename_table: each index table, the index column of a FOREIGN KEY
\* (storage_rename_foreign_key), at last the table.  Nothing is taken back.
storage_rename_table(to, f) ==
    LET own  == dict.keys \ Lexicon
        bad  == RenameFails(name, to, own, f)
        done == Before(own, bad)
        moved == MoveIndex(grn, name, to, done)
        error == \/ bad # {} \/ f \in {<<"foreign", 0>>, <<"rename", 0>>}
                 \/ grn[to].table \/ ~grn[name].table
    IN /\ dict.mode = "storage" /\ to # name
       /\ MayFail(f, KeyFailures({"rename"}, {k \in own : IndexTable(k)} \cup {0})
                       \cup (IF ref = {} THEN {} ELSE {<<"foreign", 0>>}))
       /\ mishaps' = Counted(f)
       /\ post' = MovePost(grn, post, name, to, done)
       /\ ref' = IF bad = {} /\ f # <<"foreign", 0>> /\ ref # {} THEN {to} ELSE ref
       /\ IF error
          THEN /\ grn' = moved /\ dict' = dict
               /\ exact' = exact \ done
               /\ Torn({"index", "name"})
          ELSE /\ grn' = [moved EXCEPT ![to].table = TRUE, ![to].cols = grn[name].cols,
                                       ![name].table = FALSE, ![name].cols = {}]
               /\ dict' = [dict EXCEPT !.name = to]
               /\ UNCHANGED <<exact, torn>>
       /\ UNCHANGED <<lexicon, rows, rec>>

\* DISABLE KEYS.  storage_disable_indexes does nothing if a key has no index
\* table, as that of a FOREIGN KEY never has; UNIQUE keys stay.
storage_disable_indexes ==
    LET off == dict.keys \ Unique IN
    /\ StorageOpens
    /\ \A k \in dict.keys : IndexTable(k)
    /\ grn' = SetIndex(grn, name, off \ Lexicon, "none")
    /\ lexicon' = [lexicon EXCEPT !.cols = @ \ off]
    /\ post' = Emptied(post, name, off)
    /\ exact' = exact \ off
    /\ UNCHANGED <<dict, ref, rows, rec, torn, mishaps>>

\* What a statement that removed the Groonga table leaves of the rows, the
\* postings and the promises.
Survives(o, P, E) ==
    LET lost == ~o.grn[name].table IN
    /\ rows' = IF lost THEN << >> ELSE rows
    /\ post' = IF lost THEN [n \in Names |-> [k \in Keys |-> {}]] ELSE P
    /\ exact' = IF lost THEN {} ELSE IF o.lexicon.table THEN E ELSE E \ Lexicon
LossOf(o) == IF o.grn[name].table THEN {} ELSE {"table", "index"}

\* ENABLE KEYS.  storage_enable_indexes creates the index columns that are
\* missing of keys that are not UNIQUE and fills the multiple column ones
\* when none failed.
storage_enable_indexes(f) ==
    LET missing == {k \in dict.keys \ Unique : ~IndexColumn(k)}
        o == storage_create_index(grn, lexicon, name, missing, f)
        filled == {k \in missing : Multiple(k)}
        made == MadeIndexes(missing, CreateIndexFails(grn, lexicon, name, missing, f))
    IN /\ StorageOpens /\ missing # {}
       /\ MayFail(f, StorageFailures(missing))
       /\ mishaps' = Counted(f)
       /\ grn' = o.grn /\ lexicon' = o.lexicon
       /\ IF o.error
          THEN /\ Survives(o, post, exact \cup {k \in made : ~Multiple(k)})
               /\ Torn({"index"} \cup LossOf(o))
          ELSE /\ Survives(o, storage_add_index_multiple_columns(post, filled), exact \cup made)
               /\ UNCHANGED torn
       /\ UNCHANGED <<dict, ref, rec>>

\* REPAIR TABLE, which sets disable_keys to false first.
\* storage_recreate_indexes removes the index tables, not the columns in
\* lexicons, and creates all of them: Groonga fills the single column ones,
\* nobody fills the multiple column ones, and a key whose column is still in
\* its lexicon ends the statement and the lexicon.
storage_recreate_indexes(f) ==
    LET gone == remove_grn_obj_force(grn, name, dict.keys \ Lexicon)
        o == storage_create_indexes(gone, lexicon, name, dict.keys, f)
        single == {k \in dict.keys \ Foreign : ~Multiple(k) \/ rows = << >>}
    IN /\ StorageOpens
       /\ MayFail(f, StorageFailures(dict.keys))
       /\ mishaps' = Counted(f)
       /\ grn' = o.grn /\ lexicon' = o.lexicon
       /\ IF o.error
          THEN /\ Survives(o, Emptied(post, name, dict.keys), {})
               /\ Torn({"index"} \cup LossOf(o))
          ELSE /\ Survives(o, Emptied(post, name, dict.keys),
                           {k \in single : k \in Unique => k \in exact \/ rows = << >>})
               /\ UNCHANGED torn
       /\ UNCHANGED <<dict, ref, rec>>

\* The column part of an ALTER TABLE: nothing, ADD, DROP or RENAME COLUMN; the
\* table has one such column at a time.
ColumnChanges ==
    {<<"none">>} \cup {<<"add", c>> : c \in IF dict.cols = {} THEN Columns ELSE {}}
    \cup {<<"drop", c>> : c \in dict.cols}
    \cup {<<"rename", c, d>> : c \in dict.cols, d \in Columns \ dict.cols}
ChangeColumns(cols, change) ==
    CASE change[1] = "none"   -> cols
      [] change[1] = "add"    -> cols \cup {change[2]}
      [] change[1] = "drop"   -> cols \ {change[2]}
      [] change[1] = "rename" -> (cols \ {change[2]}) \cup {change[3]}

\* storage_inplace_alter_table_add_column, _drop_column and _rename_column
\* fail: Groonga has a column of that name, or fails.
ChangeFails(cols, change, f) ==
    \/ f = <<"column", 0>>
    \/ change[1] = "add" /\ change[2] \in cols
    \/ change[1] = "rename" /\ change[3] \in cols

\* Faulty variant: the rows that are there already are not looked at.
SizesNeverDiffer(k) == FALSE

\* storage_inplace_alter_table_add_index reports duplicates of a single
\* column UNIQUE key when table and index table differ in size, which they do
\* for an empty value as well.
SizesDiffer(k) ==
    Cardinality(DOMAIN rows)
        # Cardinality({KeyOf(k, rows[i]) : i \in {j \in DOMAIN rows : HasKey(k, rows[j])}})

\* storage_inplace_alter_table_add_index.  An error removes index column and
\* index table of each key it had added, the user's lexicon too.
storage_inplace_alter_table_add_index(g, l, A, f) ==
    LET differ == {k \in A \cap Unique : ~Multiple(k) /\ SizesDiffer(k)}
        tried == UpToFirst(A, differ)
        o    == storage_create_index(g, l, name, tried, f)
        made == MadeIndexes(tried, CreateIndexFails(g, l, name, tried, f))
        many == {k \in made : Multiple(k)}
    IN IF o.error \/ differ # {} \/ DuplicateReported(many)
       THEN Objects(SetIndex(o.grn, name, made \ Lexicon, "none"),
                    IF made \cap Lexicon = {} THEN o.lexicon
                    ELSE [table |-> FALSE, cols |-> {}], TRUE)
       ELSE o

\* storage_check_if_supported_inplace_alter: a FOREIGN KEY is neither added nor
\* dropped in place.
SupportedInplace(D, A) ==
    /\ D \subseteq dict.keys \ Foreign
    /\ A \subseteq StorageKeys \ (dict.keys \cup Foreign)

\* storage_inplace_alter_table: DROP INDEX, the column, ADD INDEX.  A part
\* that fails ends the statement, and those before it are not taken back.
storage_inplace_alter_table(D, A, change, f) ==
    LET g == drop_index(grn, name, D)
        l == [lexicon EXCEPT !.cols = @ \ D]
        add  == IF disable_keys THEN A \cap Unique ELSE A
        many == {k \in add : Multiple(k)}
        failed == ChangeFails(g[name].cols, change, f) /\ change # <<"none">>
        changed == [g EXCEPT ![name].cols = ChangeColumns(@, change)]
        o == IF failed THEN Objects(g, l, TRUE)
             ELSE storage_inplace_alter_table_add_index(changed, l, add, f)
        without == Emptied(post, name, D)
    IN /\ StorageOpens
       /\ SupportedInplace(D, A)
       /\ change \in ColumnChanges
       /\ D \cup A # {} \/ change # <<"none">>
       /\ Cardinality((dict.keys \ D) \cup A) <= MaxKeys
       /\ MayFail(f, StorageFailures(add)
                       \cup (IF change = <<"none">> THEN {} ELSE {<<"column", 0>>}))
       /\ mishaps' = Counted(f)
       /\ grn' = o.grn /\ lexicon' = o.lexicon
       /\ IF o.error
          THEN /\ Survives(o, without, exact \ D)
               /\ dict' = dict
               /\ Torn(LossOf(o)
                       \cup (IF D = {} THEN {} ELSE {"index"})
                       \cup (IF lexicon.table /\ ~o.lexicon.table THEN {"index"} ELSE {})
                       \cup (IF failed \/ change = <<"none">> THEN {}
                             ELSE IF change[1] = "add" THEN {"name"} ELSE {"table"}))
          ELSE /\ Survives(o, storage_add_index_multiple_columns(without, many),
                           (exact \ D) \cup (IF DuplicateAccepted(many) THEN {} ELSE add))
               /\ dict' = [dict EXCEPT !.keys = (@ \ D) \cup A,
                                       !.cols = ChangeColumns(@, change)]
               /\ UNCHANGED torn
       /\ UNCHANGED <<ref, rec>>
===============================================================================
