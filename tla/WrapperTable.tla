----------------------------- MODULE WrapperTable -----------------------------
(***************************************************************************)
(* Wrapper mode of ha_mroonga.cpp: the rows are in another engine, Groonga *)
(* has a table of their primary keys (grn_table) and one full-text index   *)
(* per FULLTEXT key, which ha_mroonga updates by hand, part by part, after *)
(* the wrapped engine has changed its row.                                 *)
(*                                                                         *)
(* A statement is one step: DDL has the exclusive metadata lock, and two   *)
(* row changes of wrapper mode meet only on rows the wrapped engine has    *)
(* locked.  Within the step the calls happen in the code's order, and f    *)
(* names the one that fails.                                               *)
(***************************************************************************)
EXTENDS GrnObjects

CONSTANTS
    WrapperKeys,  \* the FULLTEXT keys of the wrapper mode table
    Pks           \* primary key values

ASSUME WrapperAssumption ==
    WrapperKeys \subseteq Keys \ (Lexicon \cup Foreign)

\* wrapper_open: without the Groonga table the table does not open, except
\* for REPAIR; after a failed RENAME the wrapped table has the other name.
WrapperOpens ==
    /\ dict.mode = "wrapper"
    /\ grn[name].table
    /\ "wrapped" \notin torn

have_target_index == dict.keys # {}

\* The postings of the row r with record ID i in the index of k: a part
\* that is NULL has none.
RowPostings(k, i, r) ==
    {<<i, s, r[Parts[k][s]]>> : s \in {t \in DOMAIN Parts[k] : r[Parts[k][t]] # Empty}}

\* The keys whose index column the handler has.
Indexed == {k \in dict.keys : IndexColumn(k)}

FreeIds(R) == Ids \ Range(R)
With(R, p, i) == [q \in DOMAIN R \cup {p} |-> IF q = p THEN i ELSE R[q]]
Without(R, p) == [q \in DOMAIN R \ {p} |-> R[q]]

\* grn_table_add: the ID of the key p, or a new one.  Which free ID it is
\* makes no difference to the code: no two IDs are ever compared.
AddIds(R, p) ==
    IF p \in DOMAIN R THEN {R[p]}
    ELSE {i \in FreeIds(R) : \A j \in FreeIds(R) : i <= j}

-----------------------------------------------------------------------------
(* Searching.                                                              *)

\* wrapper_ft_read: the records the index has for the word w lead through
\* their key to a row of the wrapped engine; a key it has not is passed over.
wrapper_ft_read(k, w) ==
    {p \in DOMAIN rec \cap DOMAIN rows :
        \E s \in DOMAIN Parts[k] : <<rec[p], s, w>> \in post[name][k]}

-----------------------------------------------------------------------------
(* Rows.                                                                   *)

\* What the index part of a row change did: the records and postings it left,
\* whether it returned an error, and whether it gave up with a warning.
Outcome(R, P, error, stale) ==
    [rec |-> R, post |-> P, error |-> error, stale |-> stale]
Unchanged == Outcome(rec, post, FALSE, FALSE)

\* Postings of this table's indexes after the change c(k) of each key's set.
Posted(c(_)) == [post EXCEPT ![name] = [k \in Keys |-> c(k)]]
Old(k) == post[name][k]

\* The whole statement.  The wrapped engine's part is undone when the
\* transaction is rolled back, or, if that engine has transactions, when the
\* handler returned an error; the index is not.  After either the index need
\* not agree with the rows any more.
RowStatement(new, o, f, rollback) ==
    /\ rollback \in BOOLEAN
    /\ rollback => f = None /\ mishaps < MaxMishaps
    /\ mishaps' = IF rollback THEN mishaps + 1 ELSE Counted(f)
    /\ rec' = o.rec /\ post' = o.post
    /\ \/ ~rollback /\ rows' = new
       \/ (rollback \/ o.error) /\ rows' = rows
    /\ exact' = IF o.error \/ o.stale \/ rollback THEN exact \ Indexed ELSE exact
    /\ UNCHANGED <<dict, grn, lexicon, ref, torn>>

RowFailures == KeyFailures({"update"}, Indexed) \cup {<<"add", 0>>}

\* The key at which grn_column_index_update fails, if there is one.
BadKey(f) == {k \in Indexed : f = <<"update", k>>}

\* wrapper_write_row_index.  A record that cannot be added is a warning only,
\* and the row stays without postings; a posting that fails is an error.
wrapper_write_row_index(p, r, f) ==
    IF ~have_target_index THEN {Unchanged}
    ELSE IF f = <<"add", 0>> THEN {Outcome(rec, post, FALSE, TRUE)}
    ELSE {Outcome(With(rec, p, i),
                  Posted(LAMBDA k : IF k \in Before(Indexed, BadKey(f))
                                    THEN Old(k) \cup RowPostings(k, i, r) ELSE Old(k)),
                  BadKey(f) # {}, FALSE) : i \in AddIds(rec, p)}

\* wrapper_write_row: the wrapped engine first.
wrapper_write_row(p, r, f, rollback) ==
    /\ WrapperOpens /\ p \notin DOMAIN rows
    /\ MayFail(f, RowFailures)
    /\ \E o \in wrapper_write_row_index(p, r, f) :
         RowStatement(With(rows, p, r), o, f, rollback)

\* The parts of the enabled keys, as wrapper_update_row_index goes through
\* them: by key, then by part.
KeyParts == UNION {{k} \X DOMAIN Parts[k] : k \in Indexed}
Earlier(x, y) == x[1] < y[1] \/ (x[1] = y[1] /\ x[2] < y[2])
Position(x) == Cardinality({y \in KeyParts : Earlier(y, x)}) + 1

\* The parts of k that are changed when the loop ends after its n-th round.
PartsDone(k, n) == {s \in DOMAIN Parts[k] : Position(<<k, s>>) <= n}

\* Faulty variant: the postings of the old row are kept.
ReplacedKeepsOld(k, i, old, j, r, S) ==
    Old(k) \cup {x \in RowPostings(k, j, r) : x[2] \in S}

\* Postings of k when, for the parts S, the old row's went from record i and
\* the new row's were added to record j.
Replaced(k, i, old, j, r, S) ==
    (Old(k) \ {x \in RowPostings(k, i, old) : x[2] \in S})
        \cup {x \in RowPostings(k, j, r) : x[2] \in S}

\* Faulty variant: the new key gets the record of the old key, which stays.
UpdateIndexSharesRecord(p, q, r, f) ==
    {Outcome(With(rec, q, i), post, FALSE, FALSE) :
        i \in IF p \in DOMAIN rec THEN {rec[p]} ELSE AddIds(rec, q)}

\* wrapper_update_row_index.  The new key's record is added first, so that a
\* record that was missing is found again when the key did not change; if the
\* old key's record is missing the call gives up with a warning.  When the
\* primary key changes, grn_table_delete_by_id of the old record is called
\* once for each part of each key: from the second part on the record is gone
\* already, and if Groonga reports that the loop ends there.
wrapper_update_row_index(p, q, r, f) ==
    IF ~have_target_index THEN {Unchanged}
    ELSE IF f = <<"add", 0>> THEN {Outcome(rec, post, TRUE, FALSE)}
    ELSE LET all == Cardinality(KeyParts)
             bad == {Position(x) : x \in {y \in KeyParts : f = <<"update", y[1]>> /\ y[2] = 1}}
             failed == bad # {}
             last == IF failed THEN Min(bad) - 1 ELSE all
         IN UNION {
              LET R == With(rec, q, j) IN
              IF p \notin DOMAIN R THEN {Outcome(R, post, FALSE, TRUE)}
              ELSE LET i == R[p]
                       After(n) == Posted(LAMBDA k : IF k \in Indexed
                                          THEN Replaced(k, i, rows[p], j, r, PartsDone(k, n))
                                          ELSE Old(k))
                   IN IF i = j THEN {Outcome(R, After(last), failed, FALSE)}
                      ELSE IF last = 0 THEN {Outcome(R, post, failed, FALSE)}
                      ELSE {Outcome(Without(R, p), After(last), failed, FALSE)}
                           \cup (IF last = 1 THEN {}
                                 ELSE {Outcome(Without(R, p), After(2), TRUE, FALSE)})
              : j \in AddIds(rec, q)}

wrapper_update_row(p, q, r, f, rollback) ==
    /\ WrapperOpens /\ p \in DOMAIN rows
    /\ (q = p /\ r # rows[p]) \/ q \notin DOMAIN rows
    /\ MayFail(f, RowFailures)
    /\ \E o \in wrapper_update_row_index(p, q, r, f) :
         RowStatement(With(Without(rows, p), q, r), o, f, rollback)

\* wrapper_delete_row_index: no record, no work; after a posting that fails
\* the record goes all the same.
wrapper_delete_row_index(p, f) ==
    IF ~have_target_index THEN {Unchanged}
    ELSE IF p \notin DOMAIN rec THEN {Outcome(rec, post, FALSE, TRUE)}
    ELSE {Outcome(Without(rec, p),
                  Posted(LAMBDA k : IF k \in Before(Indexed, BadKey(f))
                                    THEN Old(k) \ RowPostings(k, rec[p], rows[p])
                                    ELSE Old(k)),
                  BadKey(f) # {}, FALSE)}

wrapper_delete_row(p, f, rollback) ==
    /\ WrapperOpens /\ p \in DOMAIN rows
    /\ MayFail(f, KeyFailures({"update"}, Indexed))
    /\ \E o \in wrapper_delete_row_index(p, f) :
         RowStatement(Without(rows, p), o, f, rollback)

\* wrapper_delete_all_rows, and wrapper_truncate with wrapper_truncate_index:
\* every index table the handler has, then the table of keys.
ClearedIndexes ==
    IF ~have_target_index THEN Unchanged
    ELSE Outcome(<< >>, Emptied(post, name, {k \in dict.keys : IndexTable(k)}),
                 FALSE, FALSE)

wrapper_delete_all_rows(rollback) ==
    /\ WrapperOpens
    /\ RowStatement(<< >>, ClearedIndexes, None, rollback)

wrapper_truncate ==
    /\ WrapperOpens
    /\ RowStatement(<< >>, ClearedIndexes, None, FALSE)

-----------------------------------------------------------------------------
(* DDL.                                                                    *)

\* wrapper_create_index_fulltext for the keys K of table n: the state each
\* index table is left in, and the keys for which it returns an error.  An
\* index table whose index column could not be created stays.
CreateFails(g, n, K, f) ==
    {k \in K : \/ g[n].index[k] # "none"
               \/ f \in {<<"index_table", k>>, <<"index_column", k>>}}
wrapper_create_index_fulltext(g, n, K, f) ==
    [g EXCEPT ![n].index =
        [k \in Keys |-> IF k \notin K \/ @[k] # "none" \/ f = <<"index_table", k>>
                        THEN @[k]
                        ELSE IF f = <<"index_column", k>> THEN "table" ELSE "full"]]

CreateFailures(K) ==
    KeyFailures({"index_table", "index_column"}, K) \cup {<<"table", 0>>}

\* wrapper_create_index: the table of keys, then every index.  The loop does
\* not stop at an error, and the error of one key is overwritten by the next:
\* only that of the last key is seen, and undone.
wrapper_create_index(g, n, K, f) ==
    LET t == [g EXCEPT ![n].table = TRUE]
        i == wrapper_create_index_fulltext(t, n, K, f)
        made == {k \in K : g[n].index[k] = "none"}
        error == K # {} /\ Max(K) \in CreateFails(t, n, K, f)
    IN IF g[n].table \/ f = <<"table", 0>> THEN [grn |-> g, error |-> TRUE]
       ELSE IF error
       THEN [grn |-> SetIndex(g, n, made, "none"), error |-> TRUE]
       ELSE [grn |-> i, error |-> FALSE]

\* wrapper_create.  When the wrapped engine refuses, what was made is taken
\* back; when the handler for it cannot be had, it is not.
wrapper_create(n, K, f) ==
    LET c == wrapper_create_index(grn, n, K, f)
        refused == f = <<"wrapped", 0>> \/ f = <<"handler", 0>>
    IN /\ dict.mode = "none" /\ K \subseteq WrapperKeys /\ Cardinality(K) <= MaxKeys
       /\ MayFail(f, CreateFailures(K) \cup {<<"wrapped", 0>>, <<"handler", 0>>})
       /\ mishaps' = Counted(f)
       /\ grn' = IF c.error \/ f # <<"wrapped", 0>> THEN c.grn
                 ELSE generic_delete_table(c.grn, n, {})
       /\ IF c.error \/ refused
          THEN dict' = dict /\ exact' = {}
          ELSE /\ dict' = [mode |-> "wrapper", name |-> n, keys |-> K, cols |-> {}]
               /\ exact' = {k \in K : k \notin CreateFails(grn, n, K, f)}
       /\ Torn(IF f = <<"handler", 0>> /\ ~c.error THEN {"name"}
               ELSE IF ~c.error /\ CreateFails(grn, n, K, f) # {} THEN {"index"}
               ELSE {})
       /\ rows' = << >> /\ rec' = << >>
       /\ post' = Emptied(post, n, K \ {k \in K : grn[n].index[k] # "none"})
       /\ UNCHANGED <<lexicon, ref>>

\* delete_table of wrapper mode: the wrapped table, the Groonga objects.
wrapper_delete_table ==
    /\ dict.mode = "wrapper" /\ "wrapped" \notin torn
    /\ grn' = generic_delete_table(grn, name, {})
    /\ dict' = NoTable
    /\ rows' = << >> /\ rec' = << >> /\ exact' = {}
    /\ post' = [n \in Names |-> [k \in Keys |-> {}]]
    /\ torn' = torn \ {"table"}
    /\ UNCHANGED <<lexicon, ref, mishaps>>

\* wrapper_rename_table: the wrapped table first, then wrapper_rename_index,
\* each index table and at last the table of keys.  Nothing is taken back.
wrapper_rename_table(to, f) ==
    LET bad  == RenameFails(name, to, dict.keys, f)
        done == Before(dict.keys, bad)
        error == bad # {} \/ f = <<"rename", 0>> \/ grn[to].table \/ ~grn[name].table
        moved == MoveIndex(grn, name, to, done)
    IN /\ dict.mode = "wrapper" /\ "wrapped" \notin torn /\ to # name
       /\ MayFail(f, KeyFailures({"rename"}, {k \in dict.keys : IndexTable(k)} \cup {0}))
       /\ mishaps' = Counted(f)
       /\ post' = MovePost(grn, post, name, to, done)
       /\ IF error
          THEN /\ grn' = moved
               /\ exact' = {} /\ dict' = dict
               /\ Torn({"wrapped", "name"})
          ELSE /\ grn' = [moved EXCEPT ![to].table = TRUE, ![name].table = FALSE]
               /\ dict' = [dict EXCEPT !.name = to]
               /\ UNCHANGED <<exact, torn>>
       /\ UNCHANGED <<lexicon, ref, rows, rec>>

\* wrapper_fill_indexes: a record and the postings of K for every row.
Filled(R) == {S \in [DOMAIN rows \cup DOMAIN R -> Ids] :
                 /\ \A p \in DOMAIN R : S[p] = R[p]
                 /\ IsInjective(S)}
FilledRecs(R) == IF Filled(R) = {} THEN {} ELSE {CHOOSE S \in Filled(R) : TRUE}
wrapper_fill_indexes(R, P, K) ==
    [P EXCEPT ![name] = [k \in Keys |->
        IF k \in K THEN @[k] \cup UNION {RowPostings(k, R[p], rows[p]) : p \in DOMAIN rows}
        ELSE @[k]]]

\* DISABLE KEYS: wrapper_disable_indexes_mroonga does nothing if one of the
\* indexes is away already, and removes all of them otherwise.
wrapper_disable_indexes ==
    /\ WrapperOpens
    /\ \A k \in dict.keys : IndexTable(k)
    /\ grn' = SetIndex(grn, name, dict.keys, "none")
    /\ post' = Emptied(post, name, dict.keys)
    /\ exact' = {}
    /\ UNCHANGED <<dict, lexicon, ref, rows, rec, torn, mishaps>>

\* ENABLE KEYS: wrapper_enable_indexes_mroonga makes the index columns that
\* are missing, stops at the first that fails, and fills what it has made
\* only if none did.
wrapper_enable_indexes(f) ==
    LET missing == {k \in dict.keys : ~IndexColumn(k)}
        bad   == CreateFails(grn, name, missing, f)
        tried == UpToFirst(missing, bad)
        error == bad # {} \/ f = <<"fill", 0>>
    IN /\ WrapperOpens /\ missing # {}
       /\ MayFail(f, KeyFailures({"index_table", "index_column"}, missing)
                       \cup {<<"fill", 0>>})
       /\ mishaps' = Counted(f)
       /\ grn' = wrapper_create_index_fulltext(grn, name, tried, f)
       /\ IF error
          THEN /\ UNCHANGED <<rec, post, exact>>
               /\ Torn({"index"})
          ELSE /\ \E R \in FilledRecs(rec) :
                    /\ rec' = R
                    /\ post' = wrapper_fill_indexes(R, post, missing)
               /\ exact' = exact \cup missing
               /\ UNCHANGED torn
       /\ UNCHANGED <<dict, lexicon, ref, rows>>

\* REPAIR TABLE: wrapper_recreate_indexes removes whatever has the names of
\* this table's objects, makes all of them again and fills them.
wrapper_repair(f) ==
    LET gone == [remove_grn_obj_force(grn, name, dict.keys) EXCEPT ![name].table = FALSE]
        c == wrapper_create_index(gone, name, dict.keys, f)
        made == {k \in dict.keys : c.grn[name].index[k] = "full"}
        error == c.error \/ f = <<"fill", 0>>
    IN /\ dict.mode = "wrapper" /\ "wrapped" \notin torn
       /\ MayFail(f, CreateFailures(dict.keys) \cup {<<"fill", 0>>})
       /\ mishaps' = Counted(f)
       /\ grn' = c.grn
       /\ IF error
          THEN /\ rec' = << >> /\ post' = Emptied(post, name, dict.keys)
               /\ exact' = {} /\ Torn({"index", "table"})
          ELSE /\ \E R \in FilledRecs(<< >>) :
                    /\ rec' = R
                    /\ post' = wrapper_fill_indexes(R, Emptied(post, name, dict.keys), made)
               /\ exact' = IF f = None THEN dict.keys ELSE made
               /\ torn' = (torn \ {"table"})
                            \cup (IF made = dict.keys THEN {} ELSE {"index"})
       /\ UNCHANGED <<dict, lexicon, ref, rows>>

\* ALTER TABLE in place: wrapper_inplace_alter_table drops the indexes of D,
\* makes those of A, unless one of the table's index tables is missing
\* (disable_keys), fills them and calls the wrapped engine.  An error takes
\* back what was added, not what was dropped.
wrapper_inplace_alter_table(D, A, f) ==
    LET add   == IF disable_keys THEN {} ELSE A
        g     == drop_index(grn, name, D)
        bad   == CreateFails(g, name, add, f)
        tried == UpToFirst(add, bad)
        error == bad # {} \/ f \in {<<"fill", 0>>, <<"wrapped", 0>>}
        filled == bad = {} /\ add # {} /\ f # <<"fill", 0>>
    IN /\ WrapperOpens
       /\ D \subseteq dict.keys /\ A \subseteq WrapperKeys \ dict.keys
       /\ D \cup A # {} /\ Cardinality((dict.keys \ D) \cup A) <= MaxKeys
       /\ MayFail(f, KeyFailures({"index_table", "index_column"}, add)
                       \cup {<<"wrapped", 0>>}
                       \cup (IF add = {} THEN {} ELSE {<<"fill", 0>>}))
       /\ mishaps' = Counted(f)
       /\ \E R \in (IF filled THEN FilledRecs(rec) ELSE {rec}) :
            /\ rec' = R
            /\ post' = IF error THEN Emptied(post, name, D)
                       ELSE wrapper_fill_indexes(R, Emptied(post, name, D), add)
       /\ IF error
          THEN /\ grn' = SetIndex(wrapper_create_index_fulltext(g, name, tried, f),
                                  name, {k \in tried : g[name].index[k] = "none"}, "none")
               /\ exact' = exact \ D /\ dict' = dict
               /\ Torn(IF D = {} THEN {} ELSE {"index"})
          ELSE /\ grn' = wrapper_create_index_fulltext(g, name, add, f)
               /\ exact' = (exact \ D) \cup add
               /\ dict' = [dict EXCEPT !.keys = (@ \ D) \cup A]
               /\ UNCHANGED torn
       /\ UNCHANGED <<lexicon, ref, rows>>
===============================================================================
